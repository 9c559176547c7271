--------------------------- MODULE RobotLifecycle ---------------------------
(***************************************************************************)
(* One robot of yantrasim: what a tick, an operator command, an            *)
(* initPosition and an inbound VDA 5050 order do to it, and what master    *)
(* control learns about its actions from the state messages.               *)
(*                                                                         *)
(*   sim/yantrasim/sim.py              Robot, FleetSim                     *)
(*   sim/yantrasim/commands.py         apply_command                       *)
(*   sim/yantrasim/transports/mqtt.py  _handle_init_position, poll_orders  *)
(*                                                                         *)
(* Robots do not interact except through missions, so one robot stands for *)
(* the fleet. Positions, speeds, temperatures, health and the one-shot     *)
(* low-battery event are left out; the battery is a band.                  *)
(***************************************************************************)
EXTENDS Integers, Sequences

CONSTANTS
  Nodes, TaskNodes, ChargerNodes,
  Route,            \* Route[m][n]: world.shortest_path(m, n) without m
  NearestCharger,   \* NearestCharger[n]: world.nearest_charger(n)
  Verbs,            \* the operator commands that may arrive
  FaultKinds,       \* the faults that may strike
  FaultTicks,       \* how long a fault lasts, in ticks
  InitPosition,     \* TRUE: initPosition instantActions may arrive
  Orders,           \* the order messages master control sends, in sequence
  Redelivery,       \* TRUE: an order message may arrive again later
  Repeats,          \* TASK_ACTION_STATE_REPEATS (3 in the code)
  MaxActions        \* bound: actionIds the robot mints for itself

\* An actionId is minted by the robot or comes with an order.
NoAction == <<"none", 0>>
Minted(n) == <<"minted", n>>
MasterAction(n) == <<"master", n>>
ActionIds == {Minted(n) : n \in 1 .. MaxActions}
               \cup {MasterAction(n) : n \in 1 .. Len(Orders)}

\* orderId 0 stands for every id the robot gives its own routes.
OwnOrder == 0
OrderIds == {OwnOrder} \cup {Orders[i].id : i \in 1 .. Len(Orders)}

\* An order's action: the actionId master control gives it, or one of these.
Actionless == 0
Unnamed == -1
Order == [id : Nat \ {OwnOrder}, update : Nat, nodes : Seq(Nodes),
          action : {Unnamed, Actionless} \cup 1 .. Len(Orders)]

\* What the code assumes of its parameters.
Constants ==
  /\ TaskNodes \subseteq Nodes /\ ChargerNodes \subseteq Nodes
  /\ Route \in [Nodes -> [Nodes -> Seq(Nodes)]]
  /\ NearestCharger \in [Nodes -> ChargerNodes]
  /\ "none" \notin FaultKinds
  /\ FaultTicks \in Nat /\ FaultTicks > 1
  /\ InitPosition \in BOOLEAN /\ Redelivery \in BOOLEAN
  /\ Orders \in Seq(Order)
  /\ Repeats \in Nat \ {0} /\ MaxActions \in Nat

Held == {"paused", "estopped"}
Driving == {"moving", "to_charger"}
Statuses == {"idle", "working", "charging", "fault"} \cup Held \cup Driving
Bands == {"full", "mid", "low"}    \* >= 90 %, between, <= 20 %

VARIABLES
  r,         \* the Robot
  reported,  \* status of each action as last published, "none" before
  issued     \* number of order messages master control has sent

vars == <<r, reported, issued>>

\* A robot as FleetSim creates it, and nothing published of its actions yet.
Fresh(n) ==
  [status |-> "idle", resume |-> "idle", node |-> n, path |-> <<>>,
   battery |-> "mid", task |-> FALSE, action |-> NoAction, minted |-> 0,
   fault |-> "none", ticks |-> 0, order |-> OwnOrder, update |-> 0,
   verdict |-> [a \in ActionIds |-> "none"],
   left |-> [a \in ActionIds |-> 0], errors |-> 0]
Untold == [a \in ActionIds |-> "none"]

Init ==
  /\ \E n \in TaskNodes : r = Fresh(n)
  /\ reported = Untold
  /\ issued = 0

-----------------------------------------------------------------------------
(* Pieces of FleetSim *)

\* task_kind and current_action_id cleared.
Dropped(q) == [q EXCEPT !.task = FALSE, !.action = NoAction]

\* A terminal actionState is queued for the next state messages.
Staged(q, v) == [q EXCEPT !.verdict[q.action] = v, !.left[q.action] = Repeats]

\* mutant: an abandoned action vanishes
StageNothing(q) == q
StageFailed(q) == IF q.task THEN Staged(q, "FAILED") ELSE q

Arrived(q) ==
  [q EXCEPT !.status = CASE q.status = "to_charger" -> "charging"
                         [] q.status = "moving" /\ q.task -> "working"
                         [] OTHER -> "idle"]

ArrivedIfThere(q) == IF q.path = <<>> THEN Arrived(q) ELSE q

Routed(q, target, status) ==
  ArrivedIfThere([q EXCEPT !.path = Route[q.node][target], !.status = status,
                           !.order = OwnOrder, !.update = 0])

\* mutant: the id is derived from the number of completed tasks, so that an
\* abandoned task hands its id on to the next one
MintFromDone(q) ==
  1 + (IF \E n \in 1 .. q.minted : q.verdict[Minted(n)] = "FINISHED"
       THEN q.minted ELSE 0)
NextMinted(q) == q.minted + 1

\* _advance_along_path: k nodes further; less than a leg is no node at all.
Advanced(q, k) ==
  ArrivedIfThere([q EXCEPT !.node = IF k = 0 THEN @ ELSE q.path[k],
                           !.path = SubSeq(q.path, k + 1, Len(q.path))])

Drains(q) == {q} \cup {[q EXCEPT !.battery = IF @ = "full" THEN "mid" ELSE "low"]}

\* build_state and attach_pending: a staged verdict replaces RUNNING.
Report(q) ==
  [a \in ActionIds |->
     IF q.left[a] > 0 THEN q.verdict[a]
     ELSE IF q.status = "working" /\ q.task /\ q.action = a THEN "RUNNING"
     ELSE reported[a]]

Less(n) == IF n > 0 THEN n - 1 ELSE 0

\* A tick ends with the robot's state message.
Published(q) ==
  /\ reported' = Report(q)
  /\ r' = [q EXCEPT !.left = [a \in ActionIds |-> Less(q.left[a])],
                    !.errors = Less(@)]
  /\ UNCHANGED issued

-----------------------------------------------------------------------------
(* FleetSim._step_robot, one action per branch *)

\* A fault strikes, and its first tick is this one. It strikes a held robot
\* like any other.
ResumeAfterFault == IF r.status \in Driving THEN r.status ELSE "idle"

FaultStarts(kind) ==
  /\ r.fault = "none"
  /\ Published([r EXCEPT !.fault = kind, !.ticks = FaultTicks - 1,
                         !.resume = ResumeAfterFault, !.status = "fault"])

CauseAfterClear == "none"

TickFault ==
  /\ r.status = "fault"
  /\ Published(IF r.ticks <= 1
               THEN [r EXCEPT !.ticks = 0, !.fault = CauseAfterClear,
                              !.status = r.resume]
               ELSE [r EXCEPT !.ticks = @ - 1])

TickHeld ==
  /\ r.status \in Held
  /\ \E q \in Drains(r) : Published(q)

TickCharging ==
  /\ r.status = "charging"
  /\ \E band \in {r.battery, "mid", "full"} :
       /\ r.battery = "full" => band = "full"
       /\ Published(IF band = "full"
                    THEN [r EXCEPT !.battery = band, !.status = "idle",
                                   !.task = FALSE]
                    ELSE [r EXCEPT !.battery = band])

\* Low battery diverts from any active state, then drives on.
Diverted == Dropped(Routed(StageFailed(r), NearestCharger[r.node], "to_charger"))

TickDivert ==
  /\ r.status \in {"idle", "working", "moving"}
  /\ r.battery = "low"
  /\ IF Diverted.status = "to_charger"
     THEN \E k \in 0 .. Len(Diverted.path) : Published(Advanced(Diverted, k))
     ELSE Published(Diverted)

TickIdle ==
  /\ r.status = "idle"
  /\ r.battery # "low"
  /\ \E q \in Drains(r) : Published(q)

\* _assign_task: an idle robot takes a task, most of the time.
Assigned(q, target) ==
  Routed([q EXCEPT !.task = TRUE, !.minted = NextMinted(q),
                   !.action = Minted(NextMinted(q))], target, "moving")

TickAssign ==
  /\ r.status = "idle"
  /\ r.battery # "low"
  /\ r.minted < MaxActions
  /\ \E target \in TaskNodes \ {r.node} : \E q \in Drains(r) :
       Published(Assigned(q, target))

TickWorking ==
  /\ r.status = "working"
  /\ r.battery # "low"
  /\ \E q \in Drains(r) : Published(q)

\* The work of a robot whose task was dropped while it was "working" would be
\* finished without a report; Staged needs the task.
\* mutant: the task is cleared before its action is staged
FinishedLate(q) == [Dropped(q) EXCEPT !.status = "idle"]
Finished(q) ==
  [Dropped(IF q.task THEN Staged(q, "FINISHED") ELSE q) EXCEPT !.status = "idle"]

TickFinish ==
  /\ r.status = "working"
  /\ r.battery # "low"
  /\ \E q \in Drains(r) : Published(Finished(q))

TickDrive ==
  /\ r.status \in Driving
  /\ r.status = "moving" => r.battery # "low"
  /\ \E q \in Drains(r) : \E k \in 0 .. Len(q.path) : Published(Advanced(q, k))

Tick ==
  \/ TickFault \/ TickHeld \/ TickCharging \/ TickDivert \/ TickIdle
  \/ TickAssign \/ TickWorking \/ TickFinish \/ TickDrive

-----------------------------------------------------------------------------
(* apply_command, the branches that change the robot *)

Quietly == UNCHANGED <<reported, issued>>

Pause ==
  /\ "pause" \in Verbs
  /\ r.status \notin {"fault"} \cup Held
  /\ r' = [r EXCEPT !.resume = r.status, !.status = "paused"]
  /\ Quietly

NotStopped == r.status # "estopped"

Estop ==
  /\ "estop" \in Verbs
  /\ NotStopped
  /\ r' = [r EXCEPT !.resume = IF r.status = "fault" THEN "idle" ELSE r.status,
                    !.status = "estopped"]
  /\ Quietly

\* A held task is not taken up again: its action fails.
Resumed(q) ==
  IF q.status \in {"moving", "working"}
  THEN Dropped([StageFailed(q) EXCEPT !.status = "idle", !.path = <<>>])
  ELSE q

Resume ==
  /\ "resume" \in Verbs
  /\ r.status \in Held
  /\ r' = Resumed([r EXCEPT !.status = r.resume])
  /\ Quietly

CancelOrder ==
  /\ "cancel_order" \in Verbs
  /\ r.status # "fault"
  /\ r' = [Dropped(StageFailed(r)) EXCEPT
             !.path = <<>>,
             !.status = IF @ \in {"moving", "working", "to_charger"}
                        THEN "idle" ELSE @]
  /\ Quietly

Charge ==
  /\ "charge" \in Verbs
  /\ r.status \notin {"fault", "charging"}
  /\ LET q == IF r.status \in Held THEN [r EXCEPT !.status = r.resume] ELSE r
     IN  r' = Dropped(Routed(StageFailed(q), NearestCharger[r.node], "to_charger"))
  /\ Quietly

Command == Pause \/ Estop \/ Resume \/ CancelOrder \/ Charge

\* initPosition: a new pose, an empty path, and the localization fault is over.
Reposition(n) ==
  /\ InitPosition
  /\ r.status \in {"idle", "fault"}
  /\ r.status = "fault" => r.fault = "localization"
  /\ LET q == [r EXCEPT !.node = n, !.path = <<>>]
     IN  r' = IF r.fault = "localization"
              THEN [q EXCEPT !.fault = "none", !.ticks = 0, !.status = r.resume]
              ELSE q
  /\ Quietly

-----------------------------------------------------------------------------
(* FleetSim.apply_order *)

\* mutant: only a duplicate is recognised, a late update is accepted
StaleEqual(o) == o.id = r.order /\ o.update = r.update
Stale(o) == o.id = r.order /\ o.update <= r.update

\* The actionId the order's action will be reported under.
ActionOf(q, o) ==
  CASE o.action = Actionless -> NoAction
    [] o.action = Unnamed -> Minted(q.minted)
    [] OTHER -> MasterAction(o.action)

\* The robot's position, restated by the order, is not visited again.
Remaining(o) ==
  IF o.nodes # <<>> /\ Head(o.nodes) = r.node THEN Tail(o.nodes) ELSE o.nodes

\* mutant: only a fault keeps a robot from an order
RefusesFaulted == r.status = "fault"
RefusesOrders == r.status \in {"fault"} \cup Held

AdoptOrder(o) ==
  /\ ~Stale(o)
  /\ ~RefusesOrders
  /\ o.action = Unnamed => r.minted < MaxActions
  /\ LET m == IF o.action = Unnamed THEN [r EXCEPT !.minted = @ + 1] ELSE r
         a == ActionOf(m, o)
         q == IF m.action # a THEN StageFailed(m) ELSE m
     IN  r' = ArrivedIfThere(
                [q EXCEPT !.path = Remaining(o), !.order = o.id,
                          !.update = o.update, !.task = o.action # Actionless,
                          !.action = a, !.status = "moving"])
  /\ UNCHANGED reported

\* A lower update is answered with an orderUpdateError, an equal one with nothing.
RejectOrder(o) ==
  /\ o.id = r.order /\ o.update < r.update
  /\ r' = [r EXCEPT !.errors = Repeats]
  /\ UNCHANGED reported

\* The broker delivers a message of master control: the next one, those before it
\* being lost or late, or an earlier one again. One that a faulted or held robot
\* rejects changes nothing.
ReceiveOrder ==
  \E i \in 1 .. Len(Orders) :
    /\ i > issued \/ Redelivery
    /\ AdoptOrder(Orders[i]) \/ RejectOrder(Orders[i])
    /\ issued' = IF i > issued THEN i ELSE issued

-----------------------------------------------------------------------------
\* stateRequest: a state message between two ticks.
StateRequest == Published(r)

Next ==
  \/ Tick
  \/ StateRequest
  \/ \E kind \in FaultKinds : FaultStarts(kind)
  \/ Command
  \/ \E n \in Nodes : Reposition(n)
  \/ ReceiveOrder

Spec == Init /\ [][Next]_vars

\* The simulator keeps ticking; legs and actions have a finite length, and a
\* charger charges.
Progress ==
  /\ WF_vars(Tick)
  /\ SF_vars(TickDrive /\ r'.path # r.path)
  /\ SF_vars(TickFinish)
  /\ SF_vars(TickCharging /\ r'.battery = "full")

FairSpec == Spec /\ Progress

-----------------------------------------------------------------------------
(* Properties *)

\* The robot has its type.
TypeOK ==
  /\ r.status \in Statuses /\ r.resume \in Statuses \ {"fault"}
  /\ r.node \in Nodes /\ r.path \in Seq(Nodes)
  /\ r.battery \in Bands /\ r.task \in BOOLEAN
  /\ r.action \in ActionIds \cup {NoAction}
  /\ r.minted \in 0 .. MaxActions
  /\ r.fault \in {"none"} \cup FaultKinds /\ r.ticks \in 0 .. FaultTicks
  /\ r.order \in OrderIds /\ r.update \in Nat
  /\ r.verdict \in [ActionIds -> {"none", "FINISHED", "FAILED"}]
  /\ r.left \in [ActionIds -> 0 .. Repeats] /\ r.errors \in 0 .. Repeats
  /\ r.task => r.action # NoAction
  /\ reported \in [ActionIds -> {"none", "RUNNING", "FINISHED", "FAILED"}]
  /\ issued \in 0 .. Len(Orders)

\* Only an operator's command ends an operator's hold (sim.py:342).
KeepsHold ==
  r.status \in Held /\ r'.status \notin Held => Resume \/ Charge
HoldIsKept == [][KeepsHold]_vars

InFlight(a) == r.task /\ r.action = a

\* With faults: nothing else than an operator's command or a fault ends a hold,
\* no tick, no order, and no initPosition.
Struck == \E kind \in FaultKinds : FaultStarts(kind)
YieldsHold ==
  r.status \in Held /\ r'.status \notin Held => Resume \/ Charge \/ Struck
HoldYieldsToFaults == [][YieldsHold]_vars

\* An action that stops being in flight was reported, or is queued to be
\* reported, FINISHED or FAILED (VDA 5050 6.9, sim.py:654).
TerminatesActions ==
  \A a \in ActionIds : InFlight(a) /\ ~InFlight(a)' => r'.verdict[a] # "none"
ActionTerminates == [][TerminatesActions]_vars

\* With faults: an action that vanishes is one that a fault had interrupted,
\* and that its robot, idle since, still held.
Interrupted == r.status = "idle" /\ FaultKinds # {}
AccountsForActions ==
  \A a \in ActionIds :
    InFlight(a) /\ ~InFlight(a)' => r'.verdict[a] # "none" \/ Interrupted
ActionAccounted == [][AccountsForActions]_vars

\* The status of an action only advances: master control never sees one that
\* was FINISHED or FAILED run again or change its verdict (sim.py:614).
AdvancesStatuses ==
  \A a \in ActionIds :
    reported[a] \in {"FINISHED", "FAILED"} => reported'[a] = reported[a]
StatusAdvancesOnly == [][AdvancesStatuses]_vars

\* Within one order a message never rewinds or repeats progress: what is left
\* of the route changes only for a higher update, or gets shorter (sim.py:486).
KeepsProgress ==
  r'.order = r.order /\ r.order # OwnOrder =>
    \/ r'.update > r.update
    \/ /\ r'.update = r.update
       /\ \E k \in 0 .. Len(r.path) : r'.path = SubSeq(r.path, k + 1, Len(r.path))
ProgressKept == [][KeepsProgress]_vars

\* Master control learns what became of every action it saw running: it never
\* goes on for ever with one that still runs for all it knows.
SeenRunning == {a \in ActionIds : reported[a] = "RUNNING"}
RunningIsResolved == SeenRunning # {} ~> SeenRunning = {}
=============================================================================
