------------------------ MODULE RobotLifecycleProofs ------------------------
(***************************************************************************)
(* What a robot keeps for every map, every order master control may send,  *)
(* any length of a fault and any number of tasks.                          *)
(*                                                                         *)
(* Most branches of the code first change the robot and then publish it,   *)
(* so each lemma below is about the robot q a branch leaves: it is a       *)
(* robot (Sound), what it stages belongs to the action it gives up         *)
(* (Staging), and the action it takes up is a new one (Tasking).           *)
(***************************************************************************)
EXTENDS StateReport, SequenceTheorems, TLAPS

Verdicts == {"FINISHED", "FAILED"}

Robot ==
  [status : Statuses, resume : Statuses \ {"fault"}, node : Nodes,
   path : Seq(Nodes), battery : Bands, task : BOOLEAN,
   action : ActionIds \cup {NoAction}, minted : 0 .. MaxActions,
   fault : {"none"} \cup FaultKinds, ticks : 0 .. FaultTicks,
   order : OrderIds, update : Nat,
   verdict : [ActionIds -> {"none"} \cup Verdicts],
   left : [ActionIds -> 0 .. Repeats], errors : 0 .. Repeats]

\* TypeOK of a robot.
Sound(q) == q \in Robot /\ (q.task => q.action # NoAction)

SoundInv ==
  /\ Sound(r)
  /\ reported \in [ActionIds -> {"none", "RUNNING"} \cup Verdicts]
  /\ issued \in 0 .. Len(Orders)

\* The parts of a robot that tell what it does and what it reports.
SameTask(q, p) ==
  /\ q.task = p.task /\ q.action = p.action
  /\ q.minted = p.minted /\ q.verdict = p.verdict /\ q.left = p.left

\* q stages no verdict but one for the action of p, which q has given up.
Staging(p, q) ==
  \/ q.verdict = p.verdict /\ q.left = p.left
  \/ /\ p.task /\ ~(q.task /\ q.action = p.action)
     /\ \E v \in Verdicts : /\ q.verdict = [p.verdict EXCEPT ![p.action] = v]
                            /\ q.left = [p.left EXCEPT ![p.action] = Repeats]

\* An action that q has given up has a verdict, unless a fault had left its
\* robot idle with it.
Ends(p, q) ==
  p.task /\ ~(q.task /\ q.action = p.action) =>
    q.verdict[p.action] # "none" \/ (p.status = "idle" /\ FaultKinds # {})

\* A robot with a task works on it, drives to it, or is kept from it: by an
\* operator or a fault, or because a fault made it forget what it was doing.
Busy(q) ==
  /\ q.status = "fault" => q.fault # "none"
  /\ q.task =>
       \/ q.status \in {"moving", "working"}
       \/ /\ q.status \in {"fault"} \cup Held
          /\ q.resume \in {"moving", "working"} \cup Held
       \/ /\ q.status \in {"fault", "idle"} \cup Held
          /\ q.resume = "idle" /\ FaultKinds # {}

----------------------------------------------------------------------------
(* Pieces of FleetSim.                                                     *)

LEMMA NoActionIsNone == NoAction \notin ActionIds
  BY DEF NoAction, ActionIds, Minted, MasterAction

LEMMA NumbersOK ==
  ASSUME Constants
  PROVE  /\ FaultTicks \in Nat /\ 0 \in 0 .. FaultTicks /\ MaxActions \in Nat
         /\ Repeats \in Nat
  BY DEF Constants

LEMMA EmptyPath == <<>> \in Seq(Nodes)
  OBVIOUS

LEMMA Drops ==
  ASSUME NEW q \in Robot
  PROVE  /\ Sound(Dropped(q)) /\ ~Dropped(q).task /\ Dropped(q).action = NoAction
         /\ Dropped(q).status = q.status /\ Dropped(q).resume = q.resume
         /\ Dropped(q).fault = q.fault /\ Dropped(q).path = q.path
         /\ Dropped(q).node = q.node
         /\ Dropped(q).minted = q.minted
         /\ Dropped(q).verdict = q.verdict /\ Dropped(q).left = q.left
  BY DEF Dropped, Robot, Sound

LEMMA Stages ==
  ASSUME Constants, NEW q, Sound(q), q.task, NEW v \in Verdicts
  PROVE  /\ Sound(Staged(q, v))
         /\ Staged(q, v).task = q.task /\ Staged(q, v).action = q.action
         /\ Staged(q, v).status = q.status /\ Staged(q, v).resume = q.resume
         /\ Staged(q, v).fault = q.fault /\ Staged(q, v).node = q.node
         /\ Staged(q, v).path = q.path /\ Staged(q, v).minted = q.minted
         /\ Staged(q, v).verdict = [q.verdict EXCEPT ![q.action] = v]
         /\ Staged(q, v).left = [q.left EXCEPT ![q.action] = Repeats]
         /\ Staged(q, v).verdict[q.action] = v
<1>1. q.action \in ActionIds /\ Repeats \in 0 .. Repeats
  BY DEF Sound, Robot, Constants
<1> QED BY <1>1 DEF Staged, Sound, Robot

LEMMA StagesFailed ==
  ASSUME Constants, NEW q, Sound(q)
  PROVE  /\ Sound(StageFailed(q))
         /\ StageFailed(q).task = q.task /\ StageFailed(q).action = q.action
         /\ StageFailed(q).status = q.status /\ StageFailed(q).resume = q.resume
         /\ StageFailed(q).fault = q.fault /\ StageFailed(q).node = q.node
         /\ StageFailed(q).path = q.path /\ StageFailed(q).minted = q.minted
         /\ ~q.task => StageFailed(q) = q
         /\ q.task =>
              /\ StageFailed(q).verdict = [q.verdict EXCEPT ![q.action] = "FAILED"]
              /\ StageFailed(q).left = [q.left EXCEPT ![q.action] = Repeats]
              /\ StageFailed(q).verdict[q.action] = "FAILED"
<1>1. CASE q.task
  BY <1>1, Stages DEF StageFailed, Verdicts
<1>2. CASE ~q.task
  BY <1>2 DEF StageFailed
<1> QED BY <1>1, <1>2

\* What is staged depends on task and reports only.
LEMMA StagesSame ==
  ASSUME Constants, NEW p, Sound(p), NEW q, Sound(q), SameTask(p, q)
  PROVE  /\ StageFailed(p).verdict = StageFailed(q).verdict
         /\ StageFailed(p).left = StageFailed(q).left
<1>1. CASE p.task
  <2>1. q.task /\ q.action = p.action /\ q.verdict = p.verdict /\ q.left = p.left
    BY <1>1 DEF SameTask
  <2>2. /\ StageFailed(p).verdict = [p.verdict EXCEPT ![p.action] = "FAILED"]
        /\ StageFailed(p).left = [p.left EXCEPT ![p.action] = Repeats]
    BY <1>1, StagesFailed
  <2>3. /\ StageFailed(q).verdict = [q.verdict EXCEPT ![q.action] = "FAILED"]
        /\ StageFailed(q).left = [q.left EXCEPT ![q.action] = Repeats]
    BY <2>1, StagesFailed
  <2> QED BY <2>1, <2>2, <2>3
<1>2. CASE ~p.task
  <2>1. ~q.task
    BY <1>2 DEF SameTask
  <2>2. StageFailed(p) = p /\ StageFailed(q) = q
    BY <1>2, <2>1, StagesFailed
  <2> QED BY <2>2 DEF SameTask
<1> QED BY <1>1, <1>2

\* Giving an action up as FAILED.
LEMMA GivesUp ==
  ASSUME Constants, NEW p, Sound(p), NEW q, q.verdict = StageFailed(p).verdict,
         q.left = StageFailed(p).left, ~(q.task /\ q.action = p.action)
  PROVE  Staging(p, q) /\ Ends(p, q)
<1>1. CASE p.task
  BY <1>1, StagesFailed DEF Staging, Ends, Verdicts
<1>2. CASE ~p.task
  BY <1>2, StagesFailed DEF Staging, Ends
<1> QED BY <1>1, <1>2

\* Where a driving robot is when it has driven.
DrivenTo(q, p) ==
  /\ Sound(p) /\ SameTask(p, q) /\ p.resume = q.resume /\ p.fault = q.fault
  /\ p.order = q.order /\ p.update = q.update
  /\ q.status = "to_charger" => p.status \in {"to_charger", "charging"}
  /\ q.status = "moving" =>
       p.status = "moving" \/ p.status = (IF q.task THEN "working" ELSE "idle")

LEMMA Arrives ==
  ASSUME NEW q, Sound(q), q.status \in Driving
  PROVE  DrivenTo(q, ArrivedIfThere(q))
<1>1. CASE q.status = "to_charger"
  BY <1>1 DEF ArrivedIfThere, Arrived, Sound, Robot, Statuses, DrivenTo, SameTask
<1>2. CASE q.status = "moving"
  <2>1. CASE q.task
    BY <1>2, <2>1 DEF ArrivedIfThere, Arrived, Sound, Robot, Statuses, DrivenTo, SameTask
  <2>2. CASE ~q.task
    BY <1>2, <2>2 DEF ArrivedIfThere, Arrived, Sound, Robot, Statuses, DrivenTo, SameTask
  <2> QED BY <2>1, <2>2
<1> QED BY <1>1, <1>2 DEF Driving

\* A robot sent to a place of its own choice.
LEMMA Routes ==
  ASSUME Constants, NEW q, Sound(q), NEW target \in Nodes, NEW status \in Driving
  PROVE  /\ SameTask(Routed(q, target, status), q)
         /\ Routed(q, target, status).resume = q.resume
         /\ Routed(q, target, status).fault = q.fault
         /\ Sound(Routed(q, target, status))
         /\ status = "to_charger" =>
              Routed(q, target, status).status \in {"to_charger", "charging"}
         /\ status = "moving" =>
              \/ Routed(q, target, status).status = "moving"
              \/ Routed(q, target, status).status = (IF q.task THEN "working" ELSE "idle")
<1> DEFINE p == [q EXCEPT !.path = Route[q.node][target], !.status = status,
                          !.order = OwnOrder, !.update = 0]
<1>1. Route[q.node][target] \in Seq(Nodes) /\ OwnOrder \in OrderIds
  BY DEF Sound, Robot, Constants, OrderIds
<1>2. Sound(p) /\ p.status = status /\ SameTask(p, q) /\ p.resume = q.resume
      /\ p.fault = q.fault
  BY <1>1 DEF Sound, Robot, Statuses, Driving, SameTask
<1>3. Routed(q, target, status) = ArrivedIfThere(p)
  BY DEF Routed
<1> HIDE DEF p
<1>4. DrivenTo(p, Routed(q, target, status))
  BY <1>2, <1>3, Arrives
<1> QED BY <1>2, <1>4 DEF DrivenTo, SameTask

LEMMA Advances ==
  ASSUME NEW q, Sound(q), q.status \in Driving, NEW k \in 0 .. Len(q.path)
  PROVE  DrivenTo(q, Advanced(q, k))
<1> DEFINE node == IF k = 0 THEN q.node ELSE q.path[k]
           path == SubSeq(q.path, k + 1, Len(q.path))
           p == [q EXCEPT !.node = node, !.path = path]
<1>1. q.path \in Seq(Nodes) /\ Len(q.path) \in Nat /\ k \in Int /\ q.node \in Nodes
  BY DEF Sound, Robot
<1>2. \A i \in k + 1 .. Len(q.path) : q.path[i] \in Nodes
  BY <1>1
<1>3. path \in Seq(Nodes)
  BY <1>1, <1>2, SubSeqProperties
<1>4. node \in Nodes
  BY <1>1
<1>5. Advanced(q, k) = ArrivedIfThere(p)
  BY DEF Advanced, Sound, Robot
<1> HIDE DEF node, path
<1>6. Sound(p) /\ p.status = q.status /\ SameTask(p, q) /\ p.resume = q.resume
      /\ p.fault = q.fault /\ p.order = q.order /\ p.update = q.update
  BY <1>3, <1>4 DEF Sound, Robot, SameTask
<1> HIDE DEF p
<1>7. DrivenTo(p, Advanced(q, k))
  BY <1>5, <1>6, Arrives
<1> QED BY <1>6, <1>7 DEF DrivenTo, SameTask

LEMMA Draining ==
  ASSUME NEW p, Sound(p), NEW q \in Drains(p)
  PROVE  Sound(q) /\ SameTask(q, p) /\ q.status = p.status /\ q.resume = p.resume
         /\ q.fault = p.fault /\ q.path = p.path /\ q.node = p.node
  BY DEF Drains, Sound, Robot, SameTask, Bands

\* The same place of the same order.
SameRoute(q, p) == q.path = p.path /\ q.order = p.order /\ q.update = p.update

LEMMA RouteOfPieces ==
  ASSUME Constants, NEW q, Sound(q)
  PROVE  /\ SameRoute(Dropped(q), q) /\ SameRoute(StageFailed(q), q)
         /\ SameRoute(ArrivedIfThere(q), q)
         /\ \A d \in Drains(q) : SameRoute(d, q)
<1>1. SameRoute(Dropped(q), q)
  BY DEF Dropped, Sound, Robot, SameRoute
<1>2. SameRoute(StageFailed(q), q)
  BY DEF StageFailed, Staged, Sound, Robot, SameRoute
<1>3. SameRoute(ArrivedIfThere(q), q)
  BY DEF ArrivedIfThere, Arrived, Sound, Robot, SameRoute
<1>4. \A d \in Drains(q) : SameRoute(d, q)
  BY DEF Drains, Sound, Robot, SameRoute
<1> QED BY <1>1, <1>2, <1>3, <1>4

LEMMA OwnRoute ==
  ASSUME Constants, NEW q, Sound(q), NEW target \in Nodes, NEW status \in Driving
  PROVE  Routed(q, target, status).order = OwnOrder
<1> DEFINE p == [q EXCEPT !.path = Route[q.node][target], !.status = status,
                          !.order = OwnOrder, !.update = 0]
<1>1. Route[q.node][target] \in Seq(Nodes) /\ OwnOrder \in OrderIds
  BY DEF Sound, Robot, Constants, OrderIds
<1>2. Sound(p) /\ p.order = OwnOrder
  BY <1>1 DEF Sound, Robot, Statuses, Driving
<1>3. Routed(q, target, status) = ArrivedIfThere(p)
  BY DEF Routed
<1> HIDE DEF p
<1> QED BY <1>2, <1>3, RouteOfPieces DEF SameRoute

LEMMA AlongRoute ==
  ASSUME NEW q, Sound(q), NEW k \in 0 .. Len(q.path)
  PROVE  /\ Advanced(q, k).order = q.order /\ Advanced(q, k).update = q.update
         /\ Advanced(q, k).path = SubSeq(q.path, k + 1, Len(q.path))
  BY DEF Advanced, ArrivedIfThere, Arrived, Sound, Robot

----------------------------------------------------------------------------
(* What each branch leaves: Left(q) before the state message.              *)

\* q does what p did, less what it has given up, or it has just minted an action.
Tasking(p, q) ==
  \/ q.minted = p.minted /\ (q.task => p.task /\ q.action = p.action)
  \/ q.minted = p.minted + 1 /\ q.action = Minted(q.minted)

\* Busy robots stay so and give nothing up without a verdict.
Tidy(p, q) == Busy(p) => Busy(q) /\ Ends(p, q)

Left(q) == Sound(q) /\ Staging(r, q) /\ Tasking(r, q) /\ Tidy(r, q)

\* A branch that leaves task and reports alone.
LEMMA LeavesTask ==
  ASSUME NEW q, Sound(q), SameTask(q, r),
         Busy(r) => Busy(q)
  PROVE  Left(q)
<1>1. Staging(r, q) /\ Tasking(r, q) /\ Ends(r, q)
  BY DEF SameTask, Staging, Tasking, Ends
<1> QED BY <1>1 DEF Left, Tidy

\* A branch that gives the task up as FAILED.
LEMMA LeavesNoTask ==
  ASSUME Constants, Sound(r), NEW q, Sound(q), ~q.task, q.minted = r.minted,
         q.verdict = StageFailed(r).verdict, q.left = StageFailed(r).left,
         q.status # "fault"
  PROVE  Left(q)
<1>1. Staging(r, q) /\ Ends(r, q)
  BY GivesUp
<1>2. Tasking(r, q)
  BY DEF Tasking
<1>3. Busy(r) => Busy(q)
  BY DEF Busy
<1> QED BY <1>1, <1>2, <1>3 DEF Left, Tidy

\* A robot that drives leaves its task alone.
LEMMA LeavesDriving ==
  ASSUME NEW q, NEW p, DrivenTo(q, p), q.status \in Driving, SameTask(q, r),
         q.status = "to_charger" => ~(Busy(r) /\ q.task)
  PROVE  Left(p)
<1>1. Sound(p) /\ SameTask(p, r)
  BY DEF DrivenTo, SameTask
<1>2. Busy(r) => Busy(p)
  BY <1>1 DEF DrivenTo, SameTask, Busy, Driving
<1> QED BY <1>1, <1>2, LeavesTask

LEMMA FaultLeaves ==
  ASSUME Constants, Sound(r), NEW kind \in FaultKinds, FaultStarts(kind)
  PROVE  \E q : Published(q) /\ Left(q)
<1> DEFINE q == [r EXCEPT !.fault = kind, !.ticks = FaultTicks - 1,
                          !.resume = ResumeAfterFault, !.status = "fault"]
<1>1. Published(q)
  BY DEF FaultStarts
<1>2. ResumeAfterFault \in Statuses \ {"fault"}
  BY DEF ResumeAfterFault, Driving, Statuses
<1>3. FaultTicks - 1 \in 0 .. FaultTicks
  BY DEF Constants
<1>4. /\ Sound(q) /\ SameTask(q, r) /\ q.status = "fault" /\ q.fault = kind
      /\ q.resume = ResumeAfterFault
  BY <1>2, <1>3 DEF Sound, Robot, Statuses, SameTask
<1>5. Busy(r) => Busy(q)
  <2>1. kind # "none" /\ FaultKinds # {}
    BY DEF Constants
  <2> HIDE DEF q
  <2> QED BY <1>4, <2>1 DEF Busy, SameTask, ResumeAfterFault, Driving, Held
<1> QED BY <1>1, <1>4, <1>5, LeavesTask

LEMMA TickFaultLeaves ==
  ASSUME Constants, Sound(r), TickFault
  PROVE  \E q : Published(q) /\ Left(q)
<1>1. CASE r.ticks <= 1
  <2> DEFINE q == [r EXCEPT !.ticks = 0, !.fault = CauseAfterClear, !.status = r.resume]
  <2>1. Published(q)
    BY <1>1 DEF TickFault
  <2>2. /\ Sound(q) /\ SameTask(q, r) /\ q.status = r.resume /\ q.resume = r.resume
        /\ q.status # "fault" /\ r.status = "fault"
    BY NumbersOK DEF Sound, Robot, SameTask, CauseAfterClear, TickFault
  <2>3. Busy(r) => Busy(q)
    <3> HIDE DEF q
    <3> QED BY <2>2 DEF Busy, SameTask, Held
  <2> QED BY <2>1, <2>2, <2>3, LeavesTask
<1>2. CASE ~(r.ticks <= 1)
  <2> DEFINE q == [r EXCEPT !.ticks = @ - 1]
  <2>1. Published(q)
    BY <1>2 DEF TickFault
  <2>2. /\ Sound(q) /\ SameTask(q, r) /\ q.status = r.status /\ q.fault = r.fault
        /\ q.resume = r.resume
    <3>1. r.ticks - 1 \in 0 .. FaultTicks
      BY <1>2, NumbersOK DEF Sound, Robot
    <3> QED BY <3>1 DEF Sound, Robot, SameTask
  <2>3. Busy(r) => Busy(q)
    <3> HIDE DEF q
    <3> QED BY <2>2 DEF Busy, SameTask
  <2> QED BY <2>1, <2>2, <2>3, LeavesTask
<1> QED BY <1>1, <1>2

\* Held, idle and working robots drain.
LEMMA DrainLeaves ==
  ASSUME Sound(r), TickHeld \/ TickIdle \/ TickWorking
  PROVE  \E q : Published(q) /\ Left(q) /\ q.status = r.status
<1>1. PICK q \in Drains(r) : Published(q)
  BY DEF TickHeld, TickIdle, TickWorking
<1>2. Sound(q) /\ SameTask(q, r) /\ (Busy(r) => Busy(q)) /\ q.status = r.status
  BY Draining DEF Busy, SameTask
<1> QED BY <1>1, <1>2, LeavesTask

LEMMA ChargingLeaves ==
  ASSUME Sound(r), TickCharging
  PROVE  \E q : Published(q) /\ Left(q)
<1>1. PICK band \in {r.battery, "mid", "full"} :
        Published(IF band = "full"
                  THEN [r EXCEPT !.battery = band, !.status = "idle", !.task = FALSE]
                  ELSE [r EXCEPT !.battery = band])
  BY DEF TickCharging
<1>2. Busy(r) => ~r.task
  BY DEF Busy, TickCharging, Held
<1>3. CASE band = "full"
  <2> DEFINE q == [r EXCEPT !.battery = band, !.status = "idle", !.task = FALSE]
  <2>1. Published(q)
    BY <1>1, <1>3
  <2>2. /\ Sound(q) /\ ~q.task /\ q.minted = r.minted /\ q.verdict = r.verdict
        /\ q.left = r.left /\ q.status = "idle" /\ q.fault = r.fault
    BY <1>3 DEF Sound, Robot, Statuses, Bands
  <2> HIDE DEF q
  <2>3. Staging(r, q) /\ Tasking(r, q) /\ Tidy(r, q)
    BY <1>2, <2>2 DEF Staging, Tasking, Tidy, Busy, Ends
  <2> QED BY <2>1, <2>2, <2>3 DEF Left
<1>4. CASE band # "full"
  <2> DEFINE q == [r EXCEPT !.battery = band]
  <2>1. Published(q)
    BY <1>1, <1>4
  <2>2. Sound(q) /\ SameTask(q, r) /\ (Busy(r) => Busy(q))
    BY DEF Sound, Robot, Bands, SameTask, Busy
  <2> QED BY <2>1, <2>2, LeavesTask
<1> QED BY <1>3, <1>4

\* A robot sent to the charger has given its task up.
LEMMA SentToCharger ==
  ASSUME Constants, NEW p, Sound(p), NEW q,
         q = Dropped(Routed(StageFailed(p), NearestCharger[p.node], "to_charger"))
  PROVE  /\ Sound(q) /\ ~q.task /\ q.minted = p.minted
         /\ q.verdict = StageFailed(p).verdict /\ q.left = StageFailed(p).left
         /\ q.status \in {"to_charger", "charging"} /\ q.fault = p.fault
<1>1. NearestCharger[p.node] \in Nodes
  BY DEF Sound, Robot, Constants
<1> DEFINE s == StageFailed(p)
           t == Routed(s, NearestCharger[p.node], "to_charger")
<1>2. Sound(s) /\ s.minted = p.minted /\ s.fault = p.fault
  BY StagesFailed
<1> HIDE DEF s
<1>3. Sound(t) /\ SameTask(t, s) /\ t.fault = s.fault
      /\ t.status \in {"to_charger", "charging"}
  BY <1>1, <1>2, Routes DEF Driving
<1>4. q = Dropped(t)
  BY DEF s
<1> HIDE DEF t
<1>5. /\ Sound(q) /\ ~q.task /\ q.minted = t.minted /\ q.status = t.status
      /\ q.verdict = t.verdict /\ q.left = t.left /\ q.fault = t.fault
  BY <1>3, <1>4, Drops DEF Sound
<1> QED BY <1>2, <1>3, <1>5 DEF SameTask, s

LEMMA DivertLeaves ==
  ASSUME Constants, Sound(r), TickDivert
  PROVE  \E q : Published(q) /\ Left(q)
<1> DEFINE d == Diverted
<1>1. /\ Sound(d) /\ ~d.task /\ d.minted = r.minted
      /\ d.verdict = StageFailed(r).verdict /\ d.left = StageFailed(r).left
      /\ d.status \in {"to_charger", "charging"} /\ d.fault = r.fault
  BY SentToCharger DEF Diverted
<1>2. CASE d.status = "to_charger"
  <2>1. PICK k \in 0 .. Len(d.path) : Published(Advanced(d, k))
    BY <1>2 DEF TickDivert
  <2>2. DrivenTo(d, Advanced(d, k))
    BY <1>1, <1>2, Advances DEF Driving
  <2> HIDE DEF d
  <2>3. Left(Advanced(d, k))
    BY <1>1, <1>2, <2>2, LeavesNoTask DEF DrivenTo, SameTask, Busy
  <2> QED BY <2>1, <2>3
<1>3. CASE d.status # "to_charger"
  <2>1. Published(d)
    BY <1>3 DEF TickDivert
  <2> HIDE DEF d
  <2>2. Left(d)
    BY <1>1, LeavesNoTask DEF Busy
  <2> QED BY <2>1, <2>2
<1> QED BY <1>2, <1>3

\* An idle robot that is not busy with anything mints an action.
LEMMA AssignLeaves ==
  ASSUME Constants, Sound(r), TickAssign
  PROVE  \E q : Published(q) /\ Left(q) /\ q.order = OwnOrder
<1>1. PICK target \in TaskNodes \ {r.node}, d \in Drains(r) : Published(Assigned(d, target))
  BY DEF TickAssign
<1>2. /\ Sound(d) /\ SameTask(d, r) /\ d.status = "idle" /\ d.fault = r.fault
      /\ r.status = "idle" /\ r.minted < MaxActions
  BY Draining DEF TickAssign
<1> DEFINE n == r.minted + 1
           m == [d EXCEPT !.task = TRUE, !.minted = NextMinted(d),
                          !.action = Minted(NextMinted(d))]
           q == Assigned(d, target)
<1>3. n \in 1 .. MaxActions /\ n \in 0 .. MaxActions /\ NextMinted(d) = n
  BY <1>2, NumbersOK DEF NextMinted, SameTask, Sound, Robot
<1>4. Minted(n) \in ActionIds /\ Minted(n) # NoAction
  BY <1>3 DEF ActionIds, Minted, NoAction
<1>5. /\ Sound(m) /\ m.task /\ m.minted = n /\ m.action = Minted(n)
      /\ m.verdict = r.verdict /\ m.left = r.left /\ m.fault = r.fault
  BY <1>2, <1>3, <1>4 DEF SameTask, Sound, Robot
<1>6. target \in Nodes /\ q = Routed(m, target, "moving")
  BY DEF Assigned, Constants
<1> HIDE DEF m, n
<1>7. /\ Sound(q) /\ SameTask(q, m) /\ q.fault = m.fault
      /\ q.status \in {"moving", "working"} /\ q.order = OwnOrder
  BY <1>5, <1>6, Routes, OwnRoute DEF Driving
<1>8. Published(q)
  BY <1>1
<1> HIDE DEF q
<1>9. Staging(r, q) /\ Tasking(r, q)
  BY <1>5, <1>7 DEF SameTask, Staging, Tasking, n
<1>10. Busy(r) => Ends(r, q)
  BY <1>2 DEF Busy, Ends, Held
<1>11. Tidy(r, q)
  BY <1>5, <1>7, <1>10 DEF Tidy, Busy
<1> QED BY <1>7, <1>8, <1>9, <1>11 DEF Left

LEMMA FinishLeaves ==
  ASSUME Constants, Sound(r), TickFinish
  PROVE  \E q : Published(q) /\ Left(q) /\ SameRoute(q, r)
<1>1. PICK d \in Drains(r) : Published(Finished(d))
  BY DEF TickFinish
<1>2. Sound(d) /\ SameTask(d, r) /\ d.fault = r.fault /\ r.status = "working"
      /\ SameRoute(d, r)
  BY Draining, RouteOfPieces DEF TickFinish
<1> DEFINE s == IF d.task THEN Staged(d, "FINISHED") ELSE d
           q == Finished(d)
<1>3. /\ Sound(s) /\ s.fault = d.fault /\ s.minted = d.minted
      /\ ~d.task => s.verdict = d.verdict /\ s.left = d.left
      /\ d.task => /\ s.verdict = [d.verdict EXCEPT ![d.action] = "FINISHED"]
                   /\ s.left = [d.left EXCEPT ![d.action] = Repeats]
                   /\ s.verdict[d.action] = "FINISHED"
  BY <1>2, Stages DEF Verdicts
<1>4. SameRoute(s, d)
  BY <1>2 DEF Staged, Sound, Robot, SameRoute
<1>5. q = [Dropped(s) EXCEPT !.status = "idle"]
  BY DEF Finished
<1> HIDE DEF s
<1>6. /\ Sound(q) /\ ~q.task /\ q.status = "idle" /\ q.fault = s.fault
      /\ q.minted = s.minted /\ q.verdict = s.verdict /\ q.left = s.left
      /\ SameRoute(q, s)
  <2> DEFINE d0 == Dropped(s)
  <2>1. /\ Sound(d0) /\ ~d0.task /\ d0.fault = s.fault /\ d0.minted = s.minted
        /\ d0.verdict = s.verdict /\ d0.left = s.left
        /\ SameRoute(d0, s)
    BY <1>3, Drops, RouteOfPieces DEF Sound
  <2> HIDE DEF d0
  <2>2. q = [d0 EXCEPT !.status = "idle"]
    BY <1>5 DEF d0
  <2> HIDE DEF q
  <2> QED BY <2>1, <2>2 DEF Sound, Robot, Statuses, SameRoute
<1>7. Published(q)
  BY <1>1
<1> HIDE DEF q
<1>8. Staging(r, q) /\ Ends(r, q)
  BY <1>2, <1>3, <1>6 DEF SameTask, Staging, Ends, Verdicts
<1>9. Tasking(r, q) /\ (Busy(r) => Busy(q))
  BY <1>2, <1>3, <1>6 DEF SameTask, Tasking, Busy
<1>10. SameRoute(q, r)
  BY <1>2, <1>4, <1>6 DEF SameRoute
<1> QED BY <1>6, <1>7, <1>8, <1>9, <1>10 DEF Left, Tidy

LEMMA DriveLeaves ==
  ASSUME Sound(r), TickDrive
  PROVE  \E q : Published(q) /\ Left(q)
<1>1. PICK d \in Drains(r), k \in 0 .. Len(r.path) : Published(Advanced(d, k))
  BY Draining DEF TickDrive
<1>2. /\ Sound(d) /\ SameTask(d, r) /\ d.status = r.status /\ d.fault = r.fault
      /\ d.path = r.path /\ d.status \in Driving
  BY Draining DEF TickDrive
<1>3. DrivenTo(d, Advanced(d, k))
  BY <1>2, Advances
<1>4. Left(Advanced(d, k))
  BY <1>2, <1>3, LeavesDriving DEF Busy, Held, SameTask
<1> QED BY <1>1, <1>4

LEMMA TickLeaves ==
  ASSUME Constants, Sound(r), Tick
  PROVE  \E q : Published(q) /\ Left(q)
<1>1. CASE TickHeld \/ TickIdle \/ TickWorking
  BY <1>1, DrainLeaves
<1> QED BY <1>1, TickFaultLeaves, ChargingLeaves, DivertLeaves, AssignLeaves,
           FinishLeaves, DriveLeaves DEF Tick

----------------------------------------------------------------------------
(* Operators, initPosition and orders change the robot between messages.   *)

LEMMA PauseLeaves == ASSUME Sound(r), Pause PROVE Left(r')
<1>1. r' = [r EXCEPT !.resume = r.status, !.status = "paused"]
      /\ r.status \notin {"fault"} \cup Held
  BY DEF Pause
<1>2. /\ Sound(r') /\ SameTask(r', r) /\ r'.status = "paused"
      /\ r'.resume = r.status /\ r'.fault = r.fault
  BY <1>1 DEF Sound, Robot, Statuses, Held, SameTask
<1>3. Busy(r) => Busy(r')
  BY <1>1, <1>2 DEF Busy, SameTask, Held
<1> QED BY <1>2, <1>3, LeavesTask

LEMMA EstopLeaves == ASSUME Sound(r), Estop PROVE Left(r')
<1>1. r' = [r EXCEPT !.resume = IF r.status = "fault" THEN "idle" ELSE r.status,
                     !.status = "estopped"]
  BY DEF Estop
<1>2. /\ Sound(r') /\ SameTask(r', r) /\ r'.status = "estopped" /\ r'.fault = r.fault
      /\ r'.resume = IF r.status = "fault" THEN "idle" ELSE r.status
  BY <1>1 DEF Sound, Robot, Statuses, Held, SameTask
<1>3. Busy(r) => Busy(r')
  <2>1. Busy(r) /\ r.status = "fault" => FaultKinds # {}
    BY DEF Busy, Sound, Robot
  <2> QED BY <1>2, <2>1 DEF Busy, SameTask, Held
<1> QED BY <1>2, <1>3, LeavesTask

LEMMA ResumeLeaves == ASSUME Constants, Sound(r), Resume PROVE Left(r')
<1> DEFINE p == [r EXCEPT !.status = r.resume]
<1>1. r' = Resumed(p) /\ r.status \in Held
  BY DEF Resume
<1>2. /\ Sound(p) /\ SameTask(p, r) /\ p.status = r.resume /\ p.fault = r.fault
      /\ p.resume = r.resume /\ p.status # "fault"
  BY DEF Sound, Robot, SameTask
<1> HIDE DEF p
<1>3. CASE p.status \in {"moving", "working"}
  <2> DEFINE s == [StageFailed(p) EXCEPT !.status = "idle", !.path = <<>>]
  <2>1. r' = Dropped(s)
    BY <1>1, <1>3 DEF Resumed
  <2>2. StageFailed(p).verdict = StageFailed(r).verdict
        /\ StageFailed(p).left = StageFailed(r).left
    BY <1>2, StagesSame
  <2>3. /\ Sound(s) /\ s.status = "idle" /\ s.fault = r.fault /\ s.minted = r.minted
        /\ s.verdict = StageFailed(r).verdict /\ s.left = StageFailed(r).left
    <3> DEFINE u == StageFailed(p)
    <3>1. Sound(u) /\ u.fault = r.fault /\ u.minted = r.minted
      BY <1>2, StagesFailed DEF SameTask
    <3> HIDE DEF u
    <3>2. s = [u EXCEPT !.status = "idle", !.path = <<>>]
      BY DEF u
    <3> HIDE DEF s
    <3>3. /\ Sound(s) /\ s.status = "idle" /\ s.fault = u.fault /\ s.minted = u.minted
          /\ s.verdict = u.verdict /\ s.left = u.left
      BY <3>1, <3>2, EmptyPath DEF Sound, Robot, Statuses
    <3> QED BY <2>2, <3>1, <3>3 DEF u
  <2> HIDE DEF s
  <2>4. /\ Sound(r') /\ ~r'.task /\ r'.status = "idle" /\ r'.fault = r.fault
        /\ r'.minted = r.minted
        /\ r'.verdict = StageFailed(r).verdict /\ r'.left = StageFailed(r).left
    BY <2>1, <2>3, Drops DEF Sound
  <2> QED BY <2>4, LeavesNoTask DEF Busy
<1>4. CASE p.status \notin {"moving", "working"}
  <2>1. r' = p
    BY <1>1, <1>4 DEF Resumed
  <2>2. Busy(r) => Busy(p)
    BY <1>1, <1>2, <1>4 DEF Busy, SameTask, Held
  <2> QED BY <1>2, <2>1, <2>2, LeavesTask
<1> QED BY <1>3, <1>4

LEMMA CancelLeaves == ASSUME Constants, Sound(r), CancelOrder PROVE Left(r')
<1> DEFINE s == StageFailed(r)
           d == Dropped(s)
<1>1. /\ Sound(s) /\ s.fault = r.fault /\ s.minted = r.minted /\ s.status = r.status
  BY StagesFailed
<1>2. /\ Sound(d) /\ ~d.task /\ d.fault = s.fault /\ d.minted = s.minted
      /\ d.verdict = s.verdict /\ d.left = s.left /\ d.status = s.status
  BY <1>1, Drops DEF Sound
<1>3. r' = [d EXCEPT !.path = <<>>,
                     !.status = IF @ \in {"moving", "working", "to_charger"}
                                THEN "idle" ELSE @]
  BY DEF CancelOrder
<1> HIDE DEF d
<1>4. /\ Sound(r') /\ ~r'.task /\ r'.fault = r.fault /\ r'.minted = r.minted
      /\ r'.verdict = StageFailed(r).verdict /\ r'.left = StageFailed(r).left
      /\ r'.status # "fault"
  <2>1. r.status # "fault"
    BY DEF CancelOrder
  <2> DEFINE status == IF d.status \in {"moving", "working", "to_charger"}
                       THEN "idle" ELSE d.status
  <2>2. status \in Statuses /\ status \in {d.status, "idle"}
    BY <1>2 DEF Sound, Robot, Statuses
  <2>3. r' = [d EXCEPT !.path = <<>>, !.status = status]
    BY <1>2, <1>3 DEF Sound, Robot
  <2> HIDE DEF status
  <2>4. /\ Sound(r') /\ ~r'.task /\ r'.fault = d.fault /\ r'.minted = d.minted
        /\ r'.verdict = d.verdict /\ r'.left = d.left
        /\ r'.status \in {d.status, "idle"}
    BY <1>2, <2>2, <2>3, EmptyPath DEF Sound, Robot
  <2> QED BY <1>1, <1>2, <2>1, <2>4
<1> QED BY <1>4, LeavesNoTask DEF Busy

LEMMA ChargeLeaves == ASSUME Constants, Sound(r), Charge PROVE Left(r')
<1> DEFINE p == IF r.status \in Held THEN [r EXCEPT !.status = r.resume] ELSE r
<1>1. Sound(p) /\ SameTask(p, r) /\ p.fault = r.fault /\ p.node = r.node
  BY DEF Sound, Robot, SameTask
<1>2. r' = Dropped(Routed(StageFailed(p), NearestCharger[p.node], "to_charger"))
  BY <1>1 DEF Charge
<1> HIDE DEF p
<1>3. StageFailed(p).verdict = StageFailed(r).verdict
      /\ StageFailed(p).left = StageFailed(r).left
  BY <1>1, StagesSame
<1>4. /\ Sound(r') /\ ~r'.task /\ r'.minted = r.minted
      /\ r'.verdict = StageFailed(r).verdict /\ r'.left = StageFailed(r).left
      /\ r'.status \in {"to_charger", "charging"} /\ r'.fault = r.fault
  BY <1>1, <1>2, <1>3, SentToCharger DEF SameTask
<1> QED BY <1>4, LeavesNoTask DEF Busy

LEMMA RepositionLeaves ==
  ASSUME Constants, Sound(r), NEW n \in Nodes, Reposition(n)
  PROVE  Left(r')
<1> DEFINE p == [r EXCEPT !.node = n, !.path = <<>>]
<1>1. Sound(p) /\ SameTask(p, r) /\ p.status = r.status /\ p.fault = r.fault
      /\ p.resume = r.resume
  BY EmptyPath DEF Sound, Robot, SameTask
<1>2. CASE r.fault = "localization"
  <2>1. r' = [p EXCEPT !.fault = "none", !.ticks = 0, !.status = r.resume]
    BY <1>2 DEF Reposition
  <2>2. /\ Sound(r') /\ SameTask(r', r) /\ r'.status = r.resume
        /\ r'.resume = r.resume /\ r'.status # "fault"
    <3> HIDE DEF p
    <3> QED BY <1>1, <2>1, NumbersOK DEF Sound, Robot, SameTask
  <2>3. Busy(r) => Busy(r')
    <3>1. r.status \in {"idle", "fault"}
      BY DEF Reposition
    <3> QED BY <2>2, <3>1 DEF Busy, SameTask, Held
  <2> QED BY <2>2, <2>3, LeavesTask
<1>3. CASE r.fault # "localization"
  <2>1. r' = p
    BY <1>3 DEF Reposition
  <2> HIDE DEF p
  <2>2. Busy(r) => Busy(p)
    BY <1>1 DEF Busy, SameTask
  <2> QED BY <1>1, <2>1, <2>2, LeavesTask
<1> QED BY <1>2, <1>3

LEMMA CommandLeaves == ASSUME Constants, Sound(r), Command PROVE Left(r')
  BY PauseLeaves, EstopLeaves, ResumeLeaves, CancelLeaves, ChargeLeaves DEF Command

LEMMA RejectLeaves ==
  ASSUME Constants, Sound(r), NEW o, RejectOrder(o)
  PROVE  Left(r') /\ r'.status = r.status
<1>1. r' = [r EXCEPT !.errors = Repeats] /\ Repeats \in 0 .. Repeats
  BY NumbersOK DEF RejectOrder
<1>2. Sound(r') /\ SameTask(r', r) /\ (Busy(r) => Busy(r')) /\ r'.status = r.status
  BY <1>1 DEF Sound, Robot, SameTask, Busy
<1> QED BY <1>2, LeavesTask

\* An order takes up the action master control named, a minted one, or none.
LEMMA AdoptLeaves ==
  ASSUME Constants, Sound(r), NEW i \in 1 .. Len(Orders), AdoptOrder(Orders[i])
  PROVE  /\ Sound(r') /\ Staging(r, r') /\ Tidy(r, r')
         /\ r'.order = Orders[i].id /\ r'.update = Orders[i].update
         /\ \/ Tasking(r, r')
            \/ /\ Orders[i].action \in 1 .. Len(Orders) /\ r'.minted = r.minted
               /\ r'.task /\ r'.action = MasterAction(Orders[i].action)
<1> DEFINE o == Orders[i]
           doing == o.action # Actionless
           m == IF o.action = Unnamed THEN [r EXCEPT !.minted = @ + 1] ELSE r
           a == ActionOf(m, o)
           q == IF m.action # a THEN StageFailed(m) ELSE m
           p == [q EXCEPT !.path = Remaining(o), !.order = o.id, !.update = o.update,
                          !.task = doing, !.action = a, !.status = "moving"]
<1>1. o \in Order /\ o.id \in OrderIds /\ o.update \in Nat /\ o.nodes \in Seq(Nodes)
      /\ o.action \in {Unnamed, Actionless} \cup 1 .. Len(Orders)
  <2>1. o \in Order
    BY DEF Constants
  <2>2. o.id \in OrderIds
    BY DEF OrderIds
  <2> HIDE DEF o
  <2> QED BY <2>1, <2>2 DEF Order
<1>2. Remaining(o) \in Seq(Nodes)
  BY <1>1, HeadTailProperties DEF Remaining
<1>3. r' = ArrivedIfThere(p) /\ (o.action = Unnamed => r.minted < MaxActions)
      /\ r.status # "fault"
  BY DEF AdoptOrder, RefusesOrders
<1> HIDE DEF o
<1>4. /\ Sound(m) /\ m.task = r.task /\ m.action = r.action /\ m.verdict = r.verdict
      /\ m.left = r.left /\ m.fault = r.fault
      /\ m.minted = IF o.action = Unnamed THEN r.minted + 1 ELSE r.minted
  <2>1. CASE o.action = Unnamed
    <3>1. r.minted + 1 \in 0 .. MaxActions
      BY <1>3, <2>1, NumbersOK DEF Sound, Robot
    <3> QED BY <2>1, <3>1 DEF Sound, Robot
  <2>2. CASE o.action # Unnamed
    BY <2>2
  <2> QED BY <2>1, <2>2
<1>5. /\ a \in ActionIds \cup {NoAction}
      /\ o.action # Actionless => a # NoAction
      /\ o.action = Unnamed => a = Minted(m.minted)
      /\ o.action = Actionless => a = NoAction
      /\ o.action \in 1 .. Len(Orders) => a = MasterAction(o.action)
  <2>1. CASE o.action = Actionless
    BY <2>1 DEF ActionOf, Actionless, Unnamed
  <2>2. CASE o.action = Unnamed
    <3>1. m.minted \in 1 .. MaxActions
      <4> HIDE DEF a, m
      <4> QED BY <1>3, <1>4, <2>2, NumbersOK DEF Sound, Robot
    <3>2. a = Minted(m.minted)
      BY <2>2 DEF ActionOf, Actionless, Unnamed
    <3> HIDE DEF a, m
    <3> QED BY <2>2, <3>1, <3>2 DEF ActionIds, Minted, NoAction, Actionless, Unnamed
  <2>3. CASE o.action \in 1 .. Len(Orders)
    <3>1. a = MasterAction(o.action) /\ o.action # Actionless /\ o.action # Unnamed
      BY <2>3 DEF ActionOf, Actionless, Unnamed
    <3> HIDE DEF a, m
    <3> QED BY <2>3, <3>1 DEF ActionIds, MasterAction, NoAction
  <2> QED BY <1>1, <2>1, <2>2, <2>3
<1> HIDE DEF a
<1>6. /\ Sound(q) /\ q.task = r.task /\ q.action = r.action /\ q.minted = m.minted
      /\ q.fault = r.fault
      /\ r.action # a => /\ q.verdict = StageFailed(r).verdict
                         /\ q.left = StageFailed(r).left
      /\ r.action = a => q.verdict = r.verdict /\ q.left = r.left
  <2> HIDE DEF m
  <2>1. CASE r.action = a
    BY <1>4, <2>1
  <2>2. CASE r.action # a
    <3>1. q = StageFailed(m)
      BY <1>4, <2>2
    <3>2. /\ StageFailed(m).verdict = StageFailed(r).verdict
          /\ StageFailed(m).left = StageFailed(r).left
      <4>1. CASE r.task
        <5>1. /\ StageFailed(m).verdict = [m.verdict EXCEPT ![m.action] = "FAILED"]
              /\ StageFailed(m).left = [m.left EXCEPT ![m.action] = Repeats]
          BY <1>4, <4>1, StagesFailed
        <5>2. /\ StageFailed(r).verdict = [r.verdict EXCEPT ![r.action] = "FAILED"]
              /\ StageFailed(r).left = [r.left EXCEPT ![r.action] = Repeats]
          BY <4>1, StagesFailed
        <5> QED BY <1>4, <5>1, <5>2
      <4>2. CASE ~r.task
        <5>1. StageFailed(m) = m /\ StageFailed(r) = r
          BY <1>4, <4>2, StagesFailed
        <5> QED BY <1>4, <5>1
      <4> QED BY <4>1, <4>2
    <3>3. /\ Sound(StageFailed(m)) /\ StageFailed(m).task = m.task
          /\ StageFailed(m).action = m.action /\ StageFailed(m).minted = m.minted
          /\ StageFailed(m).fault = m.fault
      BY <1>4, StagesFailed
    <3> QED BY <1>4, <2>2, <3>1, <3>2, <3>3
  <2> QED BY <2>1, <2>2
<1> HIDE DEF q
<1>7. p = [q EXCEPT !.path = Remaining(o), !.order = o.id, !.update = o.update,
                    !.task = IF o.action = Actionless THEN FALSE ELSE TRUE,
                    !.action = a, !.status = "moving"]
  <2>1. CASE o.action = Actionless
    BY <2>1 DEF doing
  <2>2. CASE o.action # Actionless
    BY <2>2 DEF doing
  <2> QED BY <2>1, <2>2
<1> HIDE DEF doing, p
<1>8. /\ Sound(p) /\ p.status = "moving" /\ (p.task <=> (o.action # Actionless))
      /\ p.action = a /\ p.minted = q.minted /\ p.verdict = q.verdict
      /\ p.left = q.left /\ p.fault = q.fault
      /\ p.order = o.id /\ p.update = o.update
  <2> DEFINE path == Remaining(o)
             order == o.id
             update == o.update
  <2>1. path \in Seq(Nodes) /\ order \in OrderIds /\ update \in Nat
    BY <1>1, <1>2
  <2>2. CASE o.action = Actionless
    <3>1. p = [q EXCEPT !.path = path, !.order = order, !.update = update,
                        !.task = FALSE, !.action = a, !.status = "moving"]
      BY <1>7, <2>2
    <3> HIDE DEF path, order, update
    <3>2. /\ Sound(p) /\ p.status = "moving" /\ (p.task <=> (o.action # Actionless))
          /\ p.action = a /\ p.minted = q.minted /\ p.verdict = q.verdict
          /\ p.left = q.left /\ p.fault = q.fault
          /\ p.order = order /\ p.update = update
      BY <1>5, <1>6, <2>1, <2>2, <3>1 DEF Sound, Robot, Statuses, Driving
    <3> QED BY <3>2 DEF order, update
  <2>3. CASE o.action # Actionless
    <3>1. p = [q EXCEPT !.path = path, !.order = order, !.update = update,
                        !.task = TRUE, !.action = a, !.status = "moving"]
      BY <1>7, <2>3
    <3> HIDE DEF path, order, update
    <3>2. /\ Sound(p) /\ p.status = "moving" /\ (p.task <=> (o.action # Actionless))
          /\ p.action = a /\ p.minted = q.minted /\ p.verdict = q.verdict
          /\ p.left = q.left /\ p.fault = q.fault
          /\ p.order = order /\ p.update = update
      BY <1>5, <1>6, <2>1, <2>3, <3>1 DEF Sound, Robot, Statuses, Driving
    <3> QED BY <3>2 DEF order, update
  <2> QED BY <2>2, <2>3
<1> HIDE DEF m
<1>9. DrivenTo(p, r')
  BY <1>3, <1>8, Arrives DEF Driving
<1>10. /\ Sound(r') /\ (r'.task <=> (o.action # Actionless)) /\ r'.action = a
       /\ r'.minted = m.minted /\ r'.verdict = q.verdict /\ r'.left = q.left
       /\ r'.fault = r.fault /\ r'.status \in {"moving", "working", "idle"}
       /\ r'.task => r'.status \in {"moving", "working"}
       /\ r'.order = o.id /\ r'.update = o.update
  BY <1>6, <1>8, <1>9 DEF DrivenTo, SameTask
<1>11. Staging(r, r') /\ Ends(r, r')
  <2>1. CASE r.action # a
    BY <1>6, <1>10, <2>1, GivesUp
  <2>2. CASE r.action = a
    <3>1. r.task => r'.task
      BY <1>5, <1>10, <2>2 DEF Sound
    <3> QED BY <1>6, <1>10, <2>2, <3>1 DEF Staging, Ends
  <2> QED BY <2>1, <2>2
<1>12. Busy(r) => Busy(r')
  BY <1>10 DEF Busy
<1>13. \/ Tasking(r, r')
       \/ /\ o.action \in 1 .. Len(Orders) /\ r'.minted = r.minted
          /\ r'.task /\ r'.action = MasterAction(o.action)
  <2>1. CASE o.action = Actionless
    <3>1. ~r'.task /\ o.action # Unnamed
      BY <1>10, <2>1 DEF Actionless, Unnamed
    <3> QED BY <1>4, <1>10, <3>1 DEF Tasking
  <2>2. CASE o.action = Unnamed
    BY <1>4, <1>5, <1>10, <2>2 DEF Tasking
  <2>3. CASE o.action \in 1 .. Len(Orders)
    <3>1. r'.task /\ o.action # Unnamed
      BY <1>10, <2>3 DEF Actionless, Unnamed
    <3> QED BY <1>4, <1>5, <1>10, <2>3, <3>1
  <2> QED BY <1>1, <2>1, <2>2, <2>3
<1> QED BY <1>10, <1>11, <1>12, <1>13 DEF Tidy, o

----------------------------------------------------------------------------
(* Every step: a branch leaves q, and perhaps a state message follows.     *)

Seen(q) == Published(q) \/ (r' = q /\ reported' = reported)

\* q has taken up nothing, a minted action, or that of an order just arrived.
Naming(p, q, n, m) ==
  \/ Tasking(p, q)
  \/ /\ q.minted = p.minted /\ q.task
     /\ \E i \in n + 1 .. m : /\ Orders[i].action \in 1 .. Len(Orders)
                               /\ q.action = MasterAction(Orders[i].action)

\* Master control names an action in one order, which arrives once.
OnceNamed ==
  \A i, j \in 1 .. Len(Orders) :
    Orders[i].action \in 1 .. Len(Orders) =>
      ~Redelivery /\ (Orders[j].action = Orders[i].action => i = j)

LEMMA LeftSteps ==
  ASSUME NEW q, Seen(q), Left(q), issued \in 0 .. Len(Orders), issued' = issued
  PROVE  /\ Seen(q) /\ Sound(q) /\ Staging(r, q) /\ Tidy(r, q)
         /\ issued' \in issued .. Len(Orders)
         /\ Naming(r, q, issued, issued')
  BY DEF Left, Naming

LEMMA OrderSteps ==
  ASSUME Constants, SoundInv, ReceiveOrder
  PROVE  /\ Seen(r') /\ Sound(r') /\ Staging(r, r') /\ Tidy(r, r')
         /\ issued' \in issued .. Len(Orders)
         /\ OnceNamed => Naming(r, r', issued, issued')
<1>1. PICK i \in 1 .. Len(Orders) :
        /\ AdoptOrder(Orders[i]) \/ RejectOrder(Orders[i])
        /\ issued' \in issued .. Len(Orders)
        /\ (issued' = i /\ i > issued) \/ Redelivery
  <2>1. Len(Orders) \in Nat /\ issued \in 0 .. Len(Orders)
    BY DEF Constants, SoundInv
  <2> QED BY <2>1 DEF ReceiveOrder
<1>2. Seen(r')
  BY <1>1 DEF Seen, AdoptOrder, RejectOrder
<1>3. CASE RejectOrder(Orders[i])
  BY <1>1, <1>2, <1>3, RejectLeaves DEF SoundInv, Left, Naming
<1>4. CASE AdoptOrder(Orders[i])
  <2>1. /\ Sound(r') /\ Staging(r, r') /\ Tidy(r, r')
        /\ \/ Tasking(r, r')
           \/ /\ Orders[i].action \in 1 .. Len(Orders) /\ r'.minted = r.minted
              /\ r'.task /\ r'.action = MasterAction(Orders[i].action)
    BY <1>4, AdoptLeaves DEF SoundInv
  <2>2. ASSUME OnceNamed, Orders[i].action \in 1 .. Len(Orders)
        PROVE  i \in issued + 1 .. issued'
    <3>1. ~Redelivery
      BY <2>2 DEF OnceNamed
    <3>2. issued' = i /\ i > issued /\ issued \in Int /\ i \in Int
      BY <1>1, <3>1 DEF SoundInv
    <3> QED BY <3>2
  <2>3. OnceNamed => Naming(r, r', issued, issued')
    BY <2>1, <2>2 DEF Naming
  <2> QED BY <1>1, <1>2, <2>1, <2>3
<1> QED BY <1>1, <1>3, <1>4

LEMMA Steps ==
  ASSUME Constants, SoundInv, Next
  PROVE  \E q : /\ Seen(q) /\ Sound(q) /\ Staging(r, q)
                /\ Tidy(r, q)
                /\ issued' \in issued .. Len(Orders)
                /\ OnceNamed => Naming(r, q, issued, issued')
<1>1. Sound(r) /\ issued \in 0 .. Len(Orders) /\ Len(Orders) \in Nat
      /\ issued \in issued .. Len(Orders)
  BY DEF SoundInv, Constants
<1>2. CASE Tick
  <2>1. PICK q : Published(q) /\ Left(q)
    BY <1>1, <1>2, TickLeaves
  <2> QED BY <1>1, <2>1, LeftSteps DEF Seen, Published
<1>3. CASE StateRequest
  <2>1. Left(r)
    BY <1>1, LeavesTask DEF SameTask
  <2> QED BY <1>1, <1>3, <2>1, LeftSteps DEF Seen, Published, StateRequest
<1>5. CASE \E kind \in FaultKinds : FaultStarts(kind)
  <2>1. PICK q : Published(q) /\ Left(q)
    BY <1>1, <1>5, FaultLeaves
  <2> QED BY <1>1, <2>1, LeftSteps DEF Seen, Published
<1>6. CASE Command \/ \E n \in Nodes : Reposition(n)
  <2>1. Left(r')
    BY <1>1, <1>6, CommandLeaves, RepositionLeaves
  <2>2. Seen(r') /\ issued' = issued
    BY <1>6 DEF Seen, Command, Pause, Estop, Resume, CancelOrder, Charge, Reposition, Quietly
  <2> QED BY <1>1, <2>1, <2>2, LeftSteps
<1>7. CASE ReceiveOrder
  BY <1>7, OrderSteps
<1> QED BY <1>2, <1>3, <1>5, <1>6, <1>7 DEF Next

----------------------------------------------------------------------------
(* Types.                                                                  *)

LEMMA ReportIsTyped ==
  ASSUME SoundInv, NEW q, Sound(q)
  PROVE  Report(q) \in [ActionIds -> {"none", "RUNNING"} \cup Verdicts]
  BY DEF SoundInv, Sound, Robot, Report, Verdicts

LEMMA PublishedIsSound ==
  ASSUME Constants, NEW q, Sound(q), Published(q)
  PROVE  /\ Sound(r') /\ r'.status = q.status /\ r'.task = q.task
         /\ r'.action = q.action /\ r'.minted = q.minted /\ r'.verdict = q.verdict
         /\ r'.resume = q.resume /\ r'.fault = q.fault
         /\ r'.left = [a \in ActionIds |-> Less(q.left[a])]
<1> DEFINE left == [a \in ActionIds |-> Less(q.left[a])]
           errors == Less(q.errors)
<1>1. r' = [q EXCEPT !.left = left, !.errors = errors]
  BY DEF Published, Sound, Robot
<1>2. left \in [ActionIds -> 0 .. Repeats] /\ errors \in 0 .. Repeats
  <2>1. \A n \in 0 .. Repeats : Less(n) \in 0 .. Repeats
    BY NumbersOK DEF Less
  <2>2. q.errors \in 0 .. Repeats /\ \A a \in ActionIds : q.left[a] \in 0 .. Repeats
    BY DEF Sound, Robot
  <2> QED BY <2>1, <2>2
<1> HIDE DEF left, errors
<1>3. /\ Sound(r') /\ r'.status = q.status /\ r'.task = q.task
      /\ r'.action = q.action /\ r'.minted = q.minted /\ r'.verdict = q.verdict
      /\ r'.resume = q.resume /\ r'.fault = q.fault /\ r'.left = left
  BY <1>1, <1>2 DEF Sound, Robot
<1> QED BY <1>3 DEF left

LEMMA SoundKeeps == ASSUME Constants, SoundInv, [Next]_vars PROVE SoundInv'
<1>1. CASE UNCHANGED vars
  BY <1>1 DEF vars, SoundInv, Sound
<1>2. CASE Next
  <2>1. PICK q : Seen(q) /\ Sound(q) /\ issued' \in issued .. Len(Orders)
    BY <1>2, Steps
  <2>2. issued' \in 0 .. Len(Orders)
    BY <2>1 DEF SoundInv
  <2>3. CASE Published(q)
    <3>1. Sound(r')
      BY <2>1, <2>3, PublishedIsSound
    <3>2. reported' = Report(q)
      BY <2>3 DEF Published
    <3> QED BY <2>1, <2>2, <3>1, <3>2, ReportIsTyped DEF SoundInv
  <2>4. CASE r' = q /\ reported' = reported
    BY <2>1, <2>2, <2>4 DEF SoundInv
  <2> QED BY <2>1, <2>3, <2>4 DEF Seen
<1> QED BY <1>1, <1>2

\* A robot is created sound.
LEMMA FreshIsSound == ASSUME Constants, NEW n \in TaskNodes PROVE Sound(Fresh(n))
<1> DEFINE none == [a \in ActionIds |-> "none"]
           zero == [a \in ActionIds |-> 0]
<1>1. /\ n \in Nodes /\ OwnOrder \in OrderIds /\ 0 \in 0 .. Repeats
      /\ 0 \in 0 .. MaxActions /\ 0 \in 0 .. FaultTicks
  BY DEF Constants, OrderIds
<1>2. none \in [ActionIds -> {"none"} \cup Verdicts] /\ zero \in [ActionIds -> 0 .. Repeats]
  BY <1>1
<1>3. Fresh(n) = [status |-> "idle", resume |-> "idle", node |-> n, path |-> <<>>,
       battery |-> "mid", task |-> FALSE, action |-> NoAction, minted |-> 0,
       fault |-> "none", ticks |-> 0, order |-> OwnOrder, update |-> 0,
       verdict |-> none, left |-> zero, errors |-> 0]
  BY DEF Fresh
<1> HIDE DEF none, zero
<1> QED BY <1>1, <1>2, <1>3, EmptyPath DEF Sound, Robot, Statuses, Bands

LEMMA InitSound == ASSUME Constants, Init PROVE SoundInv
<1>1. PICK n \in TaskNodes : r = Fresh(n)
  BY DEF Init
<1>2. Sound(r) /\ 0 \in 0 .. Len(Orders)
  BY <1>1, FreshIsSound DEF Constants
<1> QED BY <1>2 DEF Init, Untold, SoundInv

LEMMA SoundAlways == ASSUME Constants PROVE Spec => []SoundInv
<1>1. Init => SoundInv
  BY InitSound
<1>2. SoundInv /\ [Next]_vars => SoundInv'
  BY SoundKeeps
<1> QED BY <1>1, <1>2, PTL DEF Spec

\* The robot has its type: for any map, orders, faults and commands.
THEOREM TypeCorrect == ASSUME Constants PROVE Spec => []TypeOK
<1>1. SoundInv => TypeOK
  BY DEF SoundInv, Sound, Robot, Verdicts, TypeOK
<1> QED BY <1>1, SoundAlways, PTL

----------------------------------------------------------------------------
(* The status of an action only advances: names are never used twice.      *)

\* The actions the robot and master control have named so far.
Named(q, n) ==
  {Minted(i) : i \in 1 .. q.minted}
    \cup {MasterAction(Orders[i].action) :
            i \in {j \in 1 .. n : Orders[j].action \in 1 .. Len(Orders)}}

\* Nothing is known of an action nobody named, and no verdict of one that is
\* in flight; what was reported at the end is the verdict.
StatusInv(q, rep, n) ==
  /\ \A a \in ActionIds \ Named(q, n) :
       q.verdict[a] = "none" /\ q.left[a] = 0 /\ rep[a] = "none"
  /\ q.task => q.action \in Named(q, n) /\ q.verdict[q.action] = "none"
  /\ \A a \in ActionIds :
       /\ q.left[a] > 0 => q.verdict[a] # "none"
       /\ rep[a] \in Verdicts => q.verdict[a] = rep[a]

LEMMA NamedGrows ==
  ASSUME NEW p, p.minted \in Nat, NEW q, q.minted \in Nat, p.minted <= q.minted,
         NEW n \in Nat, NEW m \in Nat, n <= m
  PROVE  Named(p, n) \subseteq Named(q, m)
<1>1. 1 .. p.minted \subseteq 1 .. q.minted /\ 1 .. n \subseteq 1 .. m
  OBVIOUS
<1> QED BY <1>1 DEF Named

LEMMA NewlyNamed ==
  ASSUME Constants, OnceNamed, NEW p, Sound(p), NEW q, Sound(q), q.task,
         NEW n \in 0 .. Len(Orders), NEW m \in n .. Len(Orders), Naming(p, q, n, m),
         ~(p.task /\ q.action = p.action)
  PROVE  q.action \in Named(q, m) /\ q.action \notin Named(p, n)
<1>1. Len(Orders) \in Nat /\ p.minted \in Nat /\ q.minted \in Nat
  BY NumbersOK DEF Constants, Sound, Robot
<1>2. CASE Tasking(p, q)
  <2>1. q.minted = p.minted + 1 /\ q.action = Minted(q.minted)
    BY <1>2 DEF Tasking
  <2>2. q.minted \in 1 .. q.minted /\ q.minted \notin 1 .. p.minted
    BY <1>1, <2>1
  <2> QED BY <2>1, <2>2 DEF Named, Minted, MasterAction
<1>3. CASE ~Tasking(p, q)
  <2>1. PICK i \in n + 1 .. m : Orders[i].action \in 1 .. Len(Orders)
                               /\ q.action = MasterAction(Orders[i].action)
    BY <1>3 DEF Naming
  <2>2. i \in 1 .. m /\ i \in 1 .. Len(Orders) /\ i \notin 1 .. n
        /\ 1 .. n \subseteq 1 .. Len(Orders)
    BY <1>1
  <2>3. \A j \in 1 .. n : Orders[j].action # Orders[i].action
    BY <2>1, <2>2 DEF OnceNamed
  <2> QED BY <2>1, <2>2, <2>3 DEF Named, Minted, MasterAction
<1> QED BY <1>2, <1>3

LEMMA StatusLeft ==
  ASSUME Constants, OnceNamed, SoundInv, StatusInv(r, reported, issued),
         NEW q, Sound(q), Staging(r, q),
         issued' \in issued .. Len(Orders), Naming(r, q, issued, issued')
  PROVE  StatusInv(q, reported, issued')
<1>1. /\ Sound(r) /\ issued \in 0 .. Len(Orders) /\ Len(Orders) \in Nat
      /\ issued \in Nat /\ issued' \in Nat /\ issued <= issued'
      /\ r.minted \in Nat /\ q.minted \in Nat
  <2>1. Sound(r) /\ issued \in 0 .. Len(Orders) /\ Len(Orders) \in Nat
    BY DEF Constants, SoundInv
  <2>2. r.minted \in Nat /\ q.minted \in Nat
    BY <2>1, NumbersOK DEF Sound, Robot
  <2> QED BY <2>1, <2>2
<1>2. r.minted <= q.minted
  BY <1>1 DEF Naming, Tasking
<1>3. Named(r, issued) \subseteq Named(q, issued')
  BY <1>1, <1>2, NamedGrows
<1>4. \A a \in ActionIds :
        \/ q.verdict[a] = r.verdict[a] /\ q.left[a] = r.left[a]
        \/ /\ r.task /\ a = r.action /\ ~(q.task /\ q.action = a)
           /\ q.verdict[a] \in Verdicts
  BY <1>1 DEF Staging, Sound, Robot
<1>5. r.task => r.action \in Named(r, issued) /\ r.verdict[r.action] = "none"
  BY DEF StatusInv
<1>6. ASSUME NEW a \in ActionIds \ Named(q, issued')
      PROVE  q.verdict[a] = "none" /\ q.left[a] = 0 /\ reported[a] = "none"
  <2>1. a \notin Named(r, issued)
    BY <1>3
  <2> QED BY <1>4, <1>5, <2>1 DEF StatusInv
<1>7. ASSUME q.task PROVE q.action \in Named(q, issued') /\ q.verdict[q.action] = "none"
  <2>1. q.action \in ActionIds
    BY <1>7 DEF Sound, Robot
  <2>2. CASE r.task /\ q.action = r.action
    BY <1>3, <1>4, <1>5, <1>7, <2>1, <2>2
  <2>3. CASE ~(r.task /\ q.action = r.action)
    <3>1. q.action \in Named(q, issued') /\ q.action \notin Named(r, issued)
      BY <1>1, <1>7, <2>3, NewlyNamed
    <3>2. r.verdict[q.action] = "none"
      BY <2>1, <3>1 DEF StatusInv
    <3> QED BY <1>4, <2>1, <2>3, <3>1, <3>2
  <2> QED BY <2>2, <2>3
<1>8. ASSUME NEW a \in ActionIds
      PROVE  /\ q.left[a] > 0 => q.verdict[a] # "none"
             /\ reported[a] \in Verdicts => q.verdict[a] = reported[a]
  <2>1. /\ r.left[a] > 0 => r.verdict[a] # "none"
        /\ reported[a] \in Verdicts => r.verdict[a] = reported[a]
    BY DEF StatusInv
  <2> QED BY <1>4, <1>5, <2>1 DEF Verdicts
<1> QED BY <1>6, <1>7, <1>8 DEF StatusInv

\* The message after the branch says what is staged, or that it is running.
LEMMA StatusSeen ==
  ASSUME Constants, SoundInv, NEW q, Sound(q), Seen(q), StatusInv(q, reported, issued')
  PROVE  StatusInv(r', reported', issued') /\ AdvancesStatuses
<1>1. CASE r' = q /\ reported' = reported
  BY <1>1 DEF AdvancesStatuses
<1>2. CASE Published(q)
  <2>1. /\ r'.task = q.task /\ r'.action = q.action /\ r'.minted = q.minted
        /\ r'.verdict = q.verdict /\ r'.left = [a \in ActionIds |-> Less(q.left[a])]
    BY <1>2, PublishedIsSound
  <2>2. Named(r', issued') = Named(q, issued')
    BY <2>1 DEF Named
  <2>3. \A a \in ActionIds : q.left[a] \in Nat
    BY NumbersOK DEF Sound, Robot
  <2>4. \A a \in ActionIds :
          reported'[a] = IF q.left[a] > 0 THEN q.verdict[a]
                         ELSE IF q.status = "working" /\ q.task /\ q.action = a
                              THEN "RUNNING" ELSE reported[a]
    BY <1>2 DEF Published, Report
  <2>5. \A a \in ActionIds :
          /\ r'.left[a] > 0 => q.left[a] > 0
          /\ q.left[a] = 0 => r'.left[a] = 0
    BY <2>1, <2>3 DEF Less
  <2>6. ASSUME NEW a \in ActionIds \ Named(r', issued')
        PROVE  r'.verdict[a] = "none" /\ r'.left[a] = 0 /\ reported'[a] = "none"
    BY <2>1, <2>2, <2>4, <2>5 DEF StatusInv
  <2>7. r'.task => r'.action \in Named(r', issued') /\ r'.verdict[r'.action] = "none"
    BY <2>1, <2>2 DEF StatusInv
  <2>8. ASSUME NEW a \in ActionIds
        PROVE  /\ r'.left[a] > 0 => r'.verdict[a] # "none"
               /\ reported'[a] \in Verdicts => r'.verdict[a] = reported'[a]
    BY <2>1, <2>4, <2>5 DEF StatusInv, Verdicts
  <2>9. ASSUME NEW a \in ActionIds, reported[a] \in Verdicts
        PROVE  reported'[a] = reported[a]
    BY <2>4, <2>9 DEF StatusInv, Verdicts
  <2> QED BY <2>6, <2>7, <2>8, <2>9 DEF StatusInv, AdvancesStatuses, Verdicts
<1> QED BY <1>1, <1>2 DEF Seen

\* Master control never sees an action run again that it saw end, nor another
\* verdict of it, whatever faults, commands and orders do to the robot, as long
\* as master control names every action once.
THEOREM StatusesAdvance == ASSUME Constants, OnceNamed PROVE Spec => StatusAdvancesOnly
<1> DEFINE I == StatusInv(r, reported, issued)
<1>1. Init /\ SoundInv => I
  <2> SUFFICES ASSUME Init PROVE I
    OBVIOUS
  <2>1. /\ r.verdict = [a \in ActionIds |-> "none"] /\ ~r.task
        /\ r.left = [a \in ActionIds |-> 0]
        /\ reported = [a \in ActionIds |-> "none"]
    BY DEF Init, Fresh, Untold
  <2> QED BY <2>1 DEF StatusInv, Verdicts
<1>2. SoundInv /\ I /\ [Next]_vars => I' /\ [AdvancesStatuses]_vars
  <2> SUFFICES ASSUME SoundInv, I, [Next]_vars PROVE I' /\ [AdvancesStatuses]_vars
    OBVIOUS
  <2>1. CASE UNCHANGED vars
    BY <2>1 DEF vars, StatusInv, Named
  <2>2. CASE Next
    <3>1. PICK q : /\ Seen(q) /\ Sound(q) /\ Staging(r, q)
                   /\ issued' \in issued .. Len(Orders)
                   /\ Naming(r, q, issued, issued')
      BY <2>2, Steps
    <3>2. StatusInv(q, reported, issued')
      BY <3>1, StatusLeft
    <3> QED BY <3>1, <3>2, StatusSeen
  <2> QED BY <2>1, <2>2
<1> QED BY <1>1, <1>2, SoundAlways, PTL DEF Spec, StatusAdvancesOnly

----------------------------------------------------------------------------
(* What a robot gives up, and what ends a hold.                            *)

LEMMA BusyAlways ==
  ASSUME Constants
  PROVE  Spec => [](SoundInv /\ Busy(r)) /\ [][AccountsForActions]_vars
<1> DEFINE I == SoundInv /\ Busy(r)
<1>1. Init => I
  <2> SUFFICES ASSUME Init PROVE I
    OBVIOUS
  <2>1. ~r.task /\ r.status = "idle"
    BY DEF Init, Fresh
  <2> QED BY <2>1, InitSound DEF Busy
<1>2. I /\ [Next]_vars => I' /\ [AccountsForActions]_vars
  <2> SUFFICES ASSUME I, [Next]_vars PROVE I' /\ [AccountsForActions]_vars
    OBVIOUS
  <2>1. SoundInv'
    BY SoundKeeps
  <2>2. CASE UNCHANGED vars
    BY <2>1, <2>2 DEF vars, Busy
  <2>3. CASE Next
    <3>1. PICK q : Seen(q) /\ Sound(q) /\ Tidy(r, q)
      BY <2>3, Steps
    <3>2. Busy(q) /\ Ends(r, q)
      BY <3>1 DEF Tidy
    <3>3. /\ r'.status = q.status /\ r'.task = q.task /\ r'.action = q.action
          /\ r'.verdict = q.verdict /\ r'.resume = q.resume /\ r'.fault = q.fault
      BY <3>1, PublishedIsSound DEF Seen
    <3>4. Busy(r')
      BY <3>2, <3>3 DEF Busy
    <3>5. AccountsForActions
      BY <3>2, <3>3 DEF AccountsForActions, InFlight, Ends, Interrupted
    <3> QED BY <2>1, <3>4, <3>5
  <2> QED BY <2>2, <2>3
<1> QED BY <1>1, <1>2, PTL DEF Spec

\* Whatever faults, commands and orders do to a robot, an action it gives up was
\* queued as finished or failed, unless a fault had left the robot idle with it.
THEOREM NothingUnaccounted == ASSUME Constants PROVE Spec => ActionAccounted
BY BusyAlways, PTL DEF ActionAccounted

\* Only a fault makes an action vanish: without faults every action a robot
\* gives up was queued as finished or failed, whoever took it away.
THEOREM NothingVanishes ==
  ASSUME Constants, FaultKinds = {} PROVE Spec => ActionTerminates
<1>1. AccountsForActions => TerminatesActions
  BY DEF AccountsForActions, TerminatesActions, Interrupted
<1> QED BY <1>1, BusyAlways, PTL DEF ActionTerminates

\* A stop that is carried out holds the robot.
LEMMA StopsHold == ASSUME Sound(r), Pause \/ Estop PROVE r'.status \in Held
BY DEF Pause, Estop, Held, Sound, Robot

\* What the robot does by itself, and what master control sends, end no hold.
LEMMA HoldKept ==
  ASSUME Constants, SoundInv, r.status \in Held,
         \/ Tick \/ StateRequest \/ CancelOrder \/ ReceiveOrder
         \/ \E n \in Nodes : Reposition(n)
  PROVE  r'.status \in Held
<1>1. Sound(r) /\ r.status \notin {"fault", "idle", "working", "charging", "moving",
                                   "to_charger"}
  BY DEF SoundInv, Held
<1>2. CASE Tick
  <2>1. TickHeld
    BY <1>1, <1>2 DEF Tick, TickFault, TickCharging, TickDivert, TickIdle, TickAssign,
                      TickWorking, TickFinish, TickDrive, Driving
  <2>2. PICK q : Published(q) /\ Left(q) /\ q.status = r.status
    BY <1>1, <2>1, DrainLeaves
  <2> QED BY <2>2, PublishedIsSound DEF Left
<1>3. CASE StateRequest
  BY <1>1, <1>3, PublishedIsSound DEF StateRequest
<1>4. CASE CancelOrder
  <2> DEFINE d == Dropped(StageFailed(r))
  <2>1. d.status = r.status /\ Sound(d)
    <3>1. StageFailed(r) \in Robot /\ StageFailed(r).status = r.status
      BY <1>1, StagesFailed DEF Sound
    <3> QED BY <3>1, Drops
  <2>2. r' = [d EXCEPT !.path = <<>>,
                       !.status = IF @ \in {"moving", "working", "to_charger"}
                                  THEN "idle" ELSE @]
    BY <1>4 DEF CancelOrder
  <2> HIDE DEF d
  <2> QED BY <1>1, <2>1, <2>2 DEF Sound, Robot
<1>5. ASSUME NEW n \in Nodes, Reposition(n) PROVE FALSE
  BY <1>1, <1>5 DEF Reposition
<1>6. ASSUME NEW i \in 1 .. Len(Orders), AdoptOrder(Orders[i]) \/ RejectOrder(Orders[i])
      PROVE  r'.status \in Held
  BY <1>1, <1>6, RejectLeaves DEF AdoptOrder, RefusesOrders
<1>7. CASE ReceiveOrder
  BY <1>6, <1>7 DEF ReceiveOrder
<1> QED BY <1>2, <1>3, <1>4, <1>5, <1>7

\* Faults are all that ends a hold beside the operator who placed it: no tick,
\* no order, no initPosition and no other command does.
THEOREM HoldsEnd == ASSUME Constants PROVE Spec => HoldYieldsToFaults
<1>1. SoundInv /\ [Next]_vars => [YieldsHold]_vars
  BY StopsHold, HoldKept DEF YieldsHold, Next, Command, Struck, SoundInv
<1> QED BY <1>1, SoundAlways, PTL DEF Spec, HoldYieldsToFaults

\* Without faults only the operator ends a hold.
THEOREM HoldsLast == ASSUME Constants, FaultKinds = {} PROVE Spec => HoldIsKept
<1>1. YieldsHold => KeepsHold
  BY DEF YieldsHold, KeepsHold, Struck
<1>2. Spec => HoldYieldsToFaults
  BY HoldsEnd
<1> QED BY <1>1, <1>2, PTL DEF HoldYieldsToFaults, HoldIsKept

----------------------------------------------------------------------------
(* The rows of the two programs.                                           *)

ErrorOf(q) == [type |-> q.fault, level |-> Level(q.fault)]

LEMMA ErrorsOf ==
  /\ r.fault = "none" => Errors(r) \in {<<>>, <<OrderUpdateError>>}
  /\ r.fault # "none" => Errors(r) \in {<<ErrorOf(r)>>, <<ErrorOf(r), OrderUpdateError>>}
<1>1. StagedErrors(r) \in {<<>>, <<OrderUpdateError>>}
  BY DEF StagedErrors
<1>2. BuildErrors(r) = IF r.fault = "none" THEN <<>> ELSE <<ErrorOf(r)>>
  BY DEF BuildErrors, ErrorOf
<1>3. ASSUME NEW e, NEW f
      PROVE  /\ <<>> \o <<>> = <<>> /\ <<>> \o <<e>> = <<e>>
             /\ <<e>> \o <<>> = <<e>> /\ <<e>> \o <<f>> = <<e, f>>
  <2> DEFINE S == Seq({e, f})
  <2>1. <<>> \in S /\ <<e>> \in S /\ <<f>> \in S
    OBVIOUS
  <2>2. <<>> \o <<>> = <<>> /\ <<>> \o <<e>> = <<e>> /\ <<e>> \o <<>> = <<e>>
    BY <2>1, ConcatEmptySeq
  <2>3. <<e>> \o <<f>> = <<e, f>>
    <3> DEFINE t == <<e>> \o <<f>>
    <3>1. t \in S /\ Len(t) = 2 /\ t[1] = e /\ t[2] = f
      BY <2>1, ConcatProperties
    <3>2. <<e, f>> \in S /\ Len(<<e, f>>) = 2 /\ <<e, f>>[1] = e /\ <<e, f>>[2] = f
      OBVIOUS
    <3> HIDE DEF t
    <3>3. \A i \in 1 .. Len(t) : t[i] = <<e, f>>[i]
      BY <3>1, <3>2
    <3>4. t = <<e, f>>
      BY <3>1, <3>2, <3>3, SeqEqual
    <3> QED BY <3>4 DEF t
  <2> QED BY <2>2, <2>3
<1> QED BY <1>1, <1>2, <1>3, Zenon DEF Errors

\* The simulator's row and the bridge's tell the operator the same of a robot,
\* and never show one that is held or in a fault as working or free.
THEOREM OneRow == ASSUME Constants PROVE Spec => []RowsAgree
<1>1. SoundInv /\ Busy(r) => RowsAgree
  <2> SUFFICES ASSUME SoundInv, Busy(r) PROVE RowsAgree
    OBVIOUS
  <2> DEFINE m == StateMessage(r)
             own == RobotRow(m)
             bridged == TranslateState(m)
             cause == ErrorOf(r)
  <2>1. /\ r.fault = "none" => m.errors \in {<<>>, <<OrderUpdateError>>}
        /\ r.fault # "none" => m.errors \in {<<cause>>, <<cause, OrderUpdateError>>}
    BY ErrorsOf DEF StateMessage
  <2>2. /\ r.status = "paused" => m.paused
        /\ r.status = "estopped" => m.stopped
        /\ r.status = "fault" => r.fault # "none"
    BY DEF StateMessage, Busy
  <2>3. /\ cause.level \in {"FATAL", "WARNING"} /\ OrderUpdateError.level = "WARNING"
        /\ cause.type = r.fault
    BY DEF ErrorOf, Level, OrderUpdateError
  <2>4. /\ own.status = DeriveStatus(m) /\ bridged.status = BridgeStatus(m)
        /\ own.fault = (IF m.errors = <<>> THEN "none" ELSE m.errors[1].type)
        /\ bridged.fault = BridgeFault(m)
    BY DEF RobotRow, TranslateState
  <2> HIDE DEF m, cause, own, bridged
  <2>5. HasError(m, {"FATAL"}) <=> HasError(m, Fatal)
    BY <2>1, <2>3 DEF HasError, Fatal
  <2>6. own.status = bridged.status
    BY <2>4, <2>5 DEF DeriveStatus, BridgeStatus
  <2>7. HasError(m, {"FATAL"}) => own.fault = bridged.fault
    <3> SUFFICES ASSUME HasError(m, {"FATAL"}) PROVE own.fault = bridged.fault
      OBVIOUS
    <3> DEFINE fatal == {i \in 1 .. Len(m.errors) : m.errors[i].level \in Fatal}
               first == CHOOSE i \in fatal : \A j \in fatal : i <= j
    <3>1. /\ m.errors \in {<<cause>>, <<cause, OrderUpdateError>>}
          /\ cause.level = "FATAL"
      BY <2>1, <2>3 DEF HasError
    <3>2. fatal = {1}
      <4>1. Len(m.errors) \in {1, 2} /\ m.errors[1].level = "FATAL"
        BY <3>1
      <4>2. Len(m.errors) = 2 => m.errors[2].level = "WARNING"
        BY <2>3, <3>1
      <4> DEFINE n == Len(m.errors)
      <4>3. 1 \in 1 .. n /\ \A i \in 1 .. n : i = 1 \/ (i = 2 /\ n = 2)
        <5>1. n \in {1, 2}
          BY <4>1
        <5> HIDE DEF n
        <5> QED BY <5>1
      <4> QED BY <4>1, <4>2, <4>3 DEF Fatal
    <3> HIDE DEF fatal
    <3>3. first = 1
      BY <3>2
    <3>4. BridgeFault(m) = m.errors[first].type
      BY <3>2 DEF BridgeFault, fatal
    <3>5. m.errors # <<>>
      BY <3>1
    <3> QED BY <2>4, <3>3, <3>4, <3>5
  <2>8. own.status = "fault" <=> HasError(m, {"FATAL"})
    BY <2>4 DEF DeriveStatus
  <2>9. r.status \in Held \cup {"fault"} => own.status \notin NotShownAs
    <3>1. r.status = "fault" => m.errors # <<>>
      BY <2>1, <2>2
    <3> QED BY <2>2, <2>4, <3>1 DEF DeriveStatus, NotShownAs, Held
  <2> QED BY <2>6, <2>7, <2>8, <2>9 DEF RowsAgree, m, own, bridged
<1>2. Spec => [](SoundInv /\ Busy(r))
  BY BusyAlways
<1> QED BY <1>1, <1>2, PTL

----------------------------------------------------------------------------
(* What is left of an order's route.                                       *)

\* KeepsProgress between two robots.
Progresses(p, q) ==
  q.order = p.order /\ q.order # OwnOrder =>
    \/ q.update > p.update
    \/ /\ q.update = p.update
       /\ \E k \in 0 .. Len(p.path) : q.path = SubSeq(p.path, k + 1, Len(p.path))

\* A branch that leaves the route alone, empties it, or drives along it.
LEMMA ShorterRoute ==
  ASSUME NEW p, Sound(p), NEW q, q.order = p.order, q.update = p.update,
         \/ q.path = p.path \/ q.path = <<>>
         \/ \E k \in 0 .. Len(p.path) : q.path = SubSeq(p.path, k + 1, Len(p.path))
  PROVE  Progresses(p, q)
<1>1. p.path \in Seq(Nodes) /\ Len(p.path) \in Nat
  BY DEF Sound, Robot
<1>2. p.path = SubSeq(p.path, 0 + 1, Len(p.path)) /\ 0 \in 0 .. Len(p.path)
  BY <1>1, SubSeqFull
<1>3. <<>> = SubSeq(p.path, Len(p.path) + 1, Len(p.path))
      /\ Len(p.path) \in 0 .. Len(p.path)
  <2>1. Len(p.path) \in Int /\ Len(p.path) + 1 \in Int /\ Len(p.path) < Len(p.path) + 1
    BY <1>1
  <2>2. SubSeq(p.path, Len(p.path) + 1, Len(p.path)) = <<>>
    BY <2>1, SubSeqEmpty
  <2>3. Len(p.path) \in 0 .. Len(p.path)
    BY <1>1
  <2> QED BY <2>2, <2>3, Zenon
<1> QED BY <1>2, <1>3 DEF Progresses

\* The route to the charger is the robot's own.
LEMMA ChargerRoute ==
  ASSUME Constants, NEW p, Sound(p)
  PROVE  Dropped(Routed(StageFailed(p), NearestCharger[p.node], "to_charger")).order
           = OwnOrder
<1> DEFINE s == StageFailed(p)
           t == Routed(s, NearestCharger[p.node], "to_charger")
<1>1. NearestCharger[p.node] \in Nodes /\ Sound(s) /\ "to_charger" \in Driving
  BY StagesFailed DEF Sound, Robot, Constants, Driving
<1> HIDE DEF s
<1>2. Sound(t) /\ t.order = OwnOrder
  BY <1>1, Routes, OwnRoute
<1> HIDE DEF t
<1>3. Dropped(t).order = OwnOrder
  BY <1>2, RouteOfPieces DEF SameRoute
<1> QED BY <1>3 DEF s, t

LEMMA PublishedRoute ==
  ASSUME NEW q, Sound(q), Published(q)
  PROVE  SameRoute(r', q)
  BY DEF Published, Sound, Robot, SameRoute

LEMMA TickProgresses == ASSUME Constants, Sound(r), Tick PROVE KeepsProgress
<1>1. ASSUME NEW q, Published(q), Sound(q), Progresses(r, q) PROVE KeepsProgress
  BY <1>1, PublishedRoute DEF SameRoute, Progresses, KeepsProgress
<1>2. CASE TickFault
  <2>1. PICK q : /\ Published(q)
                 /\ \/ q = [r EXCEPT !.ticks = 0, !.fault = CauseAfterClear,
                                       !.status = r.resume]
                    \/ r.ticks > 1 /\ q = [r EXCEPT !.ticks = @ - 1]
    <3>1. r.ticks <= 1 \/ r.ticks > 1
      BY NumbersOK DEF Sound, Robot
    <3> QED BY <1>2, <3>1, NumbersOK DEF TickFault, Sound, Robot
  <2>2. r.ticks > 1 => r.ticks - 1 \in 0 .. FaultTicks
    BY NumbersOK DEF Sound, Robot
  <2>3. Sound(q) /\ SameRoute(q, r)
    BY <2>1, <2>2, NumbersOK DEF Sound, Robot, SameRoute, CauseAfterClear
  <2> QED BY <1>1, <2>1, <2>3, ShorterRoute DEF SameRoute
<1>3. CASE TickHeld \/ TickIdle \/ TickWorking
  <2>1. PICK q \in Drains(r) : Published(q)
    BY <1>3 DEF TickHeld, TickIdle, TickWorking
  <2> QED BY <1>1, <2>1, Draining, RouteOfPieces, ShorterRoute DEF SameRoute
<1>4. CASE TickCharging
  <2>1. PICK band \in Bands :
          Published(IF band = "full"
                    THEN [r EXCEPT !.battery = band, !.status = "idle",
                                   !.task = FALSE]
                    ELSE [r EXCEPT !.battery = band])
    BY <1>4 DEF TickCharging, Bands, Sound, Robot
  <2>2. PICK q :
          /\ Published(q)
          /\ \/ q = [r EXCEPT !.battery = band]
             \/ q = [r EXCEPT !.battery = band, !.status = "idle", !.task = FALSE]
    BY <2>1
  <2>3. Sound(q) /\ SameRoute(q, r)
    BY <2>2 DEF Sound, Robot, Statuses, SameRoute
  <2> QED BY <1>1, <2>2, <2>3, ShorterRoute DEF SameRoute
<1>5. CASE TickDivert
  <2> DEFINE d == Diverted
  <2>1. Sound(d) /\ d.order = OwnOrder
    BY SentToCharger, ChargerRoute DEF Diverted
  <2>2. PICK q : /\ Published(q)
                 /\ \/ q = d
                    \/ d.status = "to_charger" /\ \E k \in 0 .. Len(d.path) : q = Advanced(d, k)
    BY <1>5 DEF TickDivert
  <2> HIDE DEF d
  <2>3. Sound(q) /\ q.order = OwnOrder
    BY <2>1, <2>2, Advances, AlongRoute DEF DrivenTo, Driving
  <2> QED BY <1>1, <2>2, <2>3 DEF Progresses
<1>6. CASE TickAssign
  <2>1. PICK q : Published(q) /\ Left(q) /\ q.order = OwnOrder
    BY <1>6, AssignLeaves
  <2> QED BY <1>1, <2>1 DEF Progresses, Left
<1>7. CASE TickFinish
  <2>1. PICK q : Published(q) /\ Left(q) /\ SameRoute(q, r)
    BY <1>7, FinishLeaves
  <2> QED BY <1>1, <2>1, ShorterRoute DEF SameRoute, Left
<1>8. CASE TickDrive
  <2>1. PICK d \in Drains(r), k \in 0 .. Len(r.path) : Published(Advanced(d, k))
    BY <1>8, Draining DEF TickDrive
  <2>2. Sound(d) /\ d.path = r.path /\ d.status \in Driving /\ SameRoute(d, r)
    BY <1>8, Draining, RouteOfPieces DEF TickDrive
  <2>3. Sound(Advanced(d, k))
    BY <2>2, Advances DEF DrivenTo
  <2>4. /\ Advanced(d, k).order = r.order /\ Advanced(d, k).update = r.update
        /\ Advanced(d, k).path = SubSeq(r.path, k + 1, Len(r.path))
    BY <2>2, AlongRoute DEF SameRoute
  <2> QED BY <1>1, <2>1, <2>3, <2>4, ShorterRoute
<1> QED BY <1>2, <1>3, <1>4, <1>5, <1>6, <1>7, <1>8 DEF Tick

\* Within one order no message rewinds or repeats progress, however late,
\* repeated or lost the messages of master control are.
THEOREM NoRewind == ASSUME Constants PROVE Spec => ProgressKept
<1>1. SoundInv /\ [Next]_vars => [KeepsProgress]_vars
  <2> SUFFICES ASSUME SoundInv, Next PROVE KeepsProgress
    OBVIOUS
  <2>1. Sound(r)
    BY DEF SoundInv
  <2>2. ASSUME Progresses(r, r') PROVE KeepsProgress
    BY <2>2 DEF Progresses, KeepsProgress
  <2>3. CASE Tick
    BY <2>1, <2>3, TickProgresses
  <2>4. CASE StateRequest
    BY <2>1, <2>2, <2>4, PublishedRoute, ShorterRoute DEF StateRequest, SameRoute
  <2>5. ASSUME NEW kind \in FaultKinds, FaultStarts(kind) PROVE KeepsProgress
    <3> DEFINE q == [r EXCEPT !.fault = kind, !.ticks = FaultTicks - 1,
                              !.resume = ResumeAfterFault, !.status = "fault"]
    <3>1. Published(q)
      BY <2>5 DEF FaultStarts
    <3>2. SameRoute(r', r)
      BY <2>1, <3>1 DEF Published, Sound, Robot, SameRoute
    <3> QED BY <2>1, <2>2, <3>2, ShorterRoute DEF SameRoute
  <2>6. CASE Pause \/ Estop
    <3>1. SameRoute(r', r)
      BY <2>1, <2>6 DEF Pause, Estop, Sound, Robot, SameRoute
    <3> QED BY <2>1, <2>2, <3>1, ShorterRoute DEF SameRoute
  <2>7. CASE Resume
    <3> DEFINE p == [r EXCEPT !.status = r.resume]
               s == [StageFailed(p) EXCEPT !.status = "idle", !.path = <<>>]
    <3>1. Sound(p) /\ SameRoute(p, r)
      BY <2>1 DEF Sound, Robot, SameRoute
    <3>2. r' = p \/ r' = Dropped(s)
      BY <2>7 DEF Resume, Resumed
    <3> HIDE DEF p
    <3>3. Sound(s) /\ s.path = <<>> /\ s.order = r.order /\ s.update = r.update
      <4> DEFINE u == StageFailed(p)
      <4>1. Sound(u) /\ SameRoute(u, p)
        BY <3>1, StagesFailed, RouteOfPieces
      <4>2. s = [u EXCEPT !.status = "idle", !.path = <<>>]
        OBVIOUS
      <4> HIDE DEF u, s
      <4> QED BY <3>1, <4>1, <4>2, EmptyPath DEF Sound, Robot, Statuses, SameRoute
    <3> HIDE DEF s
    <3>4. SameRoute(Dropped(s), s)
      BY <3>3, RouteOfPieces
    <3> QED BY <2>1, <2>2, <3>1, <3>2, <3>3, <3>4, ShorterRoute DEF SameRoute
  <2>8. CASE CancelOrder
    <3> DEFINE s == StageFailed(r)
               d == Dropped(s)
    <3>1. Sound(s) /\ SameRoute(s, r)
      BY <2>1, StagesFailed, RouteOfPieces
    <3> HIDE DEF s
    <3>2. Sound(d) /\ SameRoute(d, s)
      BY <3>1, Drops, RouteOfPieces DEF Sound
    <3>3. r' = [d EXCEPT !.path = <<>>,
                         !.status = IF @ \in {"moving", "working", "to_charger"}
                                    THEN "idle" ELSE @]
      BY <2>8 DEF CancelOrder, s
    <3> HIDE DEF d
    <3>4. r'.path = <<>> /\ r'.order = d.order /\ r'.update = d.update
      BY <3>2, <3>3 DEF Sound, Robot
    <3> QED BY <2>1, <2>2, <3>1, <3>2, <3>4, ShorterRoute DEF SameRoute
  <2>9. CASE Charge
    <3> DEFINE p == IF r.status \in Held THEN [r EXCEPT !.status = r.resume] ELSE r
    <3>1. Sound(p) /\ p.node = r.node
      BY <2>1 DEF Sound, Robot
    <3>2. r' = Dropped(Routed(StageFailed(p), NearestCharger[p.node], "to_charger"))
      BY <2>9, <3>1 DEF Charge
    <3> HIDE DEF p
    <3>3. r'.order = OwnOrder
      BY <3>1, <3>2, ChargerRoute
    <3> QED BY <2>2, <3>3 DEF Progresses
  <2>10. ASSUME NEW n \in Nodes, Reposition(n) PROVE KeepsProgress
    <3>1. r'.path = <<>> /\ r'.order = r.order /\ r'.update = r.update
      BY <2>1, <2>10 DEF Reposition, Sound, Robot
    <3> QED BY <2>1, <2>2, <3>1, ShorterRoute
  <2>11. ASSUME NEW i \in 1 .. Len(Orders), AdoptOrder(Orders[i]) \/ RejectOrder(Orders[i])
         PROVE  KeepsProgress
    <3>1. CASE RejectOrder(Orders[i])
      <4>1. SameRoute(r', r)
        BY <2>1, <3>1 DEF RejectOrder, Sound, Robot, SameRoute
      <4> QED BY <2>1, <2>2, <4>1, ShorterRoute DEF SameRoute
    <3>2. CASE AdoptOrder(Orders[i])
      <4>1. r'.order = Orders[i].id /\ r'.update = Orders[i].update
        BY <2>1, <3>2, AdoptLeaves
      <4>2. /\ ~(Orders[i].id = r.order /\ Orders[i].update <= r.update)
            /\ r.update \in Int /\ Orders[i].update \in Int
        <5>1. Orders[i] \in Order
          BY DEF Constants
        <5>2. Orders[i].update \in Nat /\ r.update \in Nat
          BY <2>1, <5>1 DEF Order, Sound, Robot
        <5> QED BY <3>2, <5>2 DEF AdoptOrder, Stale
      <4> QED BY <2>2, <4>1, <4>2 DEF Progresses
    <3> QED BY <2>11, <3>1, <3>2
  <2>12. CASE ReceiveOrder
    BY <2>11, <2>12 DEF ReceiveOrder
  <2> QED BY <2>3, <2>4, <2>5, <2>6, <2>7, <2>8, <2>9, <2>10, <2>12 DEF Next, Command
<1> QED BY <1>1, SoundAlways, PTL DEF Spec, ProgressKept
=============================================================================
