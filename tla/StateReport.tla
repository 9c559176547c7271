----------------------------- MODULE StateReport -----------------------------
(***************************************************************************)
(* The state message of a robot, and what the two programs that write the  *)
(* robots table make of it.                                                *)
(*                                                                         *)
(*   sim/yantrasim/vda.py                     build_state, build_errors    *)
(*   sim/yantrasim/sim.py                     attach_pending               *)
(*   sim/yantrasim/translate.py               derive_status, robot_row     *)
(*   connector/yantrabridge/translate.py      translate_state              *)
(*                                                                         *)
(* With the Supabase transport the simulator writes the row itself; with   *)
(* the MQTT transport the bridge derives it from the same message. Of a    *)
(* row the status and the error named in fault_msg are kept. A request     *)
(* (stateRequest) may have any state of the robot published.               *)
(***************************************************************************)
EXTENDS RobotLifecycle, TLC

\* FAULT_LEVELS
Level(kind) == IF kind \in {"localization", "estop"} THEN "FATAL" ELSE "WARNING"

BuildErrors(q) ==
  IF q.fault = "none" THEN <<>> ELSE << [type |-> q.fault, level |-> Level(q.fault)] >>

OrderUpdateError == [type |-> "orderUpdate", level |-> "WARNING"]
StagedErrors(q) == IF q.errors > 0 THEN <<OrderUpdateError>> ELSE <<>>

\* mutant: staged errors come before the one of the fault
StagedFirst(q) == StagedErrors(q) \o BuildErrors(q)
\* attach_pending: they follow it.
Errors(q) == BuildErrors(q) \o StagedErrors(q)

\* merge_action_states: a later status replaces an earlier one.
Merged(existing, extra) == extra @@ existing

InFlightState(q) ==
  [a \in {b \in ActionIds : q.status = "working" /\ q.task /\ q.action = b} |->
     "RUNNING"]
StagedStates(q) == [a \in {b \in ActionIds : q.left[b] > 0} |-> q.verdict[a]]

StateMessage(q) ==
  [errors |-> Errors(q),
   stopped |-> q.fault = "estop" \/ q.status = "estopped",    \* eStop # NONE
   blocked |-> q.fault = "obstacle_blocked",                  \* fieldViolation
   paused |-> q.status = "paused",
   charging |-> q.status = "charging",
   driving |-> q.status \in Driving /\ q.fault = "none",
   actions |-> Merged(InFlightState(q), StagedStates(q))]

HasError(m, levels) == \E i \in 1 .. Len(m.errors) : m.errors[i].level \in levels
Running(m) == \E a \in DOMAIN m.actions : m.actions[a] = "RUNNING"

-----------------------------------------------------------------------------
(* The simulator's own row *)

DeriveStatus(m) ==
  IF HasError(m, {"FATAL"}) THEN "fault"
  ELSE IF m.stopped \/ m.blocked THEN "estop"
  ELSE IF m.paused THEN "paused"
  ELSE IF m.errors # <<>> THEN "degraded"
  ELSE IF m.charging THEN "charging"
  ELSE IF Running(m) \/ m.driving THEN "active"
  ELSE "idle"

RobotRow(m) ==
  [status |-> DeriveStatus(m),
   fault |-> IF m.errors = <<>> THEN "none" ELSE m.errors[1].type]

-----------------------------------------------------------------------------
(* The bridge's row *)

Fatal == {"FATAL", "CRITICAL", "URGENT"}

BridgeStatus(m) ==
  IF HasError(m, Fatal) THEN "fault"
  ELSE IF m.stopped \/ m.blocked THEN "estop"
  ELSE IF m.paused THEN "paused"
  ELSE IF m.errors # <<>> THEN "degraded"
  ELSE IF m.charging THEN "charging"
  ELSE IF m.driving \/ Running(m) THEN "active"
  ELSE "idle"

\* The first fatal error; a warning is not named.
BridgeFault(m) ==
  LET fatal == {i \in 1 .. Len(m.errors) : m.errors[i].level \in Fatal}
      first == CHOOSE i \in fatal : \A j \in fatal : i <= j
  IN  IF fatal = {} THEN "none" ELSE m.errors[first].type

TranslateState(m) == [status |-> BridgeStatus(m), fault |-> BridgeFault(m)]

-----------------------------------------------------------------------------
(* Properties *)

NotShownAs == {"active", "idle", "charging"}

\* Whichever program writes the row, the operator sees the same: one status, in
\* a fault the same cause (a rejected order reported beside it does not hide
\* it), and never a held or faulted robot as one that works or is free for work.
RowsAgree ==
  LET m == StateMessage(r)
      own == RobotRow(m)
      bridged == TranslateState(m)
  IN  /\ own.status = bridged.status
      /\ own.status = "fault" => own.fault = bridged.fault
      /\ r.status \in Held \cup {"fault"} => own.status \notin NotShownAs
=============================================================================
