--------------------------- MODULE ConformanceRun ---------------------------
(***************************************************************************)
(* One run of the conformance tester against one vehicle on an MQTT        *)
(* broker: discovery, passive observation, nine probes one at a time, the  *)
(* retain probe, scoring, and the replay of the captured session.          *)
(*                                                                         *)
(*   tools/conformance/yantraconform/runner.py    ConformanceRunner        *)
(*   tools/conformance/yantraconform/observe.py   Collector, Observation   *)
(*   tools/conformance/yantraconform/loopback.py  LoopbackBroker           *)
(*   tools/conformance/yantraconform/capture.py   build, replay            *)
(*   tools/conformance/tests/fake_robots.py       FakeRobot, Defects       *)
(*                                                                         *)
(* The vehicle is the reference vehicle of the tester's own tests, with at *)
(* most one defect. It publishes a state per tick, may take a tick to      *)
(* answer, and another master control may dispatch it meanwhile.           *)
(***************************************************************************)
EXTENDS ConformanceChecks, ConformanceCases

CONSTANTS
  Vehicles,        \* the <<defect, running, mode>> triples: running, the vehicle
                   \* published states before the tester connects; mode, the record
                   \* [active, wills]: probing switched on, a broker that lets the
                   \* tester see the last-wills of other clients
  Ticks,           \* Ticks[k]: states the vehicle publishes during a wait of kind k
  MaxLate,         \* ticks, over the run, a command may wait in the vehicle
  MaxRedispatches  \* bound: orders another master sends while the tester listens

VARIABLES
  defect,    \* what the vehicle does wrong, "none" when nothing
  v,         \* the vehicle
  retained,  \* the broker's retained messages, by topic
  t,         \* the tester: step, ticks left in its wait, inbox, consumed messages
  o,         \* the Observation of the vehicle
  report     \* NoReport, then what run_checks returned

runVars == <<defect, v, retained, t, o, report>>

NoReport == [none |-> "none"]

Probes ==
  << "instant_unknown", "instant_stateRequest", "instant_factsheetRequest",
     "order_new", "order_update", "order_stale", "order_invalid",
     "instant_cancelOrder", "instant_initPosition" >>

Steps == <<"off", "discover", "observe">> \o Probes \o <<"retain", "scored">>

Phase == Steps[t.step]

WaitKind(step) ==
  IF step \in {"discover", "observe", "retain"} THEN step ELSE "settle"

(* The ids the tester gives its orders and actions.                        *)
OrderId == "conform"
InvalidId == "conform-invalid"
NodeAction == "conform-node"

ActionType ==
  [ instant_unknown |-> "unsupported", instant_stateRequest |-> "stateRequest",
    instant_factsheetRequest |-> "factsheetRequest", instant_cancelOrder |-> "cancelOrder",
    instant_initPosition |-> "initPosition" ]

IgnoredType ==
  [ ignore_stateRequest |-> "stateRequest", ignore_factsheetRequest |-> "factsheetRequest",
    ignore_cancelOrder |-> "cancelOrder", ignore_initPosition |-> "initPosition" ]

----------------------------------------------------------------------------
(* The broker: retained messages are replayed on every subscription, a     *)
(* publish reaches each client once.                                       *)

Topics == {"connection", "state", "factsheet"}

Published(topic, keep, body) == [topic |-> topic, retain |-> keep, body |-> body]

NoMessage == Published("none", TRUE, "none")

(* What the tester receives of a publish is not marked retained.           *)
Deliver(out, left) ==
  /\ retained' = [topic \in Topics |->
       LET kept == SelectSeq(out, LAMBDA m : m.retain /\ m.topic = topic)
       IN IF kept = <<>> THEN retained[topic] ELSE Last(kept)]
  /\ t' = [t EXCEPT !.left = left,
                    !.inbox = IF Phase = "off" THEN <<>>
                              ELSE @ \o [k \in DOMAIN out |-> [out[k] EXCEPT !.retain = FALSE]]]

(* The members of a sequence that belong to a set, in their order.         *)
Only(msgs, S) ==
  LET at == { k \in DOMAIN msgs : msgs[k] \in S }
      Rank(k) == Cardinality({ j \in at : j <= k })
  IN [n \in 1..Cardinality(at) |-> msgs[CHOOSE k \in at : Rank(k) = n]]

(* The retained messages a subscription brings back.                       *)
Replayed(filter) ==
  LET kept == <<retained["connection"], retained["state"], retained["factsheet"]>>
  IN Only(kept, { m \in ToSet(kept) : m.topic # "none" /\ filter \in {"#", m.topic} })

----------------------------------------------------------------------------
(* The vehicle *)

StateFlaws ==
  CASE defect = "missing_state_fields"   -> {"required"}
    [] defect = "string_battery_charge"  -> {"types", "battery"}
    [] defect = "drop_recommended_fields" -> {"recommended"}
    [] defect = "drop_version"           -> {"header"}
    [] defect = "local_timestamps"       -> {"timestamp"}
    [] defect = "identity_mismatch"      -> {"identity"}
    [] defect = "serial_charset"         -> {"charset"}
    [] defect = "theta_out_of_range"     -> {"position"}
    [] defect = "battery_out_of_range"   -> {"battery"}
    [] defect = "battery_as_fraction"    -> {"fraction"}
    [] defect = "malformed_error_entry"  -> {"error"}
    [] defect = "bad_operating_mode"     -> {"mode"}
    [] defect = "bad_estop"              -> {"estop"}
    [] defect = "wrong_sequence_parity"  -> {"sequence"}
    [] defect = "string_order_update_id" -> {"ouid", "required"}
    [] defect = "action_without_type"    -> {"actionType"}
    [] OTHER                             -> {}

Version(topic) ==
  CASE defect = "future_major_version"                  -> "3.0.0"
    [] defect = "version_skew" /\ topic # "state"       -> "2.0.0"
    [] defect = "drop_version" /\ topic = "state"       -> "none"
    [] defect = "factsheet_no_header" /\ topic = "factsheet" -> "none"
    [] OTHER                                            -> "2.1.0"

Wrong(d, f) == IF defect = d THEN {f} ELSE {}

Announce ==
  IF defect = "no_connection" THEN <<>>
  ELSE << Published("connection", defect # "connection_not_retained",
            [ state   |-> IF defect = "bad_connection_state" THEN "CONNECTED" ELSE "ONLINE",
              version |-> Version("connection"),
              flaws   |-> Wrong("identity_mismatch", "identity") ]) >>

Factsheet ==
  IF defect = "no_factsheet" THEN <<>>
  ELSE << Published("factsheet", defect # "factsheet_not_retained",
            [ version |-> Version("factsheet"),
              flaws   |-> Wrong("identity_mismatch", "identity")
                          \cup Wrong("factsheet_no_header", "header")
                          \cup Wrong("factsheet_missing_blocks", "blocks")
                          \cup Wrong("factsheet_bad_enums", "typeSpec")
                          \cup Wrong("factsheet_incomplete_physical", "physical") ]) >>

(* Set the reported status of an action for a number of states.            *)
Stage(w, id, status, repeats) ==
  LET shown == IF defect = "custom_action_status" /\ status = "FINISHED" THEN "DONE" ELSE status
      kept  == IF defect = "duplicate_action_ids" THEN w.pending
               ELSE SelectSeq(w.pending, LAMBDA e : e.id # id)
  IN [w EXCEPT !.pending = Append(kept, [id |-> id, status |-> shown, left |-> repeats])]

StageError(w, type) ==
  [w EXCEPT !.errors = Append(@, [type |-> type, left |-> 3])]

(* The node action ends when the vehicle reaches its node.                 *)
FinishNode(w) ==
  LET done == [w EXCEPT !.node = FALSE] IN
  CASE ~w.node -> w
    [] w.node /\ defect = "action_regresses" ->
         Stage([done EXCEPT !.regress = 1], NodeAction, "FINISHED", 1)
    [] w.node /\ defect = "vanishing_actions" -> done
    [] OTHER -> Stage(done, NodeAction, "FINISHED", 3)

(* FINISHED, then RUNNING for one state, then FINISHED for good.           *)
Regress(w) ==
  CASE w.regress = 1 -> Stage([w EXCEPT !.regress = 2], NodeAction, "RUNNING", 1)
    [] w.regress = 2 -> Stage([w EXCEPT !.regress = 0], NodeAction, "FINISHED", 99)
    [] OTHER -> w

Drained(entries) ==
  SelectSeq([k \in DOMAIN entries |-> [entries[k] EXCEPT !.left = @ - 1]],
            LAMBDA e : e.left > 0)

StateBody(w) ==
  [ hid |-> w.hid, ts |-> w.clock, version |-> Version("state"), flaws |-> StateFlaws,
    oid |-> w.oid, ouid |-> w.ouid, horizon |-> TRUE,
    actions |-> [k \in DOMAIN w.pending |->
                   [id |-> w.pending[k].id, status |-> w.pending[k].status]],
    errors  |-> IF defect = "missing_state_fields" THEN {}
                ELSE { w.errors[k].type : k \in DOMAIN w.errors } ]

(* The orders in a sequence of commands that the vehicle may take.         *)
Orders(msgs) == { k \in DOMAIN msgs : msgs[k].kind = "order" /\ msgs[k].onMap }

(* A command is published to the vehicle. History: the orders no state has *)
(* shown since they were sent, and whether one was sent while another was. *)
Receive(w, m) ==
  LET order == { c.oid : c \in { d \in {m} : d.kind = "order" /\ d.onMap } } IN
  [w EXCEPT !.inbox = Append(@, m), !.unshown = @ \cup order,
            !.crossed = @ \/ (order # {} /\ w.unshown \ order # {})]

(* publish_state: nothing is built for a vehicle that never publishes one. *)
NextHeader(w) == [w EXCEPT !.hid = IF defect = "header_id_frozen" THEN 1 ELSE @ + 1]

AfterState(w) ==
  IF defect = "no_state" THEN w
  ELSE [NextHeader(w) EXCEPT !.pending = Drained(@), !.errors = Drained(@),
                            !.unshown = { w.inbox[k].oid : k \in Orders(w.inbox) }]

Visualization ==
  << Published("visualization", FALSE,
       [version |-> Version("visualization"),
        flaws   |-> Wrong("broken_visualization", "visualization")]) >>

StateOut(w) ==
  IF defect = "no_state" THEN <<>>
  ELSE << Published(IF defect = "bad_topic_scheme" THEN "offtopic" ELSE "state",
                    defect = "retained_state", StateBody(NextHeader(w))) >>
       \o (IF defect = "malformed_json" THEN <<Published("junk", FALSE, "junk")>> ELSE <<>>)
       \o (IF defect = "extra_subtopic" THEN <<Published("telemetry", FALSE, "any")>> ELSE <<>>)
       \o Visualization

(* One tick of the vehicle, or of the time before the tester connects.     *)
Tick ==
  /\ t.left > 0
  /\ v.inbox = <<>> \/ (t.left > 1 /\ v.late < MaxLate)
  /\ LET back == defect = "timestamps_go_backwards" /\ v.ticks % 2 = 1
         w == FinishNode(Regress([v EXCEPT
                !.ticks = @ + 1,
                !.clock = IF back THEN @ - 3 ELSE @ + 1,
                !.late  = @ + (IF v.inbox = <<>> THEN 0 ELSE 1)]))
     IN /\ v' = AfterState(w)
        /\ Deliver((IF v.ticks = 0 THEN Announce ELSE <<>>) \o StateOut(w), t.left - 1)
  /\ UNCHANGED <<defect, o, report>>

(* An order for nodes of its map that is not stale is adopted; a vehicle   *)
(* that is already at the node ends the node action at once (but not the   *)
(* one that lets it regress: that regression would never be on the wire).  *)
Ignored(w, m) ==
  \/ defect = "ignore_orders"
  \/ defect = "ignore_order_updates" /\ m.oid = w.oid /\ m.ouid > w.ouid

Stale(w, m) ==
  m.oid = w.oid /\ m.ouid <= w.ouid /\ defect # "accept_stale_order"

Adopt(w, m, there) ==
  LET adopted == [w EXCEPT !.oid = m.oid, !.ouid = m.ouid, !.node = @ \/ m.action]
      staged  == IF ~m.action THEN adopted
                 ELSE Stage(adopted, NodeAction, "RUNNING",
                            IF defect = "vanishing_actions" THEN 2 ELSE 99)
  IN IF there THEN FinishNode(staged) ELSE staged

Order(w, m, there) ==
  IF Ignored(w, m) THEN w
  ELSE IF Stale(w, m)
       THEN IF defect = "no_order_update_error" THEN w ELSE StageError(w, "orderUpdateError")
  ELSE IF ~m.onMap /\ defect # "adopt_invalid_order" THEN StageError(w, "validationError")
  ELSE Adopt(w, m, there)

(* An instant action: the vehicle after it and what it publishes.          *)
Unanswered(m) ==
  \/ defect \in {"ignore_stateRequest", "ignore_factsheetRequest",
                 "ignore_cancelOrder", "ignore_initPosition"}
     /\ m.type = IgnoredType[defect]
  \/ defect = "silent_unknown_action" /\ m.type = "unsupported"

Rejects(m) == m.type = "unsupported" /\ defect # "finish_unknown_action"

Acknowledge(w, m) == Stage(w, m.id, IF Rejects(m) THEN "FAILED" ELSE "FINISHED", 3)

CancelNode(w) ==
  IF w.node THEN Stage([w EXCEPT !.node = FALSE], NodeAction, "FAILED", 3) ELSE w

Instant(w, m) ==
  LET acked == Acknowledge(IF m.type = "cancelOrder" THEN CancelNode(w) ELSE w, m) IN
  IF Unanswered(m) THEN <<w, <<>>>>
  ELSE IF m.type = "stateRequest" THEN <<AfterState(acked), StateOut(acked)>>
  ELSE IF m.type = "factsheetRequest" THEN <<acked, Factsheet>>
  ELSE <<acked, <<>>>>

Handle ==
  /\ v.inbox # <<>>
  /\ LET m == Head(v.inbox)
         w == [v EXCEPT !.inbox = Tail(@)]
     IN \/ /\ m.kind = "order"
           /\ \E there \in IF defect = "action_regresses" THEN {FALSE} ELSE BOOLEAN :
                v' = Order(w, m, there)
           /\ UNCHANGED <<retained, t>>
        \/ /\ m.kind = "instant"
           /\ v' = Instant(w, m)[1]
           /\ Deliver(Instant(w, m)[2], t.left)
  /\ UNCHANGED <<defect, o, report>>

----------------------------------------------------------------------------
(* The evidence: Collector.feed routes a message to the vehicle's record   *)
(* by its topic; a topic of the wrong depth stays unrouted.                *)

Bucket == [state |-> "states", connection |-> "connections", factsheet |-> "factsheets",
           visualization |-> "visualizations"]

Counter == [junk |-> "malformed", command |-> "commands", telemetry |-> "others"]

Feed(ob, m) ==
  IF m.topic \in DOMAIN Bucket THEN [ob EXCEPT ![Bucket[m.topic]] = Append(@, m.body)]
  ELSE IF m.topic \in DOMAIN Counter THEN [ob EXCEPT ![Counter[m.topic]] = @ + 1]
  ELSE ob

FeedAll(ob, msgs) ==
  LET fed[n \in 0..Len(msgs)] == IF n = 0 THEN ob ELSE Feed(fed[n - 1], msgs[n])
  IN fed[Len(msgs)]

\* mutant: the retained copies are fed like live messages
LiveAll(msgs) == msgs

Live(msgs) == Only(msgs, { m \in ToSet(msgs) : ~m.retain })

(* attribute_offtopic: an unrouted topic that carries the serial of a      *)
(* vehicle that was discovered is charged to it.                           *)
OfftopicOf(consumed) == Some(consumed, LAMBDA m : m.topic = "offtopic")

(* capture.build keeps what was consumed, the probes and what the replay   *)
(* cannot rebuild; replay feeds the messages again.                        *)
NewObservation(mode) ==
  [ states |-> <<>>, connections |-> <<>>, factsheets |-> <<>>, visualizations |-> <<>>,
    malformed |-> 0, commands |-> 0, others |-> 0, offtopic |-> FALSE,
    badMajor |-> defect = "bad_major_segment",
    probes |-> <<>>, retain |-> {}, retainProbed |-> FALSE,
    active |-> mode.active, willsObservable |-> mode.wills,
    wills |-> IF defect = "no_lastwill" THEN {} ELSE {"CONNECTIONBROKEN"} ]

Replay(ob, consumed) ==
  FeedAll([ob EXCEPT !.states = <<>>, !.connections = <<>>, !.factsheets = <<>>,
                     !.visualizations = <<>>, !.malformed = 0, !.commands = 0, !.others = 0],
          consumed)

----------------------------------------------------------------------------
(* The tester. A wait ends when its ticks are over and the vehicle has     *)
(* answered; what was received is drained and the next step begins.        *)

Heard(ob) == Received(ob) > 0

Wait(step, inbox, consumed) ==
  t' = [step |-> step, left |-> Ticks[WaitKind(Steps[step])], inbox |-> inbox,
        consumed |-> consumed]

IndexOf(step) == CHOOSE k \in DOMAIN Steps : Steps[k] = step

(* Connect and discover: one subscription for each sub-topic of a vehicle, *)
(* and one for everything under the interface.                             *)
Discover ==
  /\ Phase = "off" /\ t.left = 0
  /\ Wait(IndexOf("discover"),
          Replayed("connection") \o Replayed("state") \o Replayed("factsheet")
            \o Replayed("visualization") \o Replayed("#"), <<>>)
  /\ UNCHANGED <<defect, v, retained, o, report>>

WaitOver == t.left = 0 /\ v.inbox = <<>>

Evidence == FeedAll(o, t.inbox)

\* mutant: what discovery received is not captured
ConsumedLater == IF Phase = "discover" THEN <<>> ELSE t.consumed \o t.inbox

Consumed == t.consumed \o t.inbox

Observe ==
  /\ Phase = "discover" /\ WaitOver
  /\ o' = Evidence
  /\ Wait(IndexOf("observe"), <<>>, Consumed)
  /\ UNCHANGED <<defect, v, retained, report>>

(* Probes follow one another. Without a state no node is known and the     *)
(* order probes are left out; without a vehicle, or in passive mode, all.  *)
NextProbe(ob) ==
  IF Phase = "observe" /\ ~(Heard(ob) /\ ob.active) THEN IndexOf("retain")
  ELSE IF Phase = "instant_factsheetRequest" /\ ob.states = <<>>
       THEN IndexOf("instant_cancelOrder")
  ELSE t.step + 1

OrderMessage(oid, ouid, onMap, action) ==
  [kind |-> "order", oid |-> oid, ouid |-> ouid, onMap |-> onMap, action |-> action]

ProbeMessage(name) ==
  CASE name = "order_new"     -> OrderMessage(OrderId, 0, TRUE, TRUE)
    [] name = "order_update"  -> OrderMessage(OrderId, 1, TRUE, FALSE)
    [] name = "order_stale"   -> OrderMessage(OrderId, 0, TRUE, FALSE)
    [] name = "order_invalid" -> OrderMessage(InvalidId, 0, FALSE, FALSE)
    [] OTHER -> [kind |-> "instant", id |-> name, type |-> ActionType[name]]

NoteProbe(name) ==
  LET m == ProbeMessage(name) IN
  [ at |-> Len(Evidence.states), fs |-> Len(Evidence.factsheets), id |-> name,
    oid  |-> IF m.kind = "order" THEN m.oid ELSE "",
    ouid |-> IF m.kind = "order" THEN m.ouid ELSE 0 ]

(* What the tester sends it also receives, for it subscribed to everything.*)
Command(m) == Published("command", FALSE, m)

Probe ==
  /\ Phase \in {"observe"} \cup ToSet(Probes) /\ WaitOver
  /\ LET next == NextProbe(Evidence)
         name == Steps[next]
     IN /\ name # "retain"
        /\ o' = [Evidence EXCEPT !.probes = (name :> NoteProbe(name)) @@ @]
        /\ v' = Receive(v, ProbeMessage(name))
        /\ Wait(next, <<Command(ProbeMessage(name))>>, Consumed)
  /\ UNCHANGED <<defect, retained, report>>

(* Subscribe once more: what comes back retained names a retained topic.   *)
RetainProbe ==
  /\ Phase \in {"observe"} \cup ToSet(Probes) /\ WaitOver
  /\ Steps[NextProbe(Evidence)] = "retain"
  /\ o' = [Evidence EXCEPT !.retainProbed = Heard(Evidence)]
  /\ Wait(IndexOf("retain"),
          IF Heard(Evidence)
          THEN Replayed("connection") \o Replayed("factsheet") \o Replayed("state")
          ELSE <<>>, Consumed)
  /\ UNCHANGED <<defect, v, retained, report>>

(* The retained copies are marked, the rest is evidence; then the whole    *)
(* catalogue is run. A vehicle nobody heard of has no report.              *)
ScoreRun ==
  /\ Phase = "retain" /\ WaitOver
  /\ LET consumed == t.consumed \o Live(t.inbox)
         marked   == { t.inbox[k].topic : k \in { j \in DOMAIN t.inbox : t.inbox[j].retain } }
         scored   == [FeedAll(o, Live(t.inbox)) EXCEPT
                        !.retain = marked, !.offtopic = OfftopicOf(consumed)]
     IN /\ o' = scored
        /\ t' = [step |-> IndexOf("scored"), left |-> 0, inbox |-> <<>>, consumed |-> consumed]
        /\ report' = IF Heard(scored) THEN RunChecks(scored) ELSE NoReport
  /\ UNCHANGED <<defect, v, retained>>

(* Another master control dispatches the vehicle.                          *)
Redispatch ==
  /\ Phase \notin {"off", "scored"}
  /\ defect = "none" /\ v.redispatches < MaxRedispatches
  /\ LET m == OrderMessage("other", 0, TRUE, FALSE) IN
     /\ v' = [Receive(v, m) EXCEPT !.redispatches = @ + 1]
     /\ t' = [t EXCEPT !.inbox = Append(@, Command(m))]
  /\ UNCHANGED <<defect, retained, o, report>>

(* A vehicle has announced itself and published its factsheet; one that is *)
(* already running has published a state as well.                          *)
RunInit ==
  \E p \in Vehicles :
    /\ defect = p[1]
    /\ v = [ hid |-> 0, clock |-> 0, ticks |-> 0, late |-> 0, oid |-> "", ouid |-> 0,
             node |-> FALSE, regress |-> 0, pending |-> <<>>, errors |-> <<>>,
             inbox |-> <<>>, redispatches |-> 0, unshown |-> {}, crossed |-> FALSE ]
    /\ retained = [topic \in Topics |->
         LET first == SelectSeq(Announce \o Factsheet, LAMBDA m : m.retain /\ m.topic = topic)
         IN IF first = <<>> THEN NoMessage ELSE first[1]]
    /\ t = [step |-> 1, left |-> IF p[2] THEN 1 ELSE 0, inbox |-> <<>>, consumed |-> <<>>]
    /\ o = NewObservation(p[3])
    /\ report = NoReport

RunNext ==
  \/ Tick \/ Handle \/ Redispatch
  \/ Discover \/ Observe \/ Probe \/ RetainProbe \/ ScoreRun

RunSpec == RunInit /\ [][RunNext]_runVars
----------------------------------------------------------------------------
Scored == report # NoReport

(* A vehicle with one defect is charged with exactly the findings that     *)
(* defect leads to: late answers, a tester that joins late and the         *)
(* duplicates of a retained topic add none and hide none. A sound one is   *)
(* charged with nothing, also when it is only watched and when another     *)
(* master dispatches it at any step of the run, with one exception: when   *)
(* the order of one master reaches it before a state has shown the order   *)
(* of the other (crossed), the tester does charge it (see SwitchIsNoFault).*)
(* Its grade is A, and if nobody else commands it, it is judged on every   *)
(* check.                                                                  *)
(* src: run_checks, ConformanceRunner.run, _moved_on, accept_update,       *)
(* reject_stale, grade                                                     *)
Charged == <<WithStatus(report, "fail"), WithStatus(report, "warn")>>
OneDefectOneFinding ==
  Scored /\ ~v.crossed =>
    /\ o.active /\ o.willsObservable => Charged = Expected[defect]
    /\ defect = "none" =>
         /\ Charged = <<{}, {}>> /\ Grade(report) = "A"
         /\ v.redispatches = 0 /\ o.active /\ o.willsObservable =>
              WithStatus(report, "skip") = {}

(* The documented promise, which the code does not keep: when a vehicle    *)
(* has moved to another master's order between the probe and the reply,    *)
(* the update is reported as unevaluable, and not as a failure.            *)
(* src: _switched_away, accept_update                                      *)
SwitchIsNoFault ==
  Scored /\ Probed(o, "order_update") /\ SwitchedAway(o, "order_update") =>
    AcceptUpdate(o) # "fail"

(* A captured session graded offline gives the report of the live run.     *)
(* src: capture.build, capture.replay                                      *)
ReplayReproducesReport == Scored => report = RunChecks(Replay(o, t.consumed))
============================================================================
