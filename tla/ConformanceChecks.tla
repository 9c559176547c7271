------------------------- MODULE ConformanceChecks -------------------------
(***************************************************************************)
(* The check battery of the conformance tester and the scoring of its      *)
(* results: pure operators over an Observation, the evidence one run       *)
(* collected about one vehicle.                                            *)
(*                                                                         *)
(*   tools/conformance/yantraconform/checks.py   CATALOGUE, run_checks     *)
(*   tools/conformance/yantraconform/spec.py     the validators            *)
(*   tools/conformance/yantraconform/model.py    score_checks              *)
(*                                                                         *)
(* A payload keeps the fields the checks relate to each other or to a      *)
(* probe. What a validator finds wrong inside a single payload (a missing  *)
(* field, a wrong type, an enum value) is a member of its set "flaws".     *)
(* An observation is a record                                              *)
(*   states, connections, factsheets, visualizations  sequences            *)
(*   malformed, commands, others   how many payloads did not parse, were   *)
(*                master control's own, had an undefined sub-topic         *)
(*   offtopic     a topic of the wrong depth names the vehicle's serial    *)
(*   badMajor     the majorVersion segment is not v<major>                 *)
(*   probes       probe name -> [at, fs, id, oid, ouid]                    *)
(*   retain       sub-topics a retained copy came back for                 *)
(*   retainProbed, active, willsObservable, wills                          *)
(***************************************************************************)
EXTENDS Integers, FiniteSets, SequencesExt

Terminal == {"FINISHED", "FAILED"}
Statuses == {"WAITING", "INITIALIZING", "RUNNING", "PAUSED"} \cup Terminal

Some(s, P(_)) == \E i \in DOMAIN s : P(s[i])

(* A check that is skipped without evidence and otherwise finds `level'    *)
(* when something is bad.                                                  *)
Verdict(seen, bad, level) == IF ~seen THEN "skip" ELSE IF bad THEN level ELSE "pass"

Fail(seen, bad) == Verdict(seen, bad, "fail")

Flawed(recs, f) == Some(recs, LAMBDA p : f \in p.flaws)

(* The checks that ask of every payload of a topic whether a validator     *)
(* finds anything: skip without a payload, fail on the first flaw.         *)
HeaderCheck(recs) == Fail(recs # <<>>, Flawed(recs, "header"))

IdentityCheck(recs) == Fail(recs # <<>>, Flawed(recs, "identity"))

----------------------------------------------------------------------------
(* Checks of the connection topic *)

RetainedCheck(o, topic, seen) ==
  CASE ~o.retainProbed          -> "skip"
    [] topic \in o.retain       -> "pass"
    [] ~seen                    -> "skip"
    [] OTHER                    -> "fail"

ConnectionChecks(o) ==
  LET seen == o.connections # <<>> IN
  [ published  |-> IF seen THEN "pass" ELSE "fail",
    state_enum |-> Fail(seen, Some(o.connections, LAMBDA c :
                     c.state \notin {"ONLINE", "OFFLINE", "CONNECTIONBROKEN"})),
    online     |-> Fail(seen, ~Some(o.connections, LAMBDA c : c.state = "ONLINE")),
    retained   |-> RetainedCheck(o, "connection", seen),
    identity   |-> IdentityCheck(o.connections),
    lastwill   |-> Fail(o.willsObservable, "CONNECTIONBROKEN" \notin o.wills) ]

----------------------------------------------------------------------------
(* Checks of the state topic *)

StateFieldChecks(o) ==
  LET seen == o.states # <<>> IN
  [ published          |-> IF seen THEN "pass" ELSE "fail",
    required_fields    |-> Fail(seen, Flawed(o.states, "required")),
    field_types        |-> Fail(seen, Flawed(o.states, "types")),
    recommended_fields |-> Verdict(seen, Flawed(o.states, "recommended"), "warn"),
    header             |-> HeaderCheck(o.states) ]

(* The loop keeps the previous headerId and asks each one to exceed it.    *)
HeaderIdMonotonic(o) ==
  Fail(Len(o.states) >= 2,
       \E i \in 1..(Len(o.states) - 1) : o.states[i + 1].hid <= o.states[i].hid)

TimestampChecks(o) ==
  [ timestamp_format    |-> Fail(o.states # <<>>, Flawed(o.states, "timestamp")),
    timestamp_monotonic |-> Fail(Len(o.states) >= 2,
        \E i \in 1..(Len(o.states) - 1) : o.states[i + 1].ts < o.states[i].ts) ]

(* serial_charset also judges the topic's own segment and so never skips.  *)
IdentityChecks(o) ==
  [ identity       |-> IdentityCheck(o.states),
    serial_charset |-> Fail(TRUE, Flawed(o.states, "charset")),
    version_field  |-> Fail(o.states # <<>>,
                            Some(o.states, LAMBDA p : p.version \notin {"2.0.0", "2.1.0"})) ]

NotRetained(o) == Fail(o.retainProbed, "state" \in o.retain)

(* The blocks agvPosition and safetyState are absent from a payload flawed *)
(* "recommended" and "required". Without states there are no errors, and   *)
(* errors_wellformed passes.                                               *)
StateBodyChecks(o) ==
  LET seen == o.states # <<>> IN
  [ agv_position      |-> Fail(Some(o.states, LAMBDA p : "recommended" \notin p.flaws),
                               Flawed(o.states, "position")),
    battery_range     |-> IF Flawed(o.states, "battery") THEN "fail"
                          ELSE Verdict(seen, Len(o.states) >= 3
                                 /\ \A i \in DOMAIN o.states : "fraction" \in o.states[i].flaws,
                               "warn"),
    errors_wellformed |-> Fail(TRUE, Flawed(o.states, "error")) ]

StateModeChecks(o) ==
  LET seen == o.states # <<>> IN
  [ operating_mode |-> Fail(seen, Flawed(o.states, "mode")),
    safety_state   |-> Fail(Some(o.states, LAMBDA p : "required" \notin p.flaws),
                            Flawed(o.states, "estop")),
    sequence_ids   |-> Fail(Some(o.states, LAMBDA p : p.horizon), Flawed(o.states, "sequence")) ]

----------------------------------------------------------------------------
(* Order handling. A response window starts at the probe's state index and *)
(* ends with the run.                                                      *)

Probed(o, name) == o.active /\ name \in DOMAIN o.probes

StatesAfter(o, name) ==
  SubSeq(o.states, o.probes[name].at + 1, Len(o.states))

\* mutant: any order counts as the one the tester sent
OrderStatesAny(o, name) == SelectSeq(StatesAfter(o, name), LAMBDA p : p.oid # "")

OrderStates(o, name) ==
  SelectSeq(StatesAfter(o, name), LAMBDA p : p.oid = o.probes[name].oid)

(* The last state before the probe that names an order, NoState if none.   *)
NoState == [oid |-> "", ouid |-> 0]

OrderBefore(o, name) ==
  LET before == SelectSeq(SubSeq(o.states, 1, o.probes[name].at),
                          LAMBDA p : p.oid # "")
  IN IF before = <<>> THEN NoState ELSE before[Len(before)]

MovedOn(o, name) ==
  OrderBefore(o, name).oid \notin {"", o.probes[name].oid}

SwitchedAway(o, name) ==
  Some(StatesAfter(o, name), LAMBDA p : p.oid \notin {"", o.probes[name].oid})

(* An orderUpdateId sent as a string equals no integer.                    *)
IntegerId(p) == "ouid" \notin p.flaws

AcceptNew(o) ==
  Fail(Probed(o, "order_new"), OrderStates(o, "order_new") = <<>>)

AcceptUpdate(o) ==
  LET P == "order_update"
      matched == OrderStates(o, P) IN
  CASE ~Probed(o, P) -> "skip"
    [] Probed(o, P) /\ matched = <<>> -> IF MovedOn(o, P) THEN "skip" ELSE "fail"
    [] Probed(o, P) /\ matched # <<>> ->
         IF Some(matched, LAMBDA p : IntegerId(p) /\ p.ouid = o.probes[P].ouid)
         THEN "pass"
         ELSE IF SwitchedAway(o, P) THEN "skip" ELSE "fail"

(* The replay is stale only for a vehicle that last reported the probe's   *)
(* order at a later update.                                                *)
WasStale(o) ==
  LET P == "order_stale"
      before == OrderBefore(o, P) IN
  /\ Probed(o, P)
  /\ before.oid = o.probes[P].oid
  /\ IntegerId(before)
  /\ before.ouid > o.probes[P].ouid

RejectStale(o) ==
  LET P == "order_stale"
      live == OrderBefore(o, P).ouid
  IN IF ~WasStale(o) THEN "skip"
     ELSE Fail(OrderStates(o, P) # <<>>,
               Some(OrderStates(o, P), LAMBDA p : IntegerId(p) /\ p.ouid < live))

Reported(o, name, types) ==
  Some(StatesAfter(o, name), LAMBDA p : p.errors \cap types # {})

RejectStaleReportsError(o) ==
  IF ~WasStale(o) THEN "skip"
  ELSE Fail(TRUE, ~Reported(o, "order_stale", {"orderUpdateError"}))

RejectInvalid(o) ==
  Fail(Probed(o, "order_invalid"), OrderStates(o, "order_invalid") # <<>>)

Echo(o) ==
  IF ~Probed(o, "order_new") THEN "skip"
  ELSE Fail(OrderStates(o, "order_new") # <<>>,
            ~(\A i \in DOMAIN OrderStates(o, "order_new") :
                IntegerId(OrderStates(o, "order_new")[i])))

----------------------------------------------------------------------------
(* The actionStates lifecycle *)

(* action_states(): the <<state index, status>> pairs of an action, in the *)
(* order they were read.                                                   *)
History(o, id) ==
  FlattenSeq([s \in DOMAIN o.states |->
    LET here == SelectSeq(o.states[s].actions, LAMBDA a : a.id = id)
    IN [k \in DOMAIN here |-> <<s, here[k].status>>]])

SeenIds(o) ==
  UNION { { o.states[s].actions[k].id : k \in DOMAIN o.states[s].actions }
          : s \in DOMAIN o.states }

(* An action whose last entry is not in the last state has disappeared.    *)
Vanished(o, id) ==
  LET h == History(o, id)
  IN Last(h)[1] < Len(o.states) /\ Last(h)[2] \notin Terminal

Regressed(o, id) ==
  LET h == History(o, id)
  IN \E i, j \in DOMAIN h : i < j /\ h[i][2] \in Terminal /\ h[j][2] \notin Terminal

ActionChecks(o) ==
  LET ids == SeenIds(o)
      seen == ids # {} IN
  [ status_enum       |-> Fail(seen, \E id \in ids :
                            Some(History(o, id), LAMBDA e : e[2] \notin Statuses)),
    required_fields   |-> Fail(seen, Flawed(o.states, "actionType")),
    terminal_reported |-> Fail(seen, \E id \in ids : Vanished(o, id)),
    unique_ids        |-> Fail(seen, \E s \in DOMAIN o.states :
                            \E j, k \in DOMAIN o.states[s].actions :
                              j # k /\ o.states[s].actions[j].id = o.states[s].actions[k].id),
    no_regression     |-> Fail(seen, \E id \in ids : Regressed(o, id)) ]

----------------------------------------------------------------------------
(* Instant actions: was the probe acknowledged, and with which status?     *)

InstantProbeResult(o, name, want, other) ==
  IF ~Probed(o, name) THEN "skip"
  ELSE LET h == History(o, o.probes[name].id) IN
       CASE h = <<>>                                    -> "fail"
         [] h # <<>> /\ Last(h)[2] = want               -> "pass"
         [] h # <<>> /\ Last(h)[2] \in Terminal \ {want} -> other
         [] OTHER                                       -> "fail"

(* A factsheet that arrived since the probe was sent.                      *)
FactsheetRequest(o) ==
  LET P == "instant_factsheetRequest"
      base == InstantProbeResult(o, P, "FINISHED", "warn") IN
  IF base = "skip" THEN "skip"
  ELSE LET answered == Len(o.factsheets) > o.probes[P].fs IN
       IF (base = "pass") # answered THEN "warn" ELSE base

InstantChecks(o) ==
  [ stateRequest     |-> InstantProbeResult(o, "instant_stateRequest", "FINISHED", "warn"),
    factsheetRequest |-> FactsheetRequest(o),
    cancelOrder      |-> InstantProbeResult(o, "instant_cancelOrder", "FINISHED", "warn"),
    initPosition     |-> InstantProbeResult(o, "instant_initPosition", "FINISHED", "warn"),
    unknown_rejected |-> InstantProbeResult(o, "instant_unknown", "FAILED", "fail") ]

----------------------------------------------------------------------------
(* Factsheet, visualization and protocol hygiene *)

LatestFlawed(recs, f) == recs # <<>> /\ f \in Last(recs).flaws

FactsheetChecks(o) ==
  LET fs == o.factsheets
      seen == fs # <<>> IN
  [ published           |-> IF seen THEN "pass" ELSE "fail",
    required_blocks     |-> Fail(seen, LatestFlawed(fs, "blocks")),
    type_specification  |-> Fail(seen, LatestFlawed(fs, "typeSpec")),
    physical_parameters |-> Fail(seen, LatestFlawed(fs, "physical")),
    header              |-> IF HeaderCheck(fs) # "pass" THEN HeaderCheck(fs)
                            ELSE IdentityCheck(fs),
    retained            |-> RetainedCheck(o, "factsheet", seen) ]

VisualizationCheck(o) ==
  Fail(o.visualizations # <<>>, Flawed(o.visualizations, "visualization"))

Versions(o) ==
  UNION { { recs[i].version : i \in DOMAIN recs } :
          recs \in {o.states, o.connections, o.factsheets, o.visualizations} } \ {"none"}

VersionReported(o) ==
  LET all == SelectSeq(o.states \o o.connections \o o.factsheets,
                       LAMBDA p : p.version # "none")
  IN IF all = <<>> THEN "none" ELSE all[1].version

Received(o) ==
  Len(o.states) + Len(o.connections) + Len(o.factsheets) + Len(o.visualizations)
  + o.malformed + o.commands + o.others

ProtocolChecks(o) ==
  [ topic_scheme          |-> Fail(Received(o) > 0 \/ o.offtopic, o.offtopic \/ o.others > 0),
    major_version_segment |-> Fail(TRUE, o.badMajor),
    version_consistency   |-> Fail(Versions(o) # {}, Cardinality(Versions(o)) > 1),
    json_valid            |-> Fail(Received(o) > 0, o.malformed > 0),
    supported_version     |-> Verdict(VersionReported(o) # "none",
                                VersionReported(o) \notin {"2.0.0", "2.1.0"}, "warn") ]

----------------------------------------------------------------------------
(* run_checks: the whole catalogue, one record of statuses per category *)

OrderChecks(o) ==
  [ accept_new                 |-> AcceptNew(o),
    accept_update              |-> AcceptUpdate(o),
    reject_stale               |-> RejectStale(o),
    reject_stale_reports_error |-> RejectStaleReportsError(o),
    reject_invalid             |-> RejectInvalid(o),
    echo                       |-> Echo(o) ]

StateChecks(o) ==
  StateFieldChecks(o) @@ TimestampChecks(o) @@ IdentityChecks(o) @@ StateBodyChecks(o)
  @@ StateModeChecks(o)
  @@ [header_id_monotonic |-> HeaderIdMonotonic(o), not_retained |-> NotRetained(o)]

RunChecks(o) ==
  [ connection    |-> ConnectionChecks(o),
    state         |-> StateChecks(o),
    order         |-> OrderChecks(o),
    actions       |-> ActionChecks(o),
    instant       |-> InstantChecks(o),
    factsheet     |-> FactsheetChecks(o),
    visualization |-> [wellformed |-> VisualizationCheck(o)],
    protocol      |-> ProtocolChecks(o) ]

Ids(r) == UNION { { <<cat, c>> : c \in DOMAIN r[cat] } : cat \in DOMAIN r }

WithStatus(r, status) == { id \in Ids(r) : r[id[1]][id[2]] = status }

----------------------------------------------------------------------------
(* Scoring: severities are weights, statuses credits; a failed critical or *)
(* major check caps the grade.                                             *)

Critical ==
  { <<"connection", "published">>, <<"connection", "state_enum">>, <<"state", "published">>,
    <<"state", "required_fields">>, <<"state", "identity">>, <<"order", "accept_new">>,
    <<"order", "reject_stale">>, <<"instant", "cancelOrder">>,
    <<"protocol", "topic_scheme">>, <<"protocol", "json_valid">> }

Minor ==
  { <<"connection", "lastwill">>, <<"state", "recommended_fields">>,
    <<"state", "timestamp_monotonic">>, <<"state", "serial_charset">>,
    <<"state", "not_retained">>, <<"state", "agv_position">>, <<"state", "battery_range">>,
    <<"state", "operating_mode">>, <<"state", "sequence_ids">>,
    <<"order", "reject_stale_reports_error">>, <<"actions", "unique_ids">>,
    <<"actions", "no_regression">>, <<"factsheet", "type_specification">>,
    <<"factsheet", "physical_parameters">>, <<"factsheet", "header">>,
    <<"factsheet", "retained">>, <<"visualization", "wellformed">>,
    <<"protocol", "version_consistency">> }

Info == { <<"protocol", "supported_version">> }

Weight(ids) ==
  LET major == ids \ (Critical \cup Minor \cup Info)
  IN 10 * Cardinality(ids \cap Critical) + 5 * Cardinality(major)
     + 2 * Cardinality(ids \cap Minor)

(* The score in tenths of a percent, rounded as the report rounds it.      *)
Score(r) ==
  LET possible == Weight(Ids(r) \ WithStatus(r, "skip"))
      earned2  == 2 * Weight(WithStatus(r, "pass")) + Weight(WithStatus(r, "warn"))
  IN IF possible = 0 THEN 0 ELSE (1000 * earned2 + possible) \div (2 * possible)

GradeFor(score) ==
  CASE score >= 950 -> "A"
    [] score >= 850 /\ score < 950 -> "B"
    [] score >= 700 /\ score < 850 -> "C"
    [] score >= 500 /\ score < 700 -> "D"
    [] OTHER -> "F"

Grade(r) ==
  LET base == GradeFor(Score(r))
      failed == WithStatus(r, "fail") IN
  CASE failed \cap Critical # {} -> "F"
    [] failed \cap Critical = {} /\ failed \ (Minor \cup Info) # {} /\ base = "A" -> "B"
    [] OTHER -> base
============================================================================
