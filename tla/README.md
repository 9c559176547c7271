# Verification of yantrafleet

TLA+ models of yantrafleet, the configurations that check them with TLC, and theorems about
them that TLAPS checks. Paths such as `sim/yantrasim/sim.py` are relative to the root of the
repository's source tree.

1. [The system](#1-the-system): inventory of its parts
2. [The modules](#2-the-modules): what each models, and how it maps to the code
3. [The runs](#3-the-runs): what is checked, on which instances, and what it shows
4. [Fairness](#4-fairness)
5. [The theorems](#5-the-theorems)
6. [What the models found](#6-what-the-models-found)
7. [What is not modelled](#7-what-is-not-modelled)
8. [What is left](#8-what-is-left)

## 1. The system

yantrafleet watches and commands a warehouse fleet. A Postgres database behind PostgREST
(Supabase) is the only thing the processes share; robots talk VDA 5050 over MQTT.

```
  console ---- commands: pending -> approved ---->  commands table
     ^                                                 |      ^
     | reads                               GET approved|      | PATCH executed / failed
  robots, alerts, incidents,  <--- state ---  connector/yantrabridge
  missions, findings tables                        |      ^
     ^        ^                    instantActions  v      |  state (actionStates)
     |        |                                  MQTT broker
  yantradetect  yantranotify                       |      ^
  (incidents)   (Slack, Teams, ...)                v      |
                                              sim/yantrasim  (or real robots)
```

| Part | State it keeps | Operations | Interacts through | What is hard |
|---|---|---|---|---|
| `connector/yantrabridge` commands (`CommandPublisher`) | published-and-unacked ids, closed ids, robot table (memory only) | poll the approved rows and publish; close rows from actionStates | commands table, MQTT | two threads over shared dictionaries, restart, QoS 0 acks, failing PATCHes |
| `connector/yantrabridge` ingest (`sources`, `translate`, `sink`, `importer`) | serials seen, alert deduplicator | state message to robots, telemetry and alert rows | MQTT or files, tables | alert dedup across reconnects; mostly translation |
| `connector/yantrabridge` `mqtt_runtime` | the current MQTT source and its parameters | swap the source when app_config changes | broker, app_config | new source is started before the old one is stopped |
| `sim/yantrasim` robots (`sim`, `commands`, `vda`, `world`) | per robot: status, resume status, path, task, action, fault, order, staged verdicts | tick, operator command, initPosition, inbound order, state report | transports | protocol sequences: holds over faults, orders over own routes |
| `sim/yantrasim` missions | missions, crew of each | spawn, credit a task, complete, prune | robots, missions table | crews bound to missions that no longer progress |
| `sim/yantrasim/transports` | MQTT: inbox, ids already seen; Supabase: none | publish, poll commands and orders | broker or tables | duplicates, lost answers |
| `detector/yantradetect` incidents (`engine`, `sink`) | per robot: streaks, open incident, recently resolved one | seed, observe a poll, write actions | robots, incidents tables | lost writes, restart between observing and writing, settings changed mid-streak |
| `detector/yantradetect` maintenance | open finding per robot and component | seed, observe a telemetry window, write actions | robot_telemetry, maintenance_findings | as above; the metrics are numeric |
| `notifier/yantranotify` | seen keys and their state file; per channel a queue and a breaker | poll, flush, announce, save | alerts, incidents; webhooks | lost answers, full queue, crash between sending and saving |
| `console` | view of the tables, leader mode | queue and decide commands, elect a writer, sync | commands, fleet_meta | stale lists, unguarded election |
| `supabase` (SQL 0001-0018) | tables, policies, RPCs | `request_command`, `decide_command`, sandboxes, share links | every part | the gate's state machine, guarded and unguarded paths to it |
| `core/yantracore` | polled settings, site | `TablePoller`, `SiteSync`, `normalize` | app_config | values change while an operation uses them |
| `copilot/sarathi` | sessions of a request | answer through a model, a fallback and an offline tier | tables (read), LLM | tier fallback; read only |
| `ops/yantraops` orchestrator | child processes, state file | start, run, reap, stop, wait until ready | processes | children that die, stop during start |
| `ops/yantraops` sandbox | registry file, sandbox processes | start, sweep, stop | SQL RPCs, processes | two writers of the file, pids that are reused |
| `ops/yantraops` migrate | tracking table | plan, apply | Postgres | partial sequences, drift of applied files |
| `tools/conformance` | a captured session | record, check against VDA 5050, report | MQTT | pure checks of a trace |
| `academy`, `marketing`, `deploy`, `docker`, `scripts`, `docs`, `e2e` | browser storage; none | - | - | no protocol of their own |

Correctness, part by part, in the order of weight:

* **Command gate.** A robot carries out only what a human approved for its site; a row says what
  happened; a command is not carried out twice by one life of an executor; what is approved is
  eventually closed.
* **Robot.** An operator's hold lasts until an operator ends it; a faulted robot does not work;
  an action that master control saw RUNNING ends with a verdict that never changes; a charging
  robot stands at a charger.
* **Incidents.** One open incident per robot, opened and resolved only on confirmed evidence; the
  table converges to the fleet's state.
* **Notifications.** Nothing taken in is lost or repeated, but for stated causes; order is kept;
  queues drain.

## 2. The modules

A module models one component; `BridgeProcess`, `SimulatorProcess` and `OperatorTools` put together
those that are parts of one program, `CommandedRobot` and `AlarmPipeline` those that work through each other; the `MC...` modules give small instances, and `...Proofs` hold the
theorems. Modules never model wording, layout or physical quantities.

| Module | Component | Environment it assumes |
|---|---|---|
| `CommandGate` | what the commands table promises | - |
| `CommandBridge` | `CommandPublisher`, `MqttTransport`, console | lost messages, failing PATCHes, restarts, stale decisions, lenient answers |
| `DirectExecutor` | `SupabaseTransport` without a bridge | failing PATCHes, a crash, a backend that ignores a filter or omits a column |
| `BridgeIngest` | `on_state`, `AlertDeduper`, `MqttConnectionManager` | two brokers, failing writes, live settings |
| `RobotLifecycle` | `Robot`, `FleetSim.tick`, `apply_command`, `apply_order` | operators, faults, late and repeated orders |
| `BridgeProcess` | `CommandBridge` and `BridgeIngest` as one process | that of both |
| `CommandedRobot` | `CommandBridge` with a `RobotLifecycle` at its end | that of both |
| `SimulatorProcess` | `DirectExecutor` and `FleetMissions` in one simulator | that of both |
| `OperatorTools` | the tools of `yantraops` | that of each |
| `StateReport` | `build_state`, `robot_row`, `translate_state` | that of `RobotLifecycle` |
| `FleetMissions` | missions of `FleetSim` | orders, abandoned tasks, failing posts |
| `IncidentDetector` | `IncidentEngine`, its sink | failing polls, writes and seeds, restart, live settings |
| `Notifier` | `Notifier`, `ReliableChannel` | failing attempts, lost answers, a crash |
| `AlarmPipeline` | detector and notifier over the tables | both |
| `Migrations` | `yantraops migrate` | several runners, edited files, lost answers |
| `FleetStack` | `yantraops up` | starts that fail, children that die, signals |
| `DemoSandbox`, `SandboxDoor`, `FloorPlan` | `sandbox.py`, `sandbox_http.py` | a killed door, lost answers, dying simulators |
| `ConformanceChecks`, `ConformanceRun`, `ConformanceCases` | `yantraconform` | a vehicle with one defect, slow, or dispatched by others |

### CommandGate, CommandBridge: the operator command loop

`CommandGate` is the abstract promise of the commands table: a row is requested, approved or
rejected once, and an approved one is closed once as executed or failed
(`supabase/0002_commands.sql`, `0007_rbac.sql`; `transports/supabase.py` states the same order).

`CommandBridge` is the loop that implements it over VDA 5050:

| Model | Code |
|---|---|
| `row` | status column of the commands table |
| `bpend`, `bdone`, `known` | `_pending`, `_done` and the robot table of `CommandPublisher` |
| `batch`, `PollFetch`, `PollStep` | rows of one GET, one `poll_once`; `PollSkip`, `PollUnsupported`, `PollUnroutable`, `PollRaise`, `PollPublish`, `PollRegister` are its branches, one step per network call, so that the MQTT thread may run in between |
| `ack`, `HandleState`, `AckStep` | the state message on the MQTT thread and its loop over actionStates |
| `down`, `up` | instantActions and state topics: loss up to a budget, duplicates arise from republication |
| `incoming`, `seen`, `left` | inbox of `MqttTransport`, its ids already seen, the remaining repeats of a result |
| `SiteOk`, `BackendFilters`, `BackendColumns` | `_site_ok` on each answer, which the backend may not have held to the site, and which may lack the `site_id` column; without the column every row passes (`commands.py:393-400`). `unsited` is history: rows of other sites in answers that had neither |
| `Request`, `Decide` | console and SQL; the anonymous console PATCHes by id from a list that may be stale, so that up to `MaxStalePatches` decisions meet a row that is decided already, or closed (`Decidable`). `overwritten` is history: those rows |
| `BridgeRestart`, `SimRestart` | memory of the process is lost |

A PATCH can succeed, fail, or succeed and lose its answer (`PatchOutcomes`). Left out: the counter
of message headers, `publish_order`, and an executor with `site = *`.

### DirectExecutor: the simulator as its own executor

| Model | Code (`transports/supabase.py`, `__main__.py`) |
|---|---|
| `Poll`, `Admit`, `SiteOk` | the GET of `poll_commands`, oldest first, and `_site_ok` on what it returns; `filters` says whether the backend honours the filter, `columns` whether its rows have a `site_id`, without which they all pass (`supabase.py:213-220`) |
| `batch`, `Apply`, `Patch` | the loop of `main` over the rows: apply to the robot, PATCH the outcome by id |
| `PatchFails`, `Dies` | the PATCH raises and is logged; the process dies between robot and table |

The module holds no memory of what was applied, because the code has none: `AppliedAsApproved`
allows one more application per outcome that did not reach the table, and `KeepsGate` claims the
steps of `CommandGate` up to the first such loss. What a robot makes of a command is a verdict
(see RobotLifecycle). Left out: `poll_orders`, an executor with `site = *`, the upserts of the snapshot.

### BridgeIngest: from a state message to rows and alerts

| Model | Code |
|---|---|
| `source`, `Receive`, `Feed`, `Push`, `PushFails` | a paho thread per MQTT source: `_handle_message`, `AlertDeduper.process`, `SupabaseSink.push`; the ledger is looked up and updated in two steps, so that two threads may overlap |
| `active`, `Reported`, `Retired` | the ledger, conditions a message reports and retires; the battery has a hysteresis |
| `SetThreshold` | `LiveMqttConfig.poll_and_apply`, at any moment of a feed |
| `Reconnect`, `Retire` | `MqttConnectionManager.apply`: the new source connects first, the old one is stopped after it, and waits for the callback of its thread |

One vehicle: ledger, row and alert ids are per serial. `fed` and `stale` are history: the messages
in the order they were fed with the threshold of that moment, and whether some thread updated the
ledger from a view that another had changed. Taking a message and looking up the ledger are one
step, and so are the two writes of `push`: another thread cannot tell the difference. Left out: connection
messages, the contents of rows (see StateReport), two sources that share a client id on one broker.

`BridgeProcess` runs it beside the command loop. The two halves share the MQTT connection and no
other state: `on_state` hands the message to `CommandPublisher.handle_state` before it feeds the translator
(`__main__.py:284-286`); the step of `handle_state` in `CommandBridge` takes any message that has arrived,
without regard to what the ingest does with it. Connections that fail or drop are part of each half.

### RobotLifecycle: one simulated robot

The record `r` is `Robot`.

| Model | Code |
|---|---|
| `FaultStarts`, `Tick` (`TickFault`, `TickHeld`, `TickCharging`, `TickDivert`, `TickIdle`, `TickAssign`, `TickWorking`, `TickFinish`, `TickDrive`) | one `FleetSim.tick` of the robot, one disjunct per branch |
| `Pause`, `Estop`, `Resume`, `CancelOrder`, `Charge` | `apply_command` |
| `Reposition` | `_handle_init_position` of the MQTT transport |
| `AdoptOrder`, `RejectOrder` in `ReceiveOrder` | `apply_order`, for the next order of master control or, with `Redelivery`, an older one that arrives again |
| `Report`, `Published`, `StateRequest` | `build_state` with the staged verdicts, after a tick or on request |

Distances are dropped: a tick moves a robot any number of nodes of its path, a tick may finish
work or not, the battery is one of three bands, and random choices are nondeterministic.
One robot stands for the fleet, because robots influence each other only through missions.
`reported` is what master control last saw of each action, a history variable.

### CommandedRobot: from the console to the robot

| Model | Code (`sim/yantrasim/__main__.py`, `transports/mqtt.py`, `commands.py`) |
|---|---|
| `ApplyNext`, `Obey` | `poll_commands` with one action: `apply_command` for the robot (`Does`, `Already`, `Refuses` are its branches), and its answer as the result to report |
| `PassOn` | the same for another robot, which may answer anything |
| `RobotTick`, `RobotFault`, `Message` | a tick, and the one state message in which the robot's actions and the results of its commands both ride |
| `MasterControl` | `poll_orders`, cancelOrder and initPosition |
| `Reborn` | the simulator starts again: new robots, an empty list of seen ids |
| `Elsewhere` | the rest of the loop: console, bridge, wire |

In `CommandBridge` a command has some verdict; here the verdict is what the robot's state makes it, and
the command changes the robot. The module adds no rule of its own, only what joins the two, and the
histories `carried` (commands of this robot that it carried out in this life of the simulator) and `struck`.

### StateReport: one message, two rows

`StateMessage` is what `build_state` and `attach_pending` make of a robot: its errors in their order, the
staged verdicts merged into the actionStates, the stop, hold, charge and motion flags. `RobotRow` is the row
the simulator writes itself (`translate.py`), `TranslateState` the row the bridge derives
(`connector/yantrabridge/translate.py`). Both keep the status and the error named in `fault_msg`; positions,
health, task and counters are left out. The module extends RobotLifecycle, so that every message is
one of a robot that operators, faults and orders have brought there.

### FleetMissions: crews and credits

| Model | Code (`sim.py`) |
|---|---|
| `phase`, `turn`, `Stay`, `Assign`, `Finish` | the robots step one after the other within a tick: `_step_robot`, `_assign_task`; `Tag` is the mission a task is assigned for, `Credit` the mission a finished task counts for |
| `EndMissions`, `Spawn`, `Prune` | `_mission_upkeep`: a completed mission frees its crew, new ones are crewed from free robots up to the target, those long done leave the working set |
| `Post`, `PostFails` | the snapshot's rows of the missions table |
| `Order`, `Abandon` | between two ticks an order takes a robot out of its mission; a command makes it drop its task, whose tag may stay |

How a robot drives, faults and charges is RobotLifecycle's; here it takes a tick or stays. Left
out: names, destinations, and the reuse of ids by a simulator that starts again.

### IncidentDetector, Notifier, AlarmPipeline: from a fault to a human

`IncidentDetector` keeps the dictionaries of `IncidentEngine` as one record per robot: number of
the open row, the row resolved recently and its age in polls, the streaks. `Poll` is one
`observe` of all robots, `Write` one request of the sink (which may fail), `FailedPoll` a failed
GET, `Retune` the live settings, `Restart` a crash at any point with a seed that may fail.
Time is counted in polls; rows of a robot are numbered in opening order, so two incidents never
share an id (the hash of `engine.py:60` has 8000 values).

`Notifier` is `Notifier.dispatch` over `ReliableChannel`: `Fetch`, `Flush`, `Announce`, `Send`
(three cases: breaker open, queue first, direct), `Save`, `PauseOver` and `Crash`. A delivery
whose answer is lost counts as failed and is repeated. Channels share only the seen keys, so one
channel stands for all; the three tries of an attempt are one step; a poll's messages go out in any
order; the state file is written whole, left alone, or emptied.

`AlarmPipeline` composes both over the tables: the notifier's `alarms` are the open incidents
of the detector and the unacknowledged alerts, instantiated with `INSTANCE Notifier WITH`.

### Migrations: `yantraops migrate`

| Model | Code (`migrate.py`) |
|---|---|
| `Connect`, `Plan` | `run_migrate` reads the tracking table, then the files; `Action` is `plan_migrations` for one file: apply, skip, reapply with `--force`, or report drift |
| `Apply`, `Commit` | one transaction per file: its SQL and its tracking row |
| `Refused`, `CommitUnanswered`, `Finish` | the first failure ends the run; a commit whose answer is lost looks like one; a dry run or a kill ends it anywhere |
| `Edit` | a file changes on disk, at any moment |

A file is its number, its content its checksum. `schema` is what the database ran last. Files that
are added between two runs are not modelled; an opt-in file that is applied later runs after files
with higher numbers, and `SchemaIsPrefix` leaves opt-in files out for that reason.

### FleetStack: `yantraops up`

| Model | Code (`orchestrator.py`, `broker.py`, `__main__.py`) |
|---|---|
| `StartBackend`, `StartBroker`, `Spawn`, `WriteState` | `FleetStack.start`, in its order; the `...Fails` actions are the exceptions it catches |
| `BuildRaises` | `build_docroot` raises after its `mkdtemp`: the directory is there, and `self.docroot` is not assigned (`docroot = "stray"`) |
| `Ready`, `StopAsked` | `wait_ready`, `run` |
| `Terminate`, `Wait`, `StopBroker`, `StopBackend`, `CleanUp` | `stop`, one child at a time, the last one first |
| `ChildExits`, `Killed`, `Escapes` | a child dies by itself; a signal outside the handlers of `run`, or an exception outside the `try` of `start`, ends the process where it is (`cut`) |

### DemoSandbox, SandboxDoor, FloorPlan: the demo sandboxes of a box

| Model | Code (`sandbox.py`, `sandbox_http.py`) |
|---|---|
| `Request`, `EnterMint` | admission at the door, and the lock around `mint_sandbox` |
| `SweepLoad`, `SweepStop`, `Write`, `Move`, `MoveRaises` | the registry: it is read, simulators are stopped, a temporary file is written and moved over it; the temporary path is one for all, so the move of the slower writer raises |
| `Count`, `MintRpc`, `Start`, `Add`, `EndMint` | `mint_sandbox`: local ceiling, the database's own, seeding and start, the record, and the session given back on failure |
| `WakeSweeper`, `Reap`, `DropReaped` | `_sweeper`, `run_sandbox_reap` |
| `Deadline`, `Dies`, `Leave`, `CrashDoor` | `SandboxDriver.run`, a dying simulator, a visitor who leaves, a door that is killed |

`lost` and `orphaned` are history: sites whose record a save dropped, and sites whose mint was given
up without ending them. The RPCs of `0009_demo_sandbox.sql` are external, one transaction each. A pid is used once.

`SandboxDoor` is the quota table (`RateLimiter.allow` with its windows and the eviction of old ones)
and the cache of `/api/demo/limits`, which several threads fill. `FloorPlan` is the pure part of
`park_fleet` and `adopt_live_fleet` as operators; `MCYantraops` evaluates its three properties on a
floor of two by three nodes as `ASSUME FloorPlanChecked`.

### ConformanceChecks, ConformanceRun, ConformanceCases: the VDA 5050 tester

`ConformanceChecks` is the catalogue of `checks.py` over an Observation, each check giving pass, fail, warn or
skip, with scoring and grade. `ConformanceRun` is one run of `ConformanceRunner`: `Discover`, `Observe`,
`Probe` (nine of them), `RetainProbe`, `ScoreRun`; the evidence (`Feed`, `Live`) with the retained
copies the broker sends; the capture (`Consumed`) and its `Replay`; and the vehicle, which is the
`FakeRobot` of the tester's tests with at most one of their defects (`Tick`, `Handle`). `Redispatch` is another
master control, which dispatches a sound vehicle up to `MaxRedispatches` times, at any step of the run. `Receive` is a command on its way
to the vehicle; its histories are `unshown`, the orders no state has shown since they were sent, and `crossed`: an order
of one master was sent while one of the other was still unshown. `ConformanceCases` holds the verdicts the tests expect of each of the 52 defects.
The validators that look into one payload are flags of the payload.

## 3. The runs

Five runs check what holds, seven run into what a comment of the code says and the code does not do.
A passing run exhausts its state space. Where it has several instances, the first steps choose one
(`which`), and the variables of the others rest: an instance is a question of its own, and its
properties are those of its module. Each property has a mutant: a changed definition, kept beside the one it
replaces and marked `mutant`, under which the same run fails.

| Run | Instance | Bounds | States | Shows |
|---|---|---|---|---|
| `bridge` | `loop` | 3 rows, 2 robots; one row of a foreign site, one verb unsupported, robots unknown at first, backend that may ignore the filter and omit the column, 1 stale decision; GET limit 2, each result on 1 message; 2 failures, 1 lost message, 1 restart of each process | 364,000 | `OnlyApprovedIsApplied`, `RowTellsOutcome`, `AppliedOncePerLife`, `PublishesOnlyApproved`; `ImplementsGate`: the loop refines `CommandGate` while the simulator lives |
| | `ingest` | 1 error, 2 charges, 2 thresholds, hysteresis 1; 2 brokers, 3 messages, 2 changes of settings | 444,000 | `EveryOccurrenceAlerted`, `SourceInUse` |
| | `commanded` | an estop and a resume for one robot, faults of two ticks, one order, cancelOrder; a fault, a restart of the bridge or one of the simulator | 129,000 | `HoldEndsByApproval`, `StopHolds`, and the promises of `loop` at a robot that refuses |
| `commands` | `loop` | 2 rows for one robot, 2 repeats, 1 failure, no restart | 6,200 | `LoopIsClosed` |
| | `direct` | 4 rows, two of them of the site; each kind of backend; limit 2, 1 failure | 25,000 | `AppliedAsApproved`, `KeepsGate`, `ApprovedIsClosed` |
| | `missions` | 2 robots, 2 missions of 2 tasks, crews of 1 or 2, linger 1; 1 upset, 1 failed post | 23,000 | `CreditsOwnWork`, `CompletionIsPosted`, `CrewedMissionEnds` |
| | `orders` | a robot on 3 nodes, orders late, lost, redelivered; cancelOrder, charge | 6,800 | `RunningIsResolved` |
| `robots` | - | 3 nodes; every command, initPosition, a fatal fault and one that stops the robot, three orders of which one overtook another | 1,170,000 | `RowsAgree`, `StatusAdvancesOnly`, `ProgressKept`, `ActionAccounted` |
| `alarms` | `detector` | 1 robot, 4 status changes; two of 1 failed poll, 1 lost write, 1 restart with a seed that may fail, 1 change of settings | 220,000 | `OneOpenPerRobot`, `OpensConfirmed`, `ResolvesConfirmed`, `TableConverges` |
| | `pipeline` | 1 robot, 1 status change, thresholds of one poll; 1 alert, queue of 1, breaker after 2, 2 failed attempts, 1 lost answer, 1 crash, with and without a state file | 277,000 | `NoLoss`, `AnnouncedOnce`, `InOrder`, `AlarmIsAnnounced` (`BadIsAnnounced` of `AlarmPipeline`) |
| `yantraops` | `migrate` | 3 files, one opt-in, two edited; 2 contents, 2 runners | 78,000 | `SchemaIsPrefix`, `RunsOnceAlone` |
| | `mints` | 2 sites, box for 1, database for 2; 2 threads and the sweeper; lifetime 1 of 2 ticks | 105,000 | `CeilingKept`, `NoSlotLeaked`, `SimulatorsStop` |
| | `reaps` | the same with 1 thread and the reaper | 51,000 | the same |
| | `door` | 2 visitors, quota 2 in a window of 2 ticks, a table of 1; 2 threads, cache for 1 tick | 450,000 | `QuotaKept`, `CacheIsFresh` |
| | `up` | 4 services, fake backend, embedded broker | 760 | `ServersOutliveClients`, `NothingLeftBehind` |
| | `conform` | each of the 52 defects and none, vehicle fresh or already running, probing or watching, one tick of lateness; the sound ones dispatched once by another master, at any step | 51,000 | `OneDefectOneFinding`, of a sound vehicle too; `ReplayReproducesReport` |
| `bridge_starved` | | 3 commands, GET limit 2, 2 lost messages | | fails `ApprovedIsPublished` |
| `robot_hold_lost` | | one fault on a paused robot | | fails `HoldIsKept` |
| `robot_fault_drops` | | one fault on a robot at an action | | fails `ActionTerminates` |
| `detector_lost` | | one lost write | | fails `RederivesState` |
| `conformance_retained` | | a running vehicle that retains its state | | fails `OneDefectOneFinding` |
| `conformance_switched` | | a sound vehicle, one tick of lateness, two orders by another master | | fails `SwitchIsNoFault` |
| `sandbox_over` | | 3 sites, box for 1, 1 thread and the sweeper | | fails `NeverOverCeiling` |

**Bounds.** The `Max...` constants bound how often the environment misbehaves. They exceed what a
single guard can absorb: as many failures as a result has repeats, a restart with a command in
each of its phases, a queue shorter than the messages of one poll, a breaker that trips within the
failures. Two commands to one robot are enough for the interleavings of poll and acks, which touch at
most two ids; a third command, two more in `direct`, give the limit and the site filter something
to exclude. Three messages let a condition begin, end and begin again. Detector thresholds are two polls, with a second
setting that raises or lowers each. `Cap` is beyond every threshold, so a saturated counter decides
every comparison as the real one would. `MaxActions` of the robot bounds the action ids the
simulator mints; `FaultTicks` is the longest fault. A second mission is crewed while the first has its
robots; the linger outlasts the one failed post. Three files are the fewest with an opt-in one between
two others. Time in the sandboxes ends one tick after the first sandbox has expired, which is when the database purges it.
In `loop` a row of another site is let in, or a row decided twice, only where no message or request is lost; the
former only while the simulator lives, and either only before the row with the unsupported verb is there, the latter also
before the row of the other site is (`LoopBound`). This keeps the instance within minutes; the theorems have no such bounds.
The robot of `commanded` has one node and no action: how it drives and works is the matter of `robots`, how
messages and PATCHes fail that of `loop`. `CommandedBound` and `Prompt` of `MCBridge` therefore leave out losses
and rejections and keep what joins the parts: repeated and late commands, faults, orders, and a restart of either process, one kind of upset in a behaviour; the
theorems about it have no such bounds. Waits of the tester are one or two states long, so that an answer one tick late falls inside or
outside of them. In `detector` two of the listed failures happen in one behaviour (`Upsets`); in `pipeline`
nothing fails in the detector (`Undisturbed`), which has the other instance to itself. `CHECK_DEADLOCK FALSE` appears where the modelled work ends: all rows closed, all
action ids used, the process gone.

## 4. Fairness

* **Bridge** (`CommandBridge!Fairness`): weak fairness of the GET and of the steps through its rows,
  of handling a state message and the acks in it, and of the simulator's receive, apply and publish.
  They run in endless loops of threads that wait for nothing else
  (`connector/yantrabridge/__main__.py`, `sim/yantrasim/__main__.py`). Nobody is assumed to request
  or decide. Reading the approved rows in the order the code does is part of the model, so that no
  row is favoured.
* **DirectExecutor**: weak fairness of the poll, apply and PATCH steps, which the loop of `main` takes in turn.
* **Robot** (`RobotLifecycle!Progress`): weak fairness of `Tick`; strong fairness of driving at least
  one node further, of finishing the action and of charging to full. The strong ones stand for
  elapsed time: a leg, an action and a charge have a finite length, and the code adds to them every
  tick in which they are enabled, even when holds come in between. Commands, orders and faults are
  not fair.
  `MCCommands` states the strong fairness of a robot and that of the missions in common conjuncts
  (`WorkFairness`): a behaviour has the actions of one of them only, so that each conjunct is the
  fairness of that one.
* **FleetMissions**: weak fairness of the tick and its steps; strong fairness of each robot's taking a task and
  of finishing it. A robot rolls for a task in each tick in which it is idle, and a task takes finitely many.
* **Detector**: weak fairness of a successful poll, and of sending each request. A poll fails only
  finitely often in an instance.
* **Notifier** (in `PipelineSpec`): weak fairness of the dispatch loop and of the end of the breaker's
  pause (`BREAKER_PAUSE_S` is finite). `MCAlarmPipeline` states it for the instance `pipeline` only,
  and the detector's for both.
* **DemoSandbox**: weak fairness of the clock and of a simulator's look at it, once a turn of
  `SandboxDriver.run`. Sweeper, reaper and threads are not fair: a simulator stops without them.
* Faults, losses, failures and crashes happen at will within their budgets; none is ever forced.

`LoopIsClosed` holds when fewer messages and requests are lost than a result has
repeats; `ApprovedIsClosed` when the backend honours the site filter; `BadIsAnnounced` and
`CrewedMissionEnds` name in their formula what excludes them (section 6).

## 5. The theorems

TLC checks the instances of section 3; the theorems below hold for every value of the constants:
any number of commands, robots, incidents, keys, files and runners, any thresholds, any budgets.
They rest only on the assumptions named in the modules, which TLC evaluates on every run:
`ParameterAssumption` (CommandBridge), `IngestAssumption` (BridgeProcess), `CommandedAssumption`
(CommandedRobot), `DetectorAssumption`
(IncidentDetector), `MigrationsAssumption`, and the operator `Constants` of Notifier, DirectExecutor,
FleetMissions, RobotLifecycle, FleetStack, SandboxDoor and DemoSandbox, which the theorems assume
and the composing or MC modules assert of each instance (`PipelineAssumption`, `SimulatorAssumption`,
`RobotAssumption`, `ToolsAssumption`). They say which constants are numbers, finite or sets of them, that
routes and orders are made of nodes, that the key of the battery is none of the errors' keys
(`translate.py:273-286`) and, for the detector, that `Cap` exceeds every threshold.

Four theorems assume more, and name it:

* `StatusesAdvance`: `OnceNamed`, master control names each action once, as VDA 5050 asks of actionIds.
* `NothingVanishes`, `HoldsLast`: `FaultKinds = {}`. What faults do is in `NothingUnaccounted`,
  `HoldsEnd` and the two counterexamples of section 6.
* `CompletionArrives`: `MaxFailedPosts <= Linger`, posts fail no more often than the code keeps a
  completed mission in the snapshot for.

| Module | Theorem | States | Inductive invariant |
|---|---|---|---|
| `BridgeProcessProofs` | `TypeCorrect` | `TypeOK` | itself |
| | `ApprovedOnly` | `OnlyApprovedIsApplied` | `GateInv`: batch, wire, inbox and what was applied hold only ids that were once approved, are supported, and are of this site or `unsited`; the property alone says nothing about the places an id waits in |
| | `TruthfulRows` | `RowTellsOutcome` | `ReportInv`: every report staged, in flight or being handled names an outcome of its command |
| | `AppliedOnce` | `AppliedOncePerLife` | `OnceInv`: what waits in the inbox is there once and was not applied by this life |
| | `PublishedApproved` | `PublishesOnlyApproved` | `GuardedInv`: a row of the batch that was not decided twice is still approved or its id in memory, since only the loop itself closes a row, and remembers the id before it does |
| | `LoopImplementsGate` | `ImplementsGate` | `LoopInv`: all of the above and `OutcomeInv`, a command has at most one outcome while the simulator lives; as long as no row was decided twice, a late or repeated report can then only write the status the row has |
| | `SourceStays` | `SourceInUse` | `SourcesInv`: at most one source is being stopped, never the one in use, and one that is off has nothing in hand |
| | `EveryBeginningAlerted` | `EveryOccurrenceAlerted` | `Ledger`: the active conditions are those ongoing in the messages fed so far; the property alone says nothing of what the next message will be compared with |
| | `HalvesApart`, `BridgeKeepsPromises` | `BridgeSpec => Spec /\ Ingest!Spec`, and the invariants of both of the process | a step of one half leaves the other alone |
| `CommandedRobotProofs` | `CommandedIsLoop`, `CommandedIsRobot` | `CommandedSpec => Spec`; until the simulator restarts also `Robot!Spec` | each step is one of the loop or leaves it alone, and one of the robot, a new robot, or none |
| | `HoldsEndByApproval` | `HoldEndsByApproval` | `PartsInv`, what is proved of loop and robot; `CarriedInv`: what was carried out is known to the inbox and waits in it no more |
| | `StopsStay` | `StopHolds` | `HeldInv`: the property, said of the robot's answer instead of the row; the row follows by `ReportInv` |
| | `CommandedKeepsPromises` | `OnlyApprovedIsApplied`, `RowTellsOutcome`, `AppliedOncePerLife` of the composition | those of the loop, by `CommandedIsLoop` |
| `SimulatorProofs` | `ApprovedOnly` | `AppliedAsApproved` | `Listed`: the rows still to apply are approved, `Admissible` (of this site, unless the backend has neither filter nor column), open and listed once; `Counted`: a command was applied once per lost outcome, and once more if its row is closed or its PATCH under way |
| | `ImplementsGate` | `KeepsGate` | the same: each step before the first lost outcome is one of `CommandGate` or leaves it alone |
| | `WorkIsCredited` | `CreditsOwnWork` | `Tagged`: the tag of a robot at work is the mission it was assigned for; stale tags are on free robots |
| | `CompletionArrives` | `CompletionIsPosted` | `Posted`: a mission that is done, and whose row does not say so, is no older than posts have failed |
| | `CrewsStayFit` | `CrewsFit` | `Unspawned`: missions above `seq` are absent, so that a new one has no robots yet, and the property |
| `RobotLifecycleProofs` | `TypeCorrect` | `TypeOK` | `SoundInv`: itself, with the robot as a record |
| | `StatusesAdvance` | `StatusAdvancesOnly` | `StatusInv`: nothing is known of an action not yet named, no verdict of one in flight, and what was reported at the end is the verdict |
| | `NoRewind` | `ProgressKept` | the type alone; one case per branch |
| | `NothingUnaccounted`, `NothingVanishes` | `ActionAccounted`, `ActionTerminates` | `Busy`: a robot with a task works on it, drives to it, is held from it, or was struck by a fault, so that no other branch that ends idle or at a charger drops one silently |
| | `HoldsEnd`, `HoldsLast` | `HoldYieldsToFaults`, `HoldIsKept` | the type alone |
| | `OneRow` | `RowsAgree` | `Busy` and the type: what a status says of task, path and fault decides every branch of both translations |
| `NotifierProofs` | `TypeCorrect` | `TypeOK` | `TypeOK` and `OrderInv` |
| | `QueueOrder` | `InOrder` | `OrderInv`: rounds in the queue ascend, none below the last delivered; what is being sent is of the youngest round |
| | `NothingLost` | `NoLoss` | with `OrderInv`: what leaves the queue was delivered or dropped |
| | `NoRepeats` | `AnnouncedOnce` | `DeliveryInv`: no key is in two waiting messages, and only a key that waits in none may have had its one regular delivery |
| | `OnlyWhatWasRead` | `TakesOnlyRead`: whatever becomes known to the notifier is in the tables at that step | `OrderInv` and the part `Apart` of `DeliveryInv`: waiting messages hold seen keys; only `Fetch` takes up keys, all other steps move them |
| `AlarmPipelineProofs` | `TypeCorrect` | `TypeOK` of the detector | itself |
| | `OneOpen` | `OneOpenPerRobot` | `OpenInv`: until something is lost, record, requests not yet sent and table agree about which row is open |
| | `FlapGuard`, `ClearHold` | `OpensConfirmed`, `ResolvesConfirmed` | `EvidenceInv`: no streak of the engine is longer than the matching suffix of what it observed |
| | `ImplementsNotifier` | `PipelineSpec => N!Spec` | every step of detector and operators is a `Rows` step of Notifier |
| | `ImplementsDetector` | `PipelineSpec => Spec` | a step of the notifier or of an alert leaves the detector alone |
| | `NobodyWokenForNothing` | `NoFalseAlarm` | what the notifier has touched is among the rows that were ever written: `OnlyWhatWasRead` adds only rows, and no row is unwritten |
| | `PipelineKeepsPromises` | the detector's and the notifier's promises together | both refinements |
| | `NoAlarmLost`, `NoAlarmTwice`, `AlarmsInOrder` | `NoLoss`, `AnnouncedOnce`, `InOrder` of the pipeline | the theorems of `NotifierProofs`, carried over by `ImplementsNotifier` |
| `OperatorToolsProofs` | `MigrationsInOrder` | `SchemaIsPrefix` | `Tracked`: a row is written with its SQL, so tracking table and schema agree; `Planned`: whatever a run does not mean to apply was recorded when it looked, and stays so |
| | `MigrationsRunOnce` | `RunsOnceAlone` | `Tracked` and `Fresh`: what a run nobody overlapped has read is what the table holds |
| | `ServersFirstAndLast`, `EndsClean` | `ServersOutliveClients`, `NothingLeftBehind` | `Served`: a server is there from before the first child until after the last; `Passed`: the second pass of `stop` has done with every child above `next`; `Blank`: nothing is there before the first child; `Strayed`: a stray directory ends the start, and the last child, which would have served it, was never there |
| | `CacheStaysFresh` | `CacheIsFresh` | `CacheInv`: an answer is dated when it was asked for, so it is at least as old as what it says, whoever stores it and when |
| | `QuotaHolds` | `QuotaKept` | `Windowed`: the admissions of a visitor's window are the last of the list, at most the quota, and the admission before them by a quota or less lies a window earlier (`Opens`) |
| | `CeilingHolds` | `CeilingKept` | `BoxInv`: `Crew`, a thread serves a request exactly while it holds the mint lock, with a session in its hands in the steps between the RPC and the record; `Room`, a mint that has passed the count finds room until it starts its simulator |
| | `NoSlotLeaks` | `NoSlotLeaked` | `BoxInv`: `Ledger`, whoever costs a session or a simulator is in the registry, in a mint, lost or orphaned; the places at the door are those of the threads inside |
| `ConformanceRunProofs` | `RunIsCaptured`, `ReplayGivesTheReport` | `Captured`, `ReplayReproducesReport` | `Captured`: feeding what was consumed so far to the observation without its evidence gives the observation; the property alone speaks of the scored run only |

The robot's theorems and its two counterexamples (section 6) belong together: `robot_hold_lost` and
`robot_fault_drops` show what a fault breaks, `HoldsEnd` and `NothingUnaccounted` that nothing but a fault
breaks it, and `StopsStay` what that means for whoever reads `executed` in the console. Its proofs follow the code: a branch leaves a robot `q` and most then publish it, so that a
lemma per branch says what `q` is (`Left`), and each theorem needs one argument about `Left` and the message.
In the same way the proofs about a box speak of what an actor has in its hand after a step, those about the
ingest of where a source's thread goes (`Turned`), and those about the quota of lists of times.

Each argument is the usual three facts: the invariant holds initially, every action keeps it (one
step of the proof per action), and it implies the property. Where two parts work through each other the
whole implements each of them, so that their theorems are cited and only what joins them is new: in
`CommandedRobot` that a result is the robot's own answer, in `AlarmPipeline` that the notifier reads the rows
the detector wrote. Both refinements compare the instance of a module with the one its proofs use (`Same...`
lemmas), definition by definition.

A replay feeds any number of messages, so that `RunIsCaptured` needs an induction over a sequence. The induction
theorems of the library have an operator for a parameter, which no prover here instantiates; `InductiveSet` says the same
of a set of numbers, from the well-foundedness of `<`. With it `FeedAll` is shown to exist, to work off two
batches like one (`FeedBatches`), and to leave alone what is not evidence (`FeedCommutes`, `FeedClears`). The set of
messages is never typed: a sequence is one over its own members (`IsSeq`).

Types and refinements aside, each theorem states a property of a run, or one that is in no run because the run of
its module is at its limit: `HoldYieldsToFaults`, `HoldIsKept` and `ActionTerminates` (the last two end in
counterexamples when there are faults), `CrewsFit`, `NoFalseAlarm`, `TakesOnlyRead`, `Captured`. TLC found no violation of
the first, `CrewsFit` (3 robots and 3 missions), `NoFalseAlarm` (the instance `pipeline`) and `Captured` (that of
`conform`) on these instances either.

**Only model-checked**: liveness (`LoopIsClosed`, `ApprovedIsClosed`, `CrewedMissionEnds`,
`RunningIsResolved`, `TableConverges`, `AlarmIsAnnounced`, `SimulatorsStop`), because it rests on
fairness, which the prover does not handle; and what an operator computes from one given argument: the
whole catalogue of checks (`OneDefectOneFinding`, whose expectations are a table of the 52 defects) and the
floor plan of a fleet (`FloorPlan`).

## 6. What the models found

Seven runs end with a counterexample against what a comment or a test of the code says.

* `bridge_starved`: published rows whose message was lost stay approved and fill the 20 places of
  the GET (`commands.py:214`), so that the "fresh row" of `commands.py:28-30` is never published.
* `robot_hold_lost`: a fault strikes a paused or estopped robot and ends its hold (`sim.py:427`), which
  should last "until resumed" (`sim.py:342`).
* `robot_fault_drops`: a fault on a working robot drops its action without the verdict that
  `sim.py:650-657` promises of every such path.
* `detector_lost`: a failed request of the sink is never repeated, although `sink.py:52-53` says that
  the next poll re-derives the state.
* `conformance_retained`: the tester subscribes to each sub-topic and to everything below the
  interface (`runner.py:141`); the retained state of a vehicle that was already running comes back
  twice, and a second finding is reported for one defect, which `runner.py:308-317` means to avoid.
* `conformance_switched`: the tester sends an update, and the order of another master reaches the vehicle
  before any state has shown the tester's. No state after the update shows the tester's order, and
  `_order_accept_update` looks for a switch only after one that does (`checks.py:771-784`): a sound vehicle is
  charged, "a failure the vendor cannot act on", which `checks.py:142-147` means to avoid.
* `sandbox_over`: the sweeper saves the registry without the mint lock (`sandbox_http.py:551`), drops the
  record a mint has just added, and the next mint exceeds the ceiling (`sandbox_http.py:297-299`).

Other behaviour a reader of the code may not expect. The properties are stated, and the
instances chosen, so that it is visible where they stop:

* Bridge, commands: after a restart every row still approved is published again, and the simulator's list of
  seen ids is all that keeps a command from a second execution (`commands.py:25-29`). When all three
  repeats of a result meet a failing PATCH the row stays approved (`commands.py:371-372`);
  `LoopIsClosed` has fewer failures than repeats. A row whose verb is not supported, and whose PATCH
  failed, stays approved until the next restart (`commands.py:236-243`). The anonymous console PATCHes by id only: it can
  re-open a closed row, which the gate forbids to anybody, or reject one that the bridge is about to publish
  (`index.html:2241`). `OnlyApprovedIsApplied`, `RowTellsOutcome` and `AppliedOncePerLife` hold all the same;
  `PublishesOnlyApproved` and `ImplementsGate` except such a row (`overwritten`).
* Site gate: both executors accept a row that has no `site_id` key (`commands.py:393-400`, `supabase.py:213-220`), so
  that a backend which neither honours the filter nor returns the column has rows of other sites carried out.
  `OnlyApprovedIsApplied` and `AppliedAsApproved` name this exception (`unsited`, `Admissible`).
* Direct executor: when the PATCH is lost the command is applied again. A resume that is applied
  twice fails the second time, and the row says failed although the robot resumed; a pause of long ago is applied
  again to a robot that has been resumed meanwhile. Rows of other sites fill the GET when the backend ignores the filter.
  `SupabaseTransport` resolves its site once (`sim/yantrasim/__main__.py:63`), while `start_site_sync`
  (line 97) keeps following it.
* Bridge, ingest: the ledger is updated before the robot row is written. When that write fails the
  alert is lost for as long as the condition lasts (`EveryOccurrenceAlerted` names it in `lost`), although
  `connector/README.md:79-81` and the comments of `sink.py` call the writes retry-safe. While a source is being
  replaced, two threads may look at the ledger before either updates it (`stale`).
* Robot: an estop of a paused robot remembers that status (`sim/yantrasim/commands.py:61`), so that
  resume answers "resumed" and the robot stays as it was; no property forbids it, the hold is only longer than meant. `cancelOrder` and
  `initPosition` empty the path of a robot that is held or faulted on its way to a charger, which
  later counts as arrived. An estop of a faulted robot and a resume leave the cause of
  the fault behind: the robot takes tasks, its messages go on naming the fault (an initPosition ends
  a lost localization) and no other strikes it.
  `RowsAgree` therefore says that a faulted robot looks it, not the converse. The simulator's own row names
  any error in `fault_msg`, the bridge's a fatal one only. A late message of an order that another
  order has replaced is adopted again (`sim.py:485-487`, `505`).
* Missions: a mission whose whole crew was ordered away stays active and keeps its place among the
  concurrent ones; a robot that was ordered away stays in the list of its old crew beside the new one.
* Detector: when the GET of the seed fails (`sink.py:103`), the engine starts blank beside an open row and
  may open a second one; `OneOpenPerRobot` says so in its premise. A poll in which a robot is absent
  does not break its streaks (`engine.py:14`). The re-open window does not survive a restart.
* Notifier: the seen keys are saved while the queue is only in memory: a crash with a state file
  loses what was queued, a crash before the save announces it again (`NoLoss` and `AnnouncedOnce` say
  which). A full queue drops its oldest message. An incident that is re-opened under its old id is
  not announced again.
* Migrations: when the answer of a commit is lost the runner reports that "nothing from this file
  was committed" (`migrate.py:287`) although it was; the next run sees the row and skips the file.
  Two runners that overlap may run a file twice, the second time against a database that has it.
* Stack: a signal or an exception before `run` has installed its handlers leaves the children behind
  (`cut`); a `build_docroot` that raises leaves the directory it has made (`orchestrator.py:122-131`, `373`), the one
  exception in `NothingLeftBehind`.
* Sandboxes: two saves share one temporary file, so that the slower `os.replace` raises, out of a mint
  that should never raise (`sandbox_http.py:274-277`). A `demo_mint_session` whose answer is lost
  leaves a live session until its time is over (`orphaned`).
* Conformance: whenever an order of another master and one of the tester are under way at once, before a state
  has shown the earlier, the tester may charge a sound vehicle: with a new order that is never echoed
  (`checks.py:745-753`), with the update (`conformance_switched`), or with a stale order it appears to adopt.
  `OneDefectOneFinding` excepts such runs (`crossed`) and no others.

## 7. What is not modelled

* Numbers: poses, battery percentages, RUL regressions, ETAs, hashes. Bands and choices stand in
  for them. Incident ids are unique in the model; the code hashes them into 8000 values.
* Wording: notes, titles, message formats of the channels (`formats.py`, `channels.py`), reports.
* Liveness of external parts: the broker and Postgres are present only as loss, delay and failure.
* Predictive maintenance: opening and clearing its findings has the shape of the incident engine, a
  lost write included; the rest is regression over telemetry.
* Settings and sites (`core/yantracore`): `TablePoller` keeps the last good value. The modules that
  read settings change them at any moment instead; how old a value may get is not stated.
* Console: its decisions on commands are actions of `CommandBridge` and `DirectExecutor`. The election of
  a writer is a read and an unguarded PATCH in a page of JavaScript that otherwise draws.
* Database schema: policies and RPCs are one transaction of Postgres each; those the modelled parts
  call are external actions.
* Sandboxes: the telemetry a seeder writes, HTTP parsing, pids that are reused (`sandbox.py:599`), and
  `sandbox-mint` run from the command line beside a door.
* Stack: `status.py`, which reads the state file. Importer: a translation of files, with no state.
* Copilot (stateless, reads only), the operator tools `doctor`, `audit` and `grant_role` (one pass over
  the database each), academy, marketing and docs (static), deployment and tests.

## 8. What is left

| Question | Where it would go |
|---|---|
| The tester gives one defect one finding, for every observation | `ConformanceChecks` with its folds replaced by quantifiers where a check allows it |
| One simulator with commands, orders, missions and robots in the order of its ticks | `SimulatorProcess` with a `Next` that alternates `DirectExecutor` and `FleetMissions` |
| The gate over both executors, in one theorem | an abstract executor that `CommandBridge` and `DirectExecutor` implement up to their losses |
| One open finding per robot and component | a maintenance module after `IncidentDetector` |
