--------------------------- MODULE CommandBridge ---------------------------
(***************************************************************************)
(* The operator-command loop over VDA 5050: the console and the commands   *)
(* table, yantrabridge's CommandPublisher with its two threads, the QoS 0  *)
(* broker in both directions, and the instantActions half of yantrasim's   *)
(* MqttTransport.                                                          *)
(*                                                                         *)
(*   connector/yantrabridge/commands.py     CommandPublisher               *)
(*   sim/yantrasim/transports/mqtt.py       MqttTransport                  *)
(*   supabase/0002, 0007; console/index.html  commands, decide_command     *)
(***************************************************************************)
EXTENDS Integers, Sequences, FiniteSets

CONSTANTS
  NCommands,          \* rows ever inserted, numbered in created_at order
  Robots,
  Target,             \* Target[c]: the robot the row names
  Home,               \* rows whose site_id is this bridge's site
  Supported,          \* rows whose cmd is in VERBS
  Registered,         \* robots with a vendor in the robots table of the site
  BackendFilters,     \* does the backend honour site_id=eq.<site>: {TRUE},
                      \* or {TRUE, FALSE} when it sometimes ignores it
  BackendColumns,     \* does its answer carry the site_id column, likewise
  Limit,              \* rows per GET (20 in the code)
  Repeats,            \* ACTION_STATE_REPEATS (3 in the code)
  MaxStalePatches,    \* bound: decisions of the anonymous console on a row it
                      \* still shows as pending (0: all by decide_command)
  MaxFailures,        \* bound: lost state messages, failed PATCHes, raising
                      \* publishes
  MaxDrops,           \* bound: instantActions lost by the broker
  MaxBridgeRestarts,  \* bound
  MaxSimRestarts,     \* bound
  UpCap,              \* bound: state messages in flight
  PromptRegister      \* TRUE: the sim publishes no state in the instant
                      \* between the bridge's publish and its bookkeeping

Commands == 1 .. NCommands

ASSUME ParameterAssumption ==
  /\ NCommands \in Nat
  /\ Target \in [Commands -> Robots]
  /\ Home \subseteq Commands
  /\ Supported \subseteq Commands
  /\ Registered \subseteq Robots
  /\ BackendFilters \subseteq BOOLEAN /\ BackendColumns \subseteq BOOLEAN
  /\ PromptRegister \in BOOLEAN
  /\ {Limit, Repeats, UpCap} \subseteq Nat \ {0}
  /\ {MaxStalePatches, MaxFailures, MaxDrops, MaxBridgeRestarts, MaxSimRestarts} \subseteq Nat

Statuses == {"absent", "pending", "approved", "rejected", "executed", "failed"}
Verdicts == {"FINISHED", "FAILED"}
\* mutant: a result is taken for success
AlwaysExecuted(v) == "executed"
StatusOf(v) == IF v = "FINISHED" THEN "executed" ELSE "failed"
ActionStates == [id : Commands, status : Verdicts]

VARIABLES
  \* the commands table, and the rows ever approved by a human, and decided by
  \* a bare PATCH after they had been decided (history)
  row, everApproved, overwritten,
  \* CommandPublisher: _pending, _done, _manufacturers
  bpend, bdone, known,
  \* poll thread: rows of the last GET still to handle; the oldest of them
  \* is on the wire but not yet in _pending
  batch, sent,
  \* MQTT thread: actionStates of the state message being handled
  ack,
  \* broker: instantActions towards the robots, state messages towards the
  \* bridge
  down, up,
  \* MqttTransport: _seen_action_ids, _incoming, and _results as the verdict
  \* and the publishes left of each command
  seen, incoming, verdict, left,
  \* history: publishes and applications of each command, and its outcomes
  pubs, applied, outcomes,
  \* history: rows of other sites in an answer that neither the backend's
  \* filter nor a site_id column held to the site
  unsited,
  \* faults the environment may still inject
  budget

dbVars     == <<row, everApproved, overwritten>>
bridgeVars == <<bpend, bdone, known>>
pollVars   == <<batch, sent>>
simVars    == <<seen, incoming, verdict, left>>
runVars    == <<applied, outcomes, unsited>>
vars == <<dbVars, bridgeVars, pollVars, ack, down, up, simVars, pubs, runVars,
          budget>>

Budgets == [patches : 0 .. MaxStalePatches,
            failures : 0 .. MaxFailures, drops : 0 .. MaxDrops,
            bridge : 0 .. MaxBridgeRestarts, sim : 0 .. MaxSimRestarts]

Spend(kind) ==
  /\ budget[kind] > 0
  /\ budget' = [budget EXCEPT ![kind] = @ - 1]

Init ==
  /\ row = [c \in Commands |-> "absent"]
  /\ everApproved = {} /\ overwritten = {}
  /\ bpend = {} /\ bdone = {} /\ known = {}
  /\ batch = {} /\ sent = FALSE
  /\ ack = {}
  /\ down = <<>> /\ up = <<>>
  /\ seen = {} /\ incoming = <<>>
  /\ verdict = [c \in Commands |-> "FINISHED"]
  /\ left = [c \in Commands |-> 0]
  /\ pubs = [c \in Commands |-> 0]
  /\ applied = [c \in Commands |-> 0]
  /\ outcomes = [c \in Commands |-> {}]
  /\ unsited = {}
  /\ budget = [patches |-> MaxStalePatches,
               failures |-> MaxFailures, drops |-> MaxDrops,
               bridge |-> MaxBridgeRestarts, sim |-> MaxSimRestarts]

-----------------------------------------------------------------------------
(* The console and the commands table *)

\* Sync.queueCommand: rows are numbered in the order of their INSERT.
Request(c) ==
  /\ row[c] = "absent"
  /\ \A d \in Commands : d < c => row[d] # "absent"
  /\ row' = [row EXCEPT ![c] = "pending"]
  /\ UNCHANGED <<everApproved, overwritten, bridgeVars, pollVars, ack, down, up,
                 simVars, pubs, runVars, budget>>

\* decide_command checks the row under its lock; the anonymous console's
\* PATCH does not, and its list may show as pending a row decided since.
Decidable(c) ==
  \/ row[c] = "pending" /\ UNCHANGED <<overwritten, budget>>
  \/ /\ row[c] \notin {"absent", "pending"}
     /\ Spend("patches")
     /\ overwritten' = overwritten \cup {c}

Decide(c, decision) ==
  /\ Decidable(c)
  /\ row' = [row EXCEPT ![c] = decision]
  /\ everApproved' =
       IF decision = "approved" THEN everApproved \cup {c} ELSE everApproved
  /\ UNCHANGED <<bridgeVars, pollVars, ack, down, up, simVars, pubs, runVars>>

-----------------------------------------------------------------------------
(* CommandPublisher, poll thread *)

Approved == {c \in Commands : row[c] = "approved"}

\* The Limit oldest of a set of rows: order=created_at.asc&limit=<Limit>.
Oldest(S) == {c \in S : Cardinality({d \in S : d < c}) < Limit}

\* mutant: the server-side filter is trusted
SiteTrusted(rows, column) == rows
\* _site_ok: what is left of the answer after the client-side check, which lets
\* every row pass when the answer has no site_id column.
SiteOk(rows, column) == IF column THEN rows \cap Home ELSE rows

PollFetch ==
  /\ batch = {} /\ ~sent
  /\ \E filtered \in BackendFilters, column \in BackendColumns :
       LET answer == Oldest(IF filtered THEN Approved \cap Home ELSE Approved) IN
       /\ batch' = SiteOk(answer, column)
       /\ unsited' = IF filtered \/ column THEN unsited
                                          ELSE unsited \cup (answer \ Home)
  /\ UNCHANGED <<dbVars, bridgeVars, sent, ack, down, up, simVars, pubs,
                 applied, outcomes, budget>>

\* The row the loop of poll() is at.
Current(c) == /\ c \in batch
              /\ \A d \in batch : c <= d

\* mutants: only the closed, only the pending ones are remembered
InDone(c) == c \in bdone
InPending(c) == c \in bpend
\* Published already, or closed already.
InMemory(c) == c \in bpend \/ c \in bdone

PollSkip(c) ==
  /\ Current(c) /\ ~sent
  /\ InMemory(c)
  /\ batch' = batch \ {c}
  /\ UNCHANGED <<dbVars, bridgeVars, sent, ack, down, up, simVars, pubs,
                 runVars, budget>>

\* A PATCH of row c: done, done but the answer lost, or not done.
Patch(c, status, outcome) ==
  \/ /\ outcome = "ok"
     /\ row' = [row EXCEPT ![c] = status]
     /\ UNCHANGED budget
  \/ /\ outcome = "reply_lost"
     /\ row' = [row EXCEPT ![c] = status]
     /\ Spend("failures")
  \/ /\ outcome = "failed"
     /\ UNCHANGED row
     /\ Spend("failures")

PatchOutcomes == {"ok", "reply_lost", "failed"}

\* An unsupported verb is failed here; it is marked done even if the PATCH
\* was not applied.
PollUnsupported(c) ==
  /\ Current(c) /\ ~sent
  /\ ~InMemory(c)
  /\ c \notin Supported
  /\ \E outcome \in PatchOutcomes : Patch(c, "failed", outcome)
  /\ bdone' = bdone \cup {c}
  /\ batch' = batch \ {c}
  /\ UNCHANGED <<everApproved, overwritten, bpend, known, sent, ack, down, up,
                 simVars, pubs, runVars>>

\* _manufacturer_for: no state message seen from the robot, and the lookup
\* fails or finds no robot of the site. The row is retried by a later poll.
PollUnroutable(c) ==
  /\ Current(c) /\ ~sent
  /\ ~InMemory(c)
  /\ c \in Supported
  /\ Target[c] \notin known
  /\ batch' = batch \ {c}
  /\ UNCHANGED <<dbVars, bridgeVars, sent, ack, down, up, simVars, pubs,
                 runVars, budget>>

Routable(c) == Target[c] \in known \cup Registered

Ready(c) ==
  /\ Current(c) /\ ~sent
  /\ ~InMemory(c)
  /\ c \in Supported
  /\ Routable(c)

\* _publish raised: not marked published, retried by a later poll.
PollRaise(c) ==
  /\ Ready(c)
  /\ known' = known \cup {Target[c]}
  /\ batch' = batch \ {c}
  /\ Spend("failures")
  /\ UNCHANGED <<dbVars, bpend, bdone, sent, ack, down, up, simVars, pubs,
                 runVars>>

\* _publish: the message is on the wire, or lost by QoS 0.
PollPublish(c) ==
  /\ Ready(c)
  /\ known' = known \cup {Target[c]}
  /\ sent' = TRUE
  /\ pubs' = [pubs EXCEPT ![c] = @ + 1]
  /\ \/ /\ down' = Append(down, c)
        /\ UNCHANGED budget
     \/ /\ Spend("drops")
        /\ UNCHANGED down
  /\ UNCHANGED <<dbVars, bpend, bdone, batch, ack, up, simVars, runVars>>

\* The bookkeeping that follows the publish.
PollRegister(c) ==
  /\ Current(c) /\ sent
  /\ bpend' = bpend \cup {c}
  /\ batch' = batch \ {c}
  /\ sent' = FALSE
  /\ UNCHANGED <<dbVars, bdone, known, ack, down, up, simVars, pubs, runVars,
                 budget>>

PollStep(c) ==
  \/ PollSkip(c) \/ PollUnsupported(c) \/ PollUnroutable(c)
  \/ PollRaise(c) \/ PollPublish(c) \/ PollRegister(c)

-----------------------------------------------------------------------------
(* CommandPublisher.handle_state, MQTT thread *)

HandleState ==
  /\ ack = {}
  /\ up # <<>>
  /\ up' = Tail(up)
  /\ known' = known \cup {Head(up).robot}
  /\ ack' = Head(up).actions
  /\ UNCHANGED <<dbVars, bpend, bdone, pollVars, down, simVars, pubs, runVars,
                 budget>>

\* Not a command this bridge is waiting for.
AckIgnored(a) ==
  /\ a \in ack
  /\ a.id \notin bpend
  /\ ack' = ack \ {a}
  /\ UNCHANGED <<dbVars, bridgeVars, pollVars, down, up, simVars, pubs, runVars,
                 budget>>

\* mutant: the id is forgotten whatever the PATCH answered
ForgetsAlways(outcome) == TRUE
\* The id leaves _pending only when the PATCH was acknowledged; else the next
\* repeat of the actionState retries it.
Forgets(outcome) == outcome = "ok"

AckClosed(a) ==
  /\ a \in ack
  /\ a.id \in bpend
  /\ \E outcome \in PatchOutcomes :
       /\ Patch(a.id, StatusOf(a.status), outcome)
       /\ IF Forgets(outcome)
          THEN bpend' = bpend \ {a.id} /\ bdone' = bdone \cup {a.id}
          ELSE UNCHANGED <<bpend, bdone>>
  /\ ack' = ack \ {a}
  /\ UNCHANGED <<everApproved, overwritten, known, pollVars, down, up, simVars,
                 pubs, runVars>>

AckStep(a) == AckIgnored(a) \/ AckClosed(a)

\* The bridge process dies and starts again: everything it knew was in
\* memory, and its subscription had no session to queue state messages in.
BridgeRestart ==
  /\ Spend("bridge")
  /\ bpend' = {} /\ bdone' = {} /\ known' = {}
  /\ batch' = {} /\ sent' = FALSE
  /\ ack' = {} /\ up' = <<>>
  /\ UNCHANGED <<dbVars, down, simVars, pubs, runVars>>

-----------------------------------------------------------------------------
(* MqttTransport *)

\* mutant: only what is still queued counts as a duplicate
StillQueued(c) == \E i \in 1 .. Len(incoming) : incoming[i] = c
AlreadySeen(c) == c \in seen

\* handle_instant_actions, on the network thread: queue unless seen.
SimReceive ==
  /\ down # <<>>
  /\ down' = Tail(down)
  /\ IF AlreadySeen(Head(down))
     THEN UNCHANGED <<seen, incoming>>
     ELSE /\ seen' = seen \cup {Head(down)}
          /\ incoming' = Append(incoming, Head(down))
  /\ UNCHANGED <<dbVars, bridgeVars, pollVars, ack, up, verdict, left, pubs,
                 runVars, budget>>

\* poll_commands, on the sim thread: apply the verb and stage its result. The
\* robot's answer is its own.
SimApply(v) ==
  /\ incoming # <<>>
  /\ LET c == Head(incoming) IN
       /\ applied' = [applied EXCEPT ![c] = @ + 1]
       /\ outcomes' = [outcomes EXCEPT ![c] = @ \cup {v}]
       /\ verdict' = [verdict EXCEPT ![c] = v]
       /\ left' = [left EXCEPT ![c] = Repeats]
  /\ incoming' = Tail(incoming)
  /\ UNCHANGED <<dbVars, bridgeVars, pollVars, ack, down, up, seen, pubs, unsited,
                 budget>>

\* _attach_action_states: the results a state message of robot r carries.
Staged(r) == {c \in Commands : Target[c] = r /\ left[c] > 0}

\* publish (every tick) or a stateRequest: each staged result rides along and
\* is one repeat closer to being dropped, delivered or not.
PublishState(r) ==
  /\ PromptRegister => ~sent
  /\ left' = [c \in Commands |-> IF c \in Staged(r) THEN left[c] - 1 ELSE left[c]]
  /\ \/ /\ Len(up) < UpCap
        /\ up' = Append(up, [robot |-> r,
                             actions |-> {[id |-> c, status |-> verdict[c]] :
                                            c \in Staged(r)}])
        /\ UNCHANGED budget
     \/ /\ Staged(r) # {}
        /\ Spend("failures")
        /\ UNCHANGED up
  /\ UNCHANGED <<dbVars, bridgeVars, pollVars, ack, down, seen, incoming, verdict,
                 pubs, runVars>>

\* The simulator process dies and starts again; what the broker had not yet
\* delivered to it is delivered to its successor or lost.
SimRestart ==
  /\ Spend("sim")
  /\ seen' = {} /\ incoming' = <<>>
  /\ left' = [c \in Commands |-> 0]
  /\ \/ down' = <<>>
     \/ UNCHANGED down
  /\ UNCHANGED <<dbVars, bridgeVars, pollVars, ack, up, verdict, pubs, runVars>>

-----------------------------------------------------------------------------
Next ==
  \/ \E c \in Commands :
       \/ Request(c)
       \/ \E decision \in {"approved", "rejected"} : Decide(c, decision)
       \/ PollStep(c)
  \/ PollFetch
  \/ HandleState
  \/ \E a \in ActionStates : AckStep(a)
  \/ BridgeRestart
  \/ SimReceive
  \/ \E v \in Verdicts : SimApply(v)
  \/ \E r \in Robots : PublishState(r)
  \/ SimRestart

Spec == Init /\ [][Next]_vars

\* Threads keep running: the poll loop, the bridge's and the simulator's MQTT
\* threads, and the simulator's tick. Nobody has to request or decide.
Fairness ==
  /\ WF_vars(PollFetch)
  /\ \A c \in Commands : WF_vars(PollStep(c))
  /\ WF_vars(HandleState)
  /\ \A a \in ActionStates : WF_vars(AckStep(a))
  /\ WF_vars(SimReceive)
  /\ WF_vars(\E v \in Verdicts : SimApply(v))
  /\ \A r \in Robots : WF_vars(PublishState(r))

FairSpec == Spec /\ Fairness
-----------------------------------------------------------------------------
(* Properties *)

\* The state of every party has its type.
TypeOK ==
  /\ row \in [Commands -> Statuses]
  /\ everApproved \subseteq Commands /\ overwritten \subseteq Commands
  /\ bpend \subseteq Commands /\ bdone \subseteq Commands
  /\ known \subseteq Robots
  /\ batch \subseteq Commands /\ sent \in BOOLEAN
  /\ ack \subseteq ActionStates
  /\ down \in Seq(Commands)
  /\ up \in Seq([robot : Robots, actions : SUBSET ActionStates])
  /\ seen \subseteq Commands
  /\ incoming \in Seq(Commands)
  /\ verdict \in [Commands -> Verdicts]
  /\ left \in [Commands -> 0 .. Repeats]
  /\ pubs \in [Commands -> Nat]
  /\ applied \in [Commands -> Nat]
  /\ outcomes \in [Commands -> SUBSET Verdicts]
  /\ unsited \subseteq Commands
  /\ budget \in Budgets

\* No robot carries out a command unless a human approved that very row, an
\* executor knows its verb, and it belongs to the bridge's site: however often
\* any process restarts, and also when the backend ignores the site filter. The
\* one way in for a row of another site is an answer that ignores the filter
\* and has no site_id column either, which _site_ok lets pass with a warning.
OnlyApprovedIsApplied ==
  \A c \in Commands :
    applied[c] > 0 => c \in everApproved \cap Supported \cap (Home \cup unsited)

\* The bridge does not invent a completion status: an executed row is one the
\* robot reported FINISHED, a failed row one it reported FAILED or one that
\* no executor supports (ARCHITECTURE.md, section 6).
RowTellsOutcome ==
  \A c \in Commands :
    /\ row[c] = "executed" => "FINISHED" \in outcomes[c]
    /\ row[c] = "failed" => "FAILED" \in outcomes[c] \/ c \notin Supported

\* A command takes effect at most once in the life of the simulator process,
\* although the bridge may publish it again after a restart.
AppliedOncePerLife ==
  \A c \in Commands : applied[c] <= 1 + (MaxSimRestarts - budget.sim)

\* A bridge process publishes a command at most once.
PublishedOncePerLife ==
  \A c \in Commands : pubs[c] <= 1 + (MaxBridgeRestarts - budget.bridge)

\* What the bridge puts on the wire is approved at that moment: a row that the
\* MQTT thread closes while the poll thread holds an older GET of it is not
\* published again. A bare PATCH of the anonymous console may reject a row after
\* the GET, and what it decided twice is excepted.
PublishesOnlyApproved ==
  [][\A c \in Commands :
       pubs'[c] # pubs[c] => row[c] = "approved" \/ c \in overwritten]_vars

\* The loop implements the gate for as long as the simulator, whose memory of
\* the commands it carried out is all that tells a repeat from a new one, lives,
\* and no bare PATCH has decided a row twice.
Gate == INSTANCE CommandGate
ImplementsGate ==
  /\ Gate!Init
  /\ [][budget'.sim = MaxSimRestarts /\ overwritten' = {} => Gate!Next]_<<row, outcomes>>

Closed(c) == row[c] \in {"executed", "failed"}

\* An approved command of the site reaches a robot and is closed, as long as
\* fewer state messages and PATCHes are lost than a result has repeats.
ApprovedIsClosed ==
  \A c \in Home : row[c] = "approved" ~> Closed(c)

\* commands.py:28 says a fresh row is all it takes after a lost command: an
\* approved row is published sooner or later.
ApprovedIsPublished ==
  \A c \in Home \cap Supported : row[c] = "approved" ~> pubs[c] > 0
=============================================================================
