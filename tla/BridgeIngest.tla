----------------------------- MODULE BridgeIngest -----------------------------
(***************************************************************************)
(* The other half of yantrabridge: state messages of a vehicle become a    *)
(* robot row and alert rows. A paho thread per MQTT source runs on_state;  *)
(* the configuration thread replaces the source when the broker parameters *)
(* change and moves the battery threshold under the ledger of alerts. A    *)
(* write to the tables may fail, and the message is then dropped.          *)
(*                                                                         *)
(*   connector/yantrabridge/__main__.py      on_state                      *)
(*   connector/yantrabridge/mqtt_runtime.py  MqttConnectionManager,        *)
(*                                           LiveMqttConfig                *)
(*   connector/yantrabridge/sources.py       MqttSource                    *)
(*   connector/yantrabridge/translate.py     AlertDeduper                  *)
(*   connector/yantrabridge/sink.py          SupabaseSink.push             *)
(*                                                                         *)
(* One vehicle: the ledger, the row and the alert ids are per serial. The  *)
(* sources of two brokers hear the same vehicle, as during a move of the   *)
(* fleet from one broker to another. A message is known by its timestamp.  *)
(***************************************************************************)
EXTENDS Integers, Sequences, FiniteSets

CONSTANTS
  Errors,       \* error conditions: errorType and errorLevel
  Messages,     \* contents of state messages: [errors, charge]
  Thresholds,   \* values CONNECTOR_BATTERY_THRESHOLD takes
  Hysteresis,   \* BATTERY_HYSTERESIS
  Brokers,      \* the MQTT parameters that may be configured
  Initial,      \* the parameters at startup
  Battery,      \* the threshold at startup
  MaxMessages,  \* bound: messages the vehicle publishes
  MaxPolls      \* bound: polls of the configuration that change something

\* The condition of the battery; the others have keys of another form.
Low == "battery:low"

\* What the code assumes of its parameters.
Constants ==
  /\ Low \notin Errors
  /\ Messages \subseteq [errors : SUBSET Errors, charge : Nat]
  /\ Thresholds \subseteq Nat /\ Battery \in Thresholds
  /\ Hysteresis \in Nat /\ MaxMessages \in Nat /\ MaxPolls \in Nat
  /\ Initial \in Brokers

VARIABLES
  log,        \* the messages the vehicle has published
  source,     \* each broker's source: connected or not, the messages waiting,
              \* and the message its thread is at
  current,    \* manager._params: the broker of the source in use
  retiring,   \* the broker of the source being stopped, as a set of at most one
  polls,      \* polls that have changed something
  threshold,  \* deduper.battery_threshold
  active,     \* deduper._active
  alerts,     \* the alert rows, as <<condition, message>>
  fed,        \* history: the messages fed to the ledger, with the threshold
  lost,       \* history: alerts whose write failed or was never tried
  stale       \* history: a ledger update was made from an outdated view

vars == <<log, source, current, retiring, polls, threshold, active, alerts,
          fed, lost, stale>>

Off == [on |-> FALSE, waiting |-> <<>>, at |-> "idle", message |-> 0,
        seen |-> {}, due |-> {}]
On == [Off EXCEPT !.on = TRUE]

Init ==
  /\ log = <<>>
  /\ current = Initial
  /\ source = [b \in Brokers |-> IF b = current THEN On ELSE Off]
  /\ retiring = {} /\ polls = 0
  /\ threshold = Battery
  /\ active = {} /\ alerts = {}
  /\ fed = <<>> /\ lost = {} /\ stale = FALSE

ledger == <<active, fed, stale>>
broker == <<current, retiring, polls>>

----------------------------------------------------------------------------
(* The vehicle and the brokers.                                            *)

\* A state message: every connected source receives it.
Publish(m) ==
  /\ Len(log) < MaxMessages
  /\ log' = Append(log, m)
  /\ source' = [b \in Brokers |->
       IF source[b].on
       THEN [source[b] EXCEPT !.waiting = Append(@, Len(log) + 1)]
       ELSE source[b]]
  /\ UNCHANGED <<broker, threshold, ledger, alerts, lost>>

----------------------------------------------------------------------------
(* on_state, in the thread of a source.                                    *)

Message(b) == log[source[b].message]

\* Where the thread is, with which message, what it saw and has to push.
Turn(b, waiting, at, message, view, due) ==
  source' = [source EXCEPT ![b] =
    [on |-> @.on, waiting |-> waiting, at |-> at, message |-> message,
     seen |-> view, due |-> due]]

\* The callback is over, with what it still had in hand.
Idle(b) == Turn(b, source[b].waiting, "idle", 0, {}, {})

\* The thread takes the next message, and process() looks up the conditions
\* that are active: whatever happens between the two might as well come first.
Receive(b) ==
  /\ source[b].on
  /\ source[b].at = "idle" /\ source[b].waiting # <<>>
  /\ Turn(b, Tail(source[b].waiting), "feed", Head(source[b].waiting), active, {})
  /\ UNCHANGED <<log, broker, threshold, ledger, alerts, lost>>

\* Conditions a message reports, and those it retires.
Reported(m) == m.errors \cup (IF m.charge <= threshold THEN {Low} ELSE {})

\* mutant: the alert is retired as soon as the charge is above the threshold
RetiredAtOnce(m) ==
  (Errors \ m.errors) \cup (IF m.charge > threshold THEN {Low} ELSE {})

Retired(m) ==
  (Errors \ m.errors)
    \cup (IF m.charge > threshold + Hysteresis THEN {Low} ELSE {})

\* AlertDeduper.process: alerts for the conditions that were not active.
Feed(b) ==
  /\ source[b].at = "feed"
  /\ LET m == Message(b)
         new == Reported(m) \ source[b].seen
     IN  /\ active' = (active \cup new) \ Retired(m)
         /\ Turn(b, source[b].waiting, "push", source[b].message, {},
                 {<<k, source[b].message>> : k \in new})
  /\ fed' = Append(fed, [message |-> source[b].message, threshold |-> threshold])
  /\ stale' = (stale \/ source[b].seen # active)
  /\ UNCHANGED <<log, broker, threshold, alerts, lost>>

\* SupabaseSink.push: the robot row is upserted and the alerts are inserted, an
\* id that exists is ignored; the heartbeat follows.
Push(b) ==
  /\ source[b].at = "push"
  /\ alerts' = alerts \cup source[b].due
  /\ Idle(b)
  /\ UNCHANGED <<log, broker, threshold, ledger, lost>>

\* Either write raises: the callback prints the error and drops the message.
PushFails(b) ==
  /\ source[b].at = "push"
  /\ lost' = lost \cup source[b].due
  /\ Idle(b)
  /\ UNCHANGED <<log, broker, threshold, ledger, alerts>>

----------------------------------------------------------------------------
(* The configuration thread.                                               *)

\* The configuration thread polls unless it is stopping a source.
Polls == retiring = {} /\ polls < MaxPolls /\ polls' = polls + 1

\* A new threshold, at any moment of a feed.
SetThreshold(t) ==
  /\ Polls
  /\ threshold # t
  /\ threshold' = t
  /\ UNCHANGED <<log, source, current, retiring, ledger, alerts, lost>>

\* mutant: the old source is stopped before the new one is connected
ReconnectBlindly(b) ==
  /\ Polls /\ b # current
  /\ source' = [source EXCEPT ![current].on = FALSE]
  /\ retiring' = {current}
  /\ UNCHANGED <<log, current, threshold, ledger, alerts, lost>>

\* The new source connects and is in use at once; one that cannot connect
\* changes nothing.
Reconnect(b) ==
  /\ Polls /\ b # current
  /\ source' = [source EXCEPT ![b] = On]
  /\ current' = b /\ retiring' = {current}
  /\ UNCHANGED <<log, threshold, ledger, alerts, lost>>

\* disconnect_stop of the old source: it waits for the callback of its thread;
\* what still waits on that connection is gone.
Retire(b) ==
  /\ b \in retiring /\ source[b].at = "idle"
  /\ source' = [source EXCEPT ![b] = Off]
  /\ retiring' = {}
  /\ UNCHANGED <<log, current, polls, threshold, ledger, alerts, lost>>

Thread(b) ==
  Feed(b) \/ Push(b) \/ PushFails(b)

Next ==
  \/ \E m \in Messages : Publish(m)
  \/ \E b \in Brokers : Receive(b) \/ Thread(b) \/ Reconnect(b) \/ Retire(b)
  \/ \E t \in Thresholds : SetThreshold(t)

Spec == Init /\ [][Next]_vars

----------------------------------------------------------------------------
(* Properties.                                                             *)

TypeOK ==
  /\ log \in Seq(Messages) /\ Len(log) <= MaxMessages
  /\ current \in Brokers /\ Cardinality(retiring) <= 1
  /\ active \subseteq Errors \cup {Low}
  /\ alerts \cup lost \subseteq (Errors \cup {Low}) \X (1..Len(log))

\* What the i-th message fed says of a condition.
Holds(k, i) ==
  LET m == log[fed[i].message]
  IN  IF k = Low THEN m.charge <= fed[i].threshold ELSE k \in m.errors

Clears(k, i) ==
  LET m == log[fed[i].message]
  IN  IF k = Low THEN m.charge > fed[i].threshold + Hysteresis
      ELSE k \notin m.errors

\* The condition held since some earlier message and was never cleared.
Ongoing(k, i) ==
  \E j \in 1..(i - 1) : Holds(k, j) /\ \A l \in (j + 1)..(i - 1) : ~Clears(k, l)

Occurrences ==
  UNION {{<<k, fed[i].message>> :
            i \in {j \in 1..Len(fed) : Holds(k, j) /\ ~Ongoing(k, j)}} :
         k \in Errors \cup {Low}}

Due == UNION {source[b].due : b \in Brokers}

\* Whatever thresholds came and went, a condition is alerted exactly once each
\* time it begins in the messages fed, and only a failed write loses the alert
\* (AlertDeduper: "emitted only when the condition transitions from inactive
\* -> active"). Two sources may break it only by updating the ledger from an
\* outdated view.
EveryOccurrenceAlerted ==
  ~stale => alerts \cup Due \cup lost = Occurrences

\* The source in use is always connected, and a second one only until the
\* configuration thread is done with it, so that no message is fed twice for
\* longer (MqttConnectionManager: never "NO broker connection at all").
SourceInUse ==
  /\ source[current].on
  /\ \A b \in Brokers : source[b].on => b \in {current} \cup retiring

=============================================================================
