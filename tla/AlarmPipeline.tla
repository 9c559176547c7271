---------------------------- MODULE AlarmPipeline ----------------------------
(***************************************************************************)
(* From a robot's fault to a human: yantradetect writes the incidents      *)
(* table, yantranotify reads it, and the alerts of the fleet, through its  *)
(* own polls. The two processes share nothing but the database.            *)
(***************************************************************************)
EXTENDS IncidentDetector

CONSTANTS
  Alerts,            \* crit and serious alerts that may be raised
  MaxRows,           \* bound: incidents of a robot
  StateFiles, DigestThreshold, BreakerThreshold, MaxPending,
  MaxFailures, MaxLostReplies, MaxCrashes

VARIABLES alerts,    \* alerts raised so far, and whether they are acked
          useFile, seen, file, pc, batch, outbox, pending, failures, paused,
          round, last, delivered, loaded, dropped, luck

AlertKey(a) == <<"alert", a, 0>>
IncidentKey(r, i) == <<"incident", r, i>>

Keys == {AlertKey(a) : a \in Alerts}
          \cup {IncidentKey(r, i) : r \in Robots, i \in 1 .. MaxRows}

\* What AlertSource finds: ack=eq.false alerts and state=eq.Open incidents.
Notifiable ==
  {AlertKey(a) : a \in {b \in Alerts : alerts[b] = "raised"}}
    \cup {IncidentKey(p[1], p[2]) : p \in
            {q \in Robots \X (1 .. MaxRows) : q[2] \in OpenRows(q[1])}}

N == INSTANCE Notifier WITH alarms <- Notifiable, todo <- outbox, budget <- luck

ASSUME PipelineAssumption == MaxRows \in Nat /\ N!Constants

notifierVars == <<useFile, seen, file, pc, batch, outbox, pending, failures,
                  paused, round, last, delivered, loaded, dropped, luck>>
pipelineVars == <<vars, alerts, notifierVars>>

PipelineInit ==
  /\ Init
  /\ alerts = [a \in Alerts |-> "none"]
  /\ N!Init

\* yantrabridge or the simulator raises an alert; an operator acknowledges it.
Raise(a) ==
  /\ alerts[a] = "none"
  /\ alerts' = [alerts EXCEPT ![a] = "raised"]
  /\ UNCHANGED <<vars, notifierVars>>

Acknowledge(a) ==
  /\ alerts[a] = "raised"
  /\ alerts' = [alerts EXCEPT ![a] = "acked"]
  /\ UNCHANGED <<vars, notifierVars>>

Detects == Next /\ UNCHANGED <<alerts, notifierVars>>
Notifies == UNCHANGED <<vars, alerts>> /\ N!Next

PipelineNext ==
  \/ Detects
  \/ Notifies
  \/ \E a \in Alerts : Raise(a) \/ Acknowledge(a)

\* Both loops go on, requests are made, and pauses of the channel end.
PipelineSpec ==
  /\ PipelineInit /\ [][PipelineNext]_pipelineVars
  /\ WF_pipelineVars(Poll /\ UNCHANGED <<alerts, notifierVars>>)
  /\ WF_pipelineVars((\E a \in todo : Write(a)) /\ UNCHANGED <<alerts, notifierVars>>)
  /\ WF_pipelineVars(UNCHANGED <<vars, alerts>> /\ N!Step)
  /\ WF_pipelineVars(UNCHANGED <<vars, alerts>> /\ N!PauseOver)

-----------------------------------------------------------------------------
(* Properties of the notifier, with its module's names *)

NoLoss == N!NoLoss
AnnouncedOnce == N!AnnouncedOnce
InOrder == N!InOrder

\* Nobody is woken for nothing: what was announced is an alert that was raised,
\* or an incident whose row the detector wrote (source.py:133).
NoFalseAlarm ==
  /\ \A a \in Alerts : delivered[AlertKey(a)] > 0 => alerts[a] # "none"
  /\ \A r \in Robots, i \in 1 .. MaxRows :
       delivered[IncidentKey(r, i)] > 0 =>
         i \in 1 .. Len(incidents[r]) /\ incidents[r][i] # "unborn"

\* A human learns of a robot that stays bad, through an incident that is open:
\* as long as the detector loses no write, the queue drops nothing, and no life
\* of the notifier ends with a state file that runs ahead of its queue.
BadIsAnnounced ==
  [](NothingLost /\ dropped = {} /\ (useFile => luck.crashes = MaxCrashes)) =>
    \A r \in Robots :
      <>[](robot[r] \in Bad) =>
        <>(\E i \in OpenRows(r) : delivered[IncidentKey(r, i)] > 0)
=============================================================================
