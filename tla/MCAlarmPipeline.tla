-------------------------- MODULE MCAlarmPipeline --------------------------
(***************************************************************************)
(* Small instances of the way from a fault to a human: one robot, one      *)
(* alert. One behaviour runs one of them; in the first, the notifier's     *)
(* variables keep their initial values:                                    *)
(*   detector  the detector alone, under every kind of failure             *)
(*             (IncidentDetector);                                         *)
(*   pipeline  the detector, undisturbed, and the notifier, under its own  *)
(*             failures (AlarmPipeline).                                   *)
(***************************************************************************)
EXTENDS AlarmPipeline

\* Thresholds of two polls, and a second setting that lowers or raises each.
Settings == { [pending |-> 2, clear |-> 1, reopen |-> 2, stale |-> 1],
              [pending |-> 1, clear |-> 2, reopen |-> 1, stale |-> 2] }
Prompt == [pending |-> 1, clear |-> 1, reopen |-> 1, stale |-> 1]
Tuned == Settings \cup {Prompt}

VARIABLE which

MCInit ==
  /\ which \in {"detector", "pipeline"}
  /\ PipelineInit
  /\ which = "detector" => ~useFile /\ tuning \in Settings
  /\ which = "pipeline" => tuning = Prompt

\* Bounds. detector: of a failed poll, a lost write, a restart and a change of the
\* settings, two in one behaviour.
Upsets ==
  (MaxFailedPolls - budget.polls) + (MaxLostWrites - budget.writes)
    + (MaxRestarts - budget.restarts) + (MaxRetunes - budget.retunes) <= 2

\* pipeline: one change of status, and nothing fails in the detector.
Undisturbed ==
  /\ budget.changes >= MaxChanges - 1
  /\ budget.polls = MaxFailedPolls /\ budget.restarts = MaxRestarts
  /\ budget.retunes = MaxRetunes /\ NothingLost

MCNext ==
  /\ UNCHANGED which
  /\ \/ which = "detector" /\ Detects /\ tuning' \in Settings /\ Upsets'
     \/ which = "pipeline" /\ PipelineNext /\ Undisturbed'

\* The fairness of both: the notifier's loop is none of the first instance.
MCSpec ==
  /\ MCInit /\ [][MCNext]_<<which, pipelineVars>>
  /\ WF_pipelineVars(Poll /\ UNCHANGED <<alerts, notifierVars>>)
  /\ WF_pipelineVars((\E a \in todo : Write(a)) /\ UNCHANGED <<alerts, notifierVars>>)
  /\ WF_pipelineVars(which = "pipeline" /\ UNCHANGED <<vars, alerts>> /\ N!Step)
  /\ WF_pipelineVars(which = "pipeline" /\ UNCHANGED <<vars, alerts>> /\ N!PauseOver)

\* AlarmPipeline's BadIsAnnounced, where there is a notifier: a human learns of a
\* robot that stays bad, but for the losses it names.
AlarmIsAnnounced == which = "pipeline" => BadIsAnnounced
=============================================================================
