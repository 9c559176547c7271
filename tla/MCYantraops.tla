----------------------------- MODULE MCYantraops -----------------------------
(***************************************************************************)
(* Small instances of the operator's tools: what yantraops runs, and the   *)
(* conformance tester. One behaviour runs one of them, and the variables   *)
(* of the others keep their initial values:                                *)
(*   migrate  the migration runner (Migrations);                           *)
(*   mints    the sandboxes of a box, without the reaper (DemoSandbox);    *)
(*   reaps    the same, with the reaper, one thread and no sweeper;        *)
(*   door     their door's quotas and its cached limits (SandboxDoor);     *)
(*   up       the whole stack in one process (FleetStack);                 *)
(*   conform  the conformance tester, against every kind of vehicle        *)
(*            (ConformanceRun).                                            *)
(* The floor plan of the fleets (FloorPlan) is evaluated on a small floor. *)
(***************************************************************************)
EXTENDS OperatorTools, ConformanceRun

CONSTANTS s1, s2, t1, t2, v1, v2

LOCAL F == INSTANCE FloorPlan WITH
  Rows <- 2, Cols <- 3, Chargers <- {<<0, 0>>, <<1, 2>>}, Docks <- {<<0, 2>>}

ASSUME FloorPlanChecked ==
  /\ \A fleet \in F!Fleets(7) : F!ParkedApart(fleet)
  /\ \A fleet \in F!Fleets(3) : F!StartsWhereParked(fleet)
  /\ \A k \in 1..6, index \in 0..2, status \in {"active", "idle"}, steps \in 1..6 :
       F!TrailEndsAtNode(F!Node(k), index, status, steps)

VARIABLE which

MCInit ==
  /\ which \in {"migrate", "mints", "reaps", "door", "up", "conform"}
  /\ Init /\ Box!Init /\ Door!Init /\ Stack!Init /\ RunInit
  /\ which # "conform" =>
       defect = "none" /\ t.left = 0 /\ o.active /\ o.willsObservable

Resting(actors) == \A a \in actors : actor'[a].at = "idle"

MCNext ==
  /\ UNCHANGED which
  /\ \/ which = "migrate" /\ Next /\ UNCHANGED <<boxVars, doorVars, stackVars, runVars>>
     \/ /\ \/ which = "mints" /\ Box!Next /\ Resting({"reaper"})
           \/ which = "reaps" /\ Box!Next /\ Resting({"sweeper", t2})
        /\ UNCHANGED <<vars, doorVars, stackVars, runVars>>
     \/ which = "door" /\ Door!Next /\ UNCHANGED <<vars, boxVars, stackVars, runVars>>
     \/ which = "up" /\ Stack!Next /\ UNCHANGED <<vars, boxVars, doorVars, runVars>>
     \/ which = "conform" /\ RunNext /\ UNCHANGED <<vars, boxVars, doorVars, stackVars>>

\* DemoSandbox's Fairness, while the box is what runs.
MCFairness ==
  /\ \A s \in Sites :
       WF_boxVars(which \in {"mints", "reaps"} /\ Box!Deadline(s))
  /\ WF_boxVars(which \in {"mints", "reaps"} /\ Box!Tick)

MCSpec ==
  /\ MCInit /\ [][MCNext]_<<which, vars, boxVars, doorVars, stackVars, runVars>>
  /\ MCFairness
=============================================================================
