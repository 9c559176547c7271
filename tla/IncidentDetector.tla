-------------------------- MODULE IncidentDetector --------------------------
(***************************************************************************)
(* yantradetect: a poll loop feeds snapshots of the robots table to the    *)
(* IncidentEngine, whose actions the PostgRESTSink writes to the incidents *)
(* table.                                                                  *)
(*                                                                         *)
(*   detector/yantradetect/engine.py    IncidentEngine                     *)
(*   detector/yantradetect/sink.py      PostgRESTSink                      *)
(*   detector/yantradetect/__main__.py  run                                *)
(*                                                                         *)
(* Time is counted in polls. Titles, durations and impacts are left out,   *)
(* and with them the once-a-minute PATCH of an open row, which leaves its  *)
(* state alone, and the flap count, which only marks an impact. The rows   *)
(* of a robot are numbered in the order in which the engine opens them:    *)
(* two incidents never share the id the engine derives by hashing.         *)
(***************************************************************************)
EXTENDS Integers, Sequences, FiniteSets

CONSTANTS
  Robots,
  Tunings,         \* the settings app_config may give, the window in polls
  Cap,             \* bound of the counters, beyond every threshold
  MaxChanges,      \* bound: changes of a robot's status
  MaxFailedPolls,  \* bound: failed GETs of the robots
  MaxLostWrites,   \* bound: failed POSTs and PATCHes
  MaxFailedSeeds,  \* bound: restarts whose GET of the open rows fails
  MaxRestarts,     \* bound
  MaxRetunes       \* bound

ASSUME DetectorAssumption ==
  /\ \A t \in Tunings :
       /\ {t.pending, t.clear} \subseteq 1 .. Cap
       /\ {t.reopen, t.stale} \subseteq 0 .. Cap - 1
  /\ Cap \in Nat /\ Tunings # {}
  /\ {MaxChanges, MaxFailedPolls, MaxLostWrites, MaxFailedSeeds, MaxRestarts,
      MaxRetunes} \subseteq Nat

\* Statuses are read through yantracore's normalize: "ok" is any status
\* outside NOT_OPERATING; an "absent" robot has no row.
Bad == {"fault", "estop"}
Statuses == Bad \cup {"ok", "absent"}
States == {"unborn", "Open", "Resolved"}

VARIABLES
  robot,      \* the robots table: status of each robot
  eng,        \* IncidentEngine, its dictionaries as one record per robot
  tuning,     \* the engine's settings
  incidents,  \* incidents[r]: state of r's rows; "unborn" before the POST
  todo,       \* actions of the last observe() not yet written
  shown,      \* history: the last statuses each robot was seen with
  gone,       \* history: polls in a row a robot was absent from
  budget      \* what the environment may still do

vars == <<robot, eng, tuning, incidents, todo, shown, gone, budget>>

Budgets == [changes : 0 .. MaxChanges, polls : 0 .. MaxFailedPolls,
            writes : 0 .. MaxLostWrites, seeds : 0 .. MaxFailedSeeds,
            restarts : 0 .. MaxRestarts, retunes : 0 .. MaxRetunes]

Spend(kind) ==
  /\ budget[kind] > 0
  /\ budget' = [budget EXCEPT ![kind] = @ - 1]

\* No write and no seed was lost so far.
NothingLost == budget.writes = MaxLostWrites /\ budget.seeds = MaxFailedSeeds

\* open, recent: row number, 0 for none; age: polls since recent was resolved.
Blank == [open |-> 0, recent |-> 0, age |-> 0, bad |-> 0, cond |-> "none",
          clear |-> 0, missing |-> 0]

Init ==
  /\ robot = [r \in Robots |-> "ok"]
  /\ eng = [r \in Robots |-> Blank]
  /\ tuning \in Tunings
  /\ incidents = [r \in Robots |-> <<>>]
  /\ todo = {}
  /\ shown = [r \in Robots |-> <<>>]
  /\ gone = [r \in Robots |-> 0]
  /\ budget = [changes |-> MaxChanges, polls |-> MaxFailedPolls,
               writes |-> MaxLostWrites, seeds |-> MaxFailedSeeds,
               restarts |-> MaxRestarts, retunes |-> MaxRetunes]

-----------------------------------------------------------------------------
(* IncidentEngine.observe for one robot of status s *)

Up(n) == IF n < Cap THEN n + 1 ELSE Cap

Older(e) == IF e.recent = 0 THEN e ELSE [e EXCEPT !.age = Up(@)]

\* mutant: a change of condition does not restart the pending window
AnyBad(e, s) == e.cond # "none"
SameCondition(e, s) == e.cond = s

\* mutant: the polls a robot missed are never forgotten
MissingKept(e) == e.missing
MissingWhenSeen(e) == 0

\* The counters, which every poll updates first.
Counted(e, s) ==
  CASE s \in Bad ->
         [e EXCEPT !.clear = 0, !.missing = MissingWhenSeen(e), !.cond = s,
                   !.bad = IF SameCondition(e, s) THEN Up(@) ELSE 1]
    [] s = "ok" ->
         [e EXCEPT !.bad = 0, !.cond = "none", !.missing = MissingWhenSeen(e),
                   !.clear = IF e.open = 0 THEN @ ELSE Up(@)]
    [] s = "absent" ->
         [e EXCEPT !.missing = IF e.open = 0 THEN @ ELSE Up(@)]

\* mutant: a robot that vanished keeps its incident
NeverStale(e, s) == FALSE
Stale(e, s) == s = "absent" /\ e.missing > tuning.stale

Opens(e, s) == s \in Bad /\ e.open = 0 /\ e.bad >= tuning.pending
Reopens(e, s) == Opens(e, s) /\ e.recent # 0 /\ e.age <= tuning.reopen
Resolves(e, s) ==
  e.open # 0 /\ ((s = "ok" /\ e.clear >= tuning.clear) \/ Stale(e, s))

\* _expire_recent
Expired(e) ==
  IF e.recent # 0 /\ e.age > tuning.reopen
  THEN [e EXCEPT !.recent = 0, !.age = 0] ELSE e

\* The robot's record once counted, and what it is after the poll.
Now(r) == Counted(Older(eng[r]), robot[r])

After(r) ==
  LET e == Now(r) s == robot[r]
  IN  Expired(
        CASE Reopens(e, s) ->
               [e EXCEPT !.open = e.recent, !.recent = 0, !.age = 0]
          [] Opens(e, s) /\ ~Reopens(e, s) ->
               [e EXCEPT !.open = Len(incidents[r]) + 1]
          [] Resolves(e, s) ->
               [e EXCEPT !.recent = e.open, !.open = 0, !.age = 0, !.clear = 0]
          [] OTHER -> e)

Fresh(r) == Opens(Now(r), robot[r]) /\ ~Reopens(Now(r), robot[r])

ActionRecords == [src : Robots, id : Nat, op : {"open", "patch"},
                  state : {"Open", "Resolved"}]

\* The action the poll implies for a robot, if any.
Emitted(r) ==
  LET e == Now(r) s == robot[r]
      Act(id, op, state) == {[src |-> r, id |-> id, op |-> op, state |-> state]}
  IN  CASE Reopens(e, s)  -> Act(e.recent, "patch", "Open")
        [] Fresh(r)       -> Act(Len(incidents[r]) + 1, "open", "Open")
        [] Resolves(e, s) -> Act(e.open, "patch", "Resolved")
        [] OTHER          -> {}

-----------------------------------------------------------------------------
(* The poll loop of __main__.run *)

\* Of a sequence, the newest Cap elements.
Newest(q) == SubSeq(q, IF Len(q) > Cap THEN Len(q) - Cap + 1 ELSE 1, Len(q))

\* fetch_robots succeeds; the snapshot is observed.
Poll ==
  /\ todo = {}
  /\ eng' = [r \in Robots |-> After(r)]
  /\ todo' = UNION {Emitted(r) : r \in Robots}
  /\ incidents' = [r \in Robots |-> IF Fresh(r) THEN Append(incidents[r], "unborn")
                                    ELSE incidents[r]]
  /\ shown' = [r \in Robots |-> IF robot[r] = "absent" THEN shown[r]
                                ELSE Newest(Append(shown[r], robot[r]))]
  /\ gone' = [r \in Robots |-> IF robot[r] = "absent" THEN Up(gone[r]) ELSE 0]
  /\ UNCHANGED <<robot, tuning, budget>>

\* fetch_robots raises: a poll's time passes and nothing is observed.
FailedPoll ==
  /\ todo = {}
  /\ Spend("polls")
  /\ eng' = [r \in Robots |-> Older(eng[r])]
  /\ UNCHANGED <<robot, tuning, incidents, todo, shown, gone>>

\* PostgRESTSink.apply, one request: an open is an upsert, a PATCH of a row
\* that is not there changes none. A failure is logged and the action forgotten.
\* The actions of a poll are of different robots, so their order is left open.
Write(a) ==
  /\ a \in todo
  /\ todo' = todo \ {a}
  /\ \/ /\ incidents' =
             IF a.op = "patch" /\ incidents[a.src][a.id] = "unborn"
             THEN incidents
             ELSE [incidents EXCEPT ![a.src][a.id] = a.state]
        /\ UNCHANGED budget
     \/ /\ Spend("writes")
        /\ UNCHANGED incidents
  /\ UNCHANGED <<robot, eng, tuning, shown, gone>>

\* _apply_live_engine_tuning, between two polls.
Retune(t) ==
  /\ todo = {}
  /\ t # tuning
  /\ Spend("retunes")
  /\ tuning' = t
  /\ UNCHANGED <<robot, eng, incidents, todo, shown, gone>>

OpenRows(r) == {i \in 1 .. Len(incidents[r]) : incidents[r][i] = "Open"}

\* IncidentEngine.seed: of a robot's open rows the last one read is kept.
\* mutant: the engine starts blank
SeedNothing(e) == \A r \in Robots : e[r] = Blank
Seeded(e) ==
  \A r \in Robots :
    \/ OpenRows(r) = {} /\ e[r] = Blank
    \/ \E i \in OpenRows(r) : e[r] = [Blank EXCEPT !.open = i]

\* The records a starting engine may hold.
SeedRecords ==
  {Blank} \cup UNION {{[Blank EXCEPT !.open = i] : i \in OpenRows(r)} : r \in Robots}

\* The process dies, between two polls or with actions unwritten, and starts
\* again. When the seed's GET fails it starts blank.
Restart ==
  /\ budget.restarts > 0
  /\ \/ /\ eng' \in [Robots -> SeedRecords]
        /\ Seeded(eng')
        /\ budget' = [budget EXCEPT !.restarts = @ - 1]
     \/ /\ budget.seeds > 0
        /\ eng' = [r \in Robots |-> Blank]
        /\ budget' = [budget EXCEPT !.restarts = @ - 1, !.seeds = @ - 1]
  /\ todo' = {}
  /\ UNCHANGED <<robot, tuning, incidents, shown, gone>>

-----------------------------------------------------------------------------
\* The fleet: a robot's row changes, appears or goes.
Change(r, s) ==
  /\ robot[r] # s
  /\ Spend("changes")
  /\ robot' = [robot EXCEPT ![r] = s]
  /\ UNCHANGED <<eng, tuning, incidents, todo, shown, gone>>

Next ==
  \/ Poll
  \/ FailedPoll
  \/ \E a \in todo : Write(a)
  \/ \E t \in Tunings : Retune(t)
  \/ Restart
  \/ \E r \in Robots, s \in Statuses : Change(r, s)

Spec == Init /\ [][Next]_vars

\* The loop goes on, and each action gets its request.
FairSpec == Spec /\ WF_vars(Poll) /\ WF_vars(\E a \in todo : Write(a))

-----------------------------------------------------------------------------
(* Properties *)

\* Every part has its type, and the engine only names rows that it opened.
TypeOK ==
  /\ robot \in [Robots -> Statuses]
  /\ tuning \in Tunings
  /\ incidents \in [Robots -> Seq(States)]
  /\ eng \in [Robots -> [open : Nat, recent : Nat, age : 0 .. Cap, bad : 0 .. Cap,
                         cond : Bad \cup {"none"}, clear : 0 .. Cap,
                         missing : 0 .. Cap]]
  /\ \A r \in Robots : {eng[r].open, eng[r].recent} \subseteq 0 .. Len(incidents[r])
  /\ todo \subseteq ActionRecords
  /\ \A a \in todo : a.id \in 1 .. Len(incidents[a.src])
  /\ shown \in [Robots -> Seq(Statuses)]
  /\ gone \in [Robots -> 0 .. Cap]
  /\ budget \in Budgets

\* At most one open incident per robot (engine.py:12), across restarts at any
\* moment, as long as no write and no seed was lost.
OneOpenPerRobot ==
  NothingLost => \A r \in Robots : Cardinality(OpenRows(r)) <= 1

\* The last n statuses a robot was seen with are all in S.
LastSeen(r, n, S) ==
  /\ Len(shown[r]) >= n
  /\ \A i \in Len(shown[r]) - n + 1 .. Len(shown[r]) : shown[r][i] \in S

\* Flap guard (engine.py:14): an incident opens or re-opens only when the robot
\* was seen in one and the same bad condition pending_polls times in a row,
\* whatever restarts, gaps and changes of the setting lie between.
OpensConfirmed ==
  [][\A a \in todo' \ todo : a.state = "Open" =>
       \E c \in Bad : LastSeen(a.src, tuning.pending, {c})']_vars

\* Clear hold and stale TTL (engine.py:17, 24): an incident is resolved only when
\* the robot was seen clear clear_polls times in a row, or was absent from more
\* than stale_polls polls in a row.
ResolvesConfirmed ==
  [][\A a \in todo' \ todo : a.state = "Resolved" =>
       \/ LastSeen(a.src, tuning.clear, {"ok"})'
       \/ gone'[a.src] > tuning.stale]_vars

HasOpen(r) == OpenRows(r) # {}

\* The next poll re-derives the state (sink.py:53): the table ends up showing an
\* open incident for a robot that stays bad, and none for one that stays clear
\* or away.
RederivesState ==
  \A r \in Robots :
    /\ <>[](robot[r] \in Bad) => <>[]HasOpen(r)
    /\ <>[](robot[r] \notin Bad) => <>[]~HasOpen(r)

\* It does so as long as no write and no seed is lost, through failed polls,
\* restarts and changes of the settings.
TableConverges == []NothingLost => RederivesState
=============================================================================
