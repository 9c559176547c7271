------------------------- MODULE OperatorToolsProofs -------------------------
(***************************************************************************)
(* What the migrations, the stack, the door of the demo sandboxes and      *)
(* their box keep, for any set of files and number of runners, any number  *)
(* of services, visitors, threads and sites, any limits and any length of  *)
(* the run.                                                                *)
(***************************************************************************)
EXTENDS OperatorTools, FiniteSetTheorems, SequenceTheorems, TLAPS

----------------------------------------------------------------------------
(* The ordering contract of the migrations, for any set of files, contents *)
(* and runners. Neither property is inductive: what a plan leaves to apply *)
(* has to be related to the rows it was made from (Planned), and the rows  *)
(* to the SQL that was run (Tracked).                                      *)

\* A row is recorded in the transaction of its file.
Tracked == table = schema

\* Whatever a run does not mean to apply, opt-in files aside, is recorded.
Planned ==
  \A r \in Runners : \A f \in Files :
    /\ runner[r].at = "read" /\ runner[r].seen[f] # {} => table[f] # {}
    /\ (runner[r].at = "apply" /\ f \notin OptIn /\ f \notin runner[r].left)
         => table[f] # {}

\* A run nobody overlapped has seen the rows as they are.
Fresh ==
  \A r \in Runners : runner[r].alone =>
    /\ \A q \in Runners \ {r} : runner[q].at = "rest"
    /\ runner[r].at = "read" => runner[r].seen = table
    /\ runner[r].at = "apply" =>
         \A f \in runner[r].left : table[f] # {runner[r].sql[f]}

Inv == TypeOK /\ Tracked /\ Planned /\ Fresh /\ SchemaIsPrefix

LEMMA RestIsRun == Rest \in Run /\ Rest.at = "rest" /\ ~Rest.alone
  BY MigrationsAssumption DEF Rest, Run, Absent

LEMMA InitInv == Init => Inv
  BY RestIsRun, MigrationsAssumption
  DEF Init, Inv, TypeOK, Tracked, Planned, Fresh, SchemaIsPrefix, Absent

\* Starting a run.
LEMMA ConnectKeeps ==
  ASSUME Inv, NEW r \in Runners, NEW optIn \in BOOLEAN, NEW force \in BOOLEAN,
         Connect(r, optIn, force)
  PROVE  Inv'
<1>1. /\ runner'[r] \in Run /\ runner'[r].at = "read"
      /\ runner'[r].alone = (Busy = {}) /\ runner'[r].seen = table
  BY RestIsRun, MigrationsAssumption DEF Inv, TypeOK, Connect, Rest, Run, Absent
<1>2. \A q \in Runners \ {r} :
        /\ runner'[q] \in Run /\ ~runner'[q].alone
        /\ runner'[q].at = runner[q].at /\ runner'[q].seen = runner[q].seen
        /\ runner'[q].left = runner[q].left /\ runner'[q].sql = runner[q].sql
  BY DEF Inv, TypeOK, Connect, Run
<1>3. disk' = disk /\ table' = table /\ schema' = schema
  BY DEF Connect
<1>4. runner' = [q \in Runners |-> runner'[q]]
  BY DEF Connect
<1>5. TypeOK'
  BY <1>1, <1>2, <1>3, <1>4 DEF Inv, TypeOK
<1>6. Planned'
  BY <1>1, <1>2, <1>3 DEF Inv, Planned
<1>7. Fresh'
  <2>1. ASSUME runner'[r].alone PROVE \A q \in Runners \ {r} : runner'[q].at = "rest"
    <3>1. Busy = {}
      BY <2>1, <1>1
    <3>2. \A q \in Runners : runner[q].at = "rest"
      BY <3>1 DEF Busy
    <3> QED BY <3>2, <1>2
  <2> QED BY <2>1, <1>1, <1>2, <1>3 DEF Fresh
<1> QED BY <1>3, <1>5, <1>6, <1>7 DEF Inv, Tracked, SchemaIsPrefix

\* What a plan leaves out is recorded, what it keeps is not run yet.
LEMMA PlanKeeps ==
  ASSUME Inv, NEW r \in Runners, Plan(r)
  PROVE  Inv'
<1> DEFINE kept == {f \in Discovered(runner[r].optIn) :
                      Pending(runner[r].seen, disk, runner[r].force, f)}
<1>1. /\ runner'[r] \in Run /\ runner'[r].at = "apply"
      /\ runner'[r].alone = runner[r].alone
      /\ runner'[r].left = kept /\ runner'[r].sql = disk
  <2>1. kept \subseteq Files
    BY DEF Discovered
  <2>2. runner[r] \in Run /\ disk \in [Files -> Checksums]
    BY DEF Inv, TypeOK
  <2>3. runner'[r] = [Rest EXCEPT !.at = "apply", !.alone = runner[r].alone,
                        !.sql = disk, !.left = kept]
    BY DEF Inv, TypeOK, Plan
  <2> HIDE DEF kept
  <2> QED BY <2>1, <2>2, <2>3, RestIsRun DEF Rest, Run
<1>2. \A q \in Runners \ {r} : runner'[q] = runner[q]
  BY DEF Inv, TypeOK, Plan
<1>3. /\ disk' = disk /\ table' = table /\ schema' = schema
      /\ runner[r].at = "read"
  BY DEF Plan
<1>4. TypeOK'
  <2>1. runner' = [q \in Runners |-> runner'[q]]
    BY DEF Inv, TypeOK, Plan
  <2> QED BY <2>1, <1>1, <1>2, <1>3 DEF Inv, TypeOK
<1>5. ASSUME NEW f \in Files, f \notin OptIn, f \notin kept
      PROVE  table[f] # {}
  <2>1. f \in Discovered(runner[r].optIn)
    BY <1>5 DEF Discovered
  <2>2. ~Pending(runner[r].seen, disk, runner[r].force, f)
    BY <1>5, <2>1
  <2>3. runner[r].seen[f] # {}
    BY <2>2 DEF Pending, Action
  <2> QED BY <2>3, <1>3 DEF Inv, Planned
<1>6. ASSUME NEW f \in kept PROVE runner[r].seen[f] # {disk[f]}
  BY <1>6 DEF Pending, Action
<1>7. kept \subseteq Files
  BY DEF Discovered
<1> HIDE DEF kept
<1>8. Planned'
  BY <1>1, <1>2, <1>3, <1>5 DEF Inv, Planned
<1>9. Fresh'
  BY <1>1, <1>2, <1>3, <1>6, <1>7 DEF Inv, Fresh
<1> QED BY <1>3, <1>4, <1>8, <1>9 DEF Inv, Tracked, SchemaIsPrefix

\* A commit by r, whatever becomes of r afterwards.
LEMMA CommitKeeps ==
  ASSUME Inv, NEW r \in Runners, NEW f \in Files, Applying(r, f), Commit(r, f),
         UNCHANGED disk,
         \/ runner' = [runner EXCEPT ![r].left = @ \ {f}]
         \/ runner' = [runner EXCEPT ![r] = Rest]
  PROVE  Inv'
<1>1. /\ runner[r] \in Run /\ runner[r].at = "apply" /\ f \in runner[r].left
      /\ \A g \in runner[r].left : f <= g
      /\ table \in [Files -> SUBSET Checksums] /\ schema = table
      /\ Files \subseteq Nat
  BY MigrationsAssumption DEF Inv, TypeOK, Tracked, Applying, IsNext
<1>2. /\ table' = [table EXCEPT ![f] = {runner[r].sql[f]}]
      /\ schema' = table'
      /\ runner[r].sql[f] \in Checksums
  BY <1>1 DEF Commit, Run
<1>3. \/ runner'[r] = Rest
      \/ /\ runner'[r] \in Run /\ runner'[r].at = "apply"
         /\ runner'[r].left = runner[r].left \ {f}
         /\ runner'[r].sql = runner[r].sql
         /\ runner'[r].alone = runner[r].alone
  BY <1>1 DEF Inv, TypeOK, Run
<1>4. \A q \in Runners \ {r} : runner'[q] = runner[q]
  BY DEF Inv, TypeOK
<1>5. \A g \in Files : table'[g] # {} \/ (g # f /\ table'[g] = table[g])
  BY <1>1, <1>2
<1>6. \A g \in Files : table[g] # {} => table'[g] # {}
  BY <1>5
<1>7. TypeOK'
  <2>1. runner' = [q \in Runners |-> runner'[q]]
    BY DEF Inv, TypeOK
  <2>2. table' \in [Files -> SUBSET Checksums]
    BY <1>1, <1>2
  <2> QED BY <2>1, <2>2, <1>1, <1>2, <1>3, <1>4, RestIsRun DEF Inv, TypeOK
<1>8. Planned'
  <2>1. ASSUME NEW q \in Runners, NEW g \in Files
        PROVE  /\ runner'[q].at = "read" /\ runner'[q].seen[g] # {} => table'[g] # {}
               /\ (runner'[q].at = "apply" /\ g \notin OptIn /\ g \notin runner'[q].left)
                    => table'[g] # {}
    <3>1. CASE q # r
      BY <2>1, <3>1, <1>4, <1>6 DEF Inv, Planned
    <3>2. CASE q = r /\ runner'[r] = Rest
      BY <3>2, RestIsRun
    <3>3. CASE q = r /\ runner'[r] # Rest
      <4>1. CASE g = f
        BY <4>1, <3>3, <1>1, <1>2, <1>3
      <4>2. CASE g # f
        BY <4>2, <3>3, <1>1, <1>3, <1>6 DEF Inv, Planned
      <4> QED BY <4>1, <4>2
    <3> QED BY <3>1, <3>2, <3>3
  <2> QED BY <2>1 DEF Planned
<1>9. Fresh'
  <2>1. ASSUME NEW q \in Runners, runner'[q].alone PROVE q = r /\ runner[r].alone /\ runner'[r] # Rest
    <3>1. CASE q # r
      BY <2>1, <3>1, <1>1, <1>4 DEF Inv, Fresh
    <3> QED BY <2>1, <3>1, <1>3, RestIsRun
  <2>2. ASSUME runner'[r].alone
        PROVE  /\ \A q \in Runners \ {r} : runner'[q].at = "rest"
               /\ runner'[r].at = "apply"
               /\ \A g \in runner'[r].left : table'[g] # {runner'[r].sql[g]}
    <3>1. runner[r].alone /\ runner'[r] # Rest
      BY <2>1, <2>2
    <3>2. \A g \in runner'[r].left : g # f /\ g \in runner[r].left /\ g \in Files
      BY <3>1, <1>1, <1>3 DEF Run
    <3>3. \A q \in Runners \ {r} : runner[q].at = "rest"
      BY <3>1 DEF Inv, Fresh
    <3>4. \A g \in runner[r].left : table[g] # {runner[r].sql[g]}
      BY <3>1, <1>1 DEF Inv, Fresh
    <3>5. \A g \in runner'[r].left : table'[g] = table[g]
      BY <3>2, <1>1, <1>2
    <3>6. runner'[r].at = "apply" /\ runner'[r].sql = runner[r].sql
      BY <3>1, <1>3
    <3>7. \A q \in Runners \ {r} : runner'[q].at = "rest"
      BY <3>3, <1>4
    <3>8. \A g \in runner'[r].left : table'[g] # {runner'[r].sql[g]}
      BY <3>2, <3>4, <3>5, <3>6
    <3> QED BY <3>6, <3>7, <3>8
  <2> QED BY <2>1, <2>2 DEF Fresh
<1>10. SchemaIsPrefix'
  <2>1. ASSUME NEW e \in Files, NEW g \in Files, e < g, e \notin OptIn, schema'[g] # {}
        PROVE  schema'[e] # {}
    <3>1. CASE g = f
      <4>1. e \notin runner[r].left
        BY <2>1, <3>1, <1>1
      <4>2. table[e] # {}
        BY <2>1, <4>1, <1>1 DEF Inv, Planned
      <4> QED BY <4>2, <1>2, <1>6
    <3>2. CASE g # f
      BY <2>1, <3>2, <1>1, <1>2, <1>6 DEF Inv, SchemaIsPrefix
    <3> QED BY <3>1, <3>2
  <2> QED BY <2>1 DEF SchemaIsPrefix
<1> QED BY <1>2, <1>7, <1>8, <1>9, <1>10 DEF Inv, Tracked

\* A run that ends without a commit.
LEMMA RestKeeps ==
  ASSUME Inv, NEW r \in Runners, runner' = [runner EXCEPT ![r] = Rest],
         UNCHANGED <<disk, table, schema>>
  PROVE  Inv'
<1>1. runner'[r] = Rest /\ \A q \in Runners \ {r} : runner'[q] = runner[q]
  BY DEF Inv, TypeOK
<1>2. TypeOK'
  BY RestIsRun DEF Inv, TypeOK
<1>3. Planned'
  BY <1>1, RestIsRun DEF Inv, Planned
<1>4. Fresh'
  BY <1>1, RestIsRun DEF Inv, Fresh
<1> QED BY <1>2, <1>3, <1>4 DEF Inv, Tracked, SchemaIsPrefix

LEMMA StepKeeps == Inv /\ [Next]_vars => Inv'
<1> SUFFICES ASSUME Inv, [Next]_vars PROVE Inv'
  OBVIOUS
<1>1. CASE UNCHANGED vars
  BY <1>1 DEF vars, Inv, TypeOK, Tracked, Planned, Fresh, SchemaIsPrefix
<1>2. ASSUME NEW r \in Runners, Step(r) PROVE Inv'
  <2>1. ASSUME NEW optIn \in BOOLEAN, NEW force \in BOOLEAN, Connect(r, optIn, force)
        PROVE  Inv'
    BY <2>1, ConnectKeeps
  <2>2. CASE Plan(r)
    BY <2>2, PlanKeeps
  <2>3. ASSUME NEW f \in Files, Apply(r, f) \/ CommitUnanswered(r, f) PROVE Inv'
    BY <2>3, CommitKeeps DEF Apply, CommitUnanswered
  <2>4. ASSUME NEW f \in Files, Refused(r, f) PROVE Inv'
    BY <2>4, RestKeeps DEF Refused
  <2>5. CASE Finish(r)
    BY <2>5, RestKeeps DEF Finish
  <2> QED BY <1>2, <2>1, <2>2, <2>3, <2>4, <2>5 DEF Step
<1>3. ASSUME NEW f \in Edited, NEW c \in Checksums, Edit(f, c) PROVE Inv'
  BY <1>3, MigrationsAssumption
  DEF Edit, Inv, TypeOK, Tracked, Planned, Fresh, SchemaIsPrefix
<1> QED BY <1>1, <1>2, <1>3 DEF Next

LEMMA InvAlways == Spec => []Inv
  BY InitInv, StepKeeps, PTL DEF Spec

\* However runs overlap and fail, the database never has a file without every
\* earlier file that is not opt-in.
THEOREM MigrationsInOrder == Spec => []SchemaIsPrefix
<1>1. Inv => SchemaIsPrefix
  BY DEF Inv
<1> QED BY <1>1, InvAlways, PTL

\* A run nobody overlapped runs no SQL the database already has.
THEOREM MigrationsRunOnce == Spec => []RunsOnceAlone
<1>1. Inv => RunsOnceAlone
  BY DEF Inv, Tracked, Fresh, RunsOnceAlone
<1> QED BY <1>1, InvAlways, PTL

----------------------------------------------------------------------------
(* The stack. Neither property says what stop() relies on: a server is     *)
(* there from before the first child until after the last (Served), the    *)
(* two passes of stop() have done with every child above next (Passed),    *)
(* and nobody owns the directory only where build_docroot raised, so that  *)
(* the static server never starts (Strayed).                               *)

\* Nothing was started before the first child.
Blank ==
  main \in {"backend", "broker"} =>
    /\ \A i \in Stack!Children : child[i] = "none"
    /\ docroot = "none" /\ ~stateFile /\ next = 1

Quiet == \A i \in Stack!Children : ~Stack!Running(i)

Served ==
  /\ main \in {"broker", "spawn", "publish", "ready", "run", "terminate", "wait",
               "stopBackend"} => (Loopback => backend)
  /\ main \in {"spawn", "publish", "ready", "run"} => (Embedded => broker)
  /\ main \in {"terminate", "wait"} => (Embedded => broker) \/ Quiet

\* How far start() and stop() have come.
Passed ==
  /\ main = "spawn" => next \in Stack!Children
  /\ main = "terminate" => next \in 0..Services
  /\ main = "wait" =>
       next \in 0..Services /\ \A i \in Stack!Children : i > next => ~Stack!Running(i)
  /\ main \in {"stopBackend", "clean"} => Quiet

\* The children start in order; a stray directory ends the start.
Strayed ==
  /\ main = "spawn" => \A i \in Stack!Children : i >= next => child[i] = "none"
  /\ docroot = "stray" =>
       /\ child[Services] = "none"
       /\ main \in {"terminate", "wait", "stopBackend", "clean", "gone"}

StackInv ==
  Stack!TypeOK /\ Blank /\ Served /\ Passed /\ Strayed /\ Stack!NothingLeftBehind

LEMMA StackInit == ASSUME Stack!Constants, Stack!Init PROVE StackInv
<1>1. Stack!TypeOK
  <2>1. next \in 0..(Services + 1)
    BY DEF Stack!Constants, Stack!Init
  <2>2. child \in [Stack!Children -> {"none", "alive", "asked", "dead"}]
    BY DEF Stack!Init
  <2>3. {backend, broker, stateFile, cut} \subseteq BOOLEAN
    BY DEF Stack!Init
  <2> QED BY <2>1, <2>2, <2>3 DEF Stack!Init, Stack!TypeOK
<1>2. Blank /\ Served /\ Passed /\ Strayed /\ Stack!NothingLeftBehind
  BY DEF Stack!Init, Blank, Served, Passed, Strayed, Stack!NothingLeftBehind
<1> QED BY <1>1, <1>2 DEF StackInv

\* What a process leaves that ends on its own: no child, no state file, and no
\* directory but a stray one.
LEMMA StackGoneKeeps ==
  ASSUME StackInv, NEW isCut \in BOOLEAN, Stack!Gone(isCut), child' = child,
         next' \in 0..(Services + 1),
         docroot' \in {"none", "owned", "stray"}, stateFile' \in BOOLEAN,
         docroot' # docroot => docroot' = "none",
         ~isCut => ~stateFile' /\ docroot' # "owned" /\ Quiet
  PROVE  StackInv'
<1>1. main' = "gone" /\ cut' = isCut /\ ~backend' /\ ~broker'
  BY DEF Stack!Gone
<1>2. Stack!TypeOK'
  BY <1>1 DEF StackInv, Stack!TypeOK, Stack!Gone
<1>3. Blank' /\ Served' /\ Passed' /\ Strayed'
  BY <1>1 DEF StackInv, Blank, Served, Passed, Strayed
<1>4. Stack!NothingLeftBehind'
  BY <1>1, <1>3 DEF Strayed, Stack!NothingLeftBehind, Quiet, Stack!Running
<1> QED BY <1>2, <1>3, <1>4 DEF StackInv

LEMMA StackStartKeeps == ASSUME Stack!Constants, StackInv, Stack!Starting PROVE StackInv'
<1> USE DEF Stack!Constants, Stack!Children
<1>1. CASE Stack!StartBackend
  BY <1>1 DEF Stack!StartBackend, StackInv, Stack!TypeOK, Blank, Served, Passed, Strayed,
       Stack!NothingLeftBehind
<1>2. CASE Stack!BackendFails
  <2>1. /\ next' \in 0..(Services + 1) /\ docroot' = "none"
        /\ stateFile' \in BOOLEAN /\ ~stateFile' /\ Quiet
    BY <1>2 DEF Stack!BackendFails, StackInv, Stack!TypeOK, Blank, Quiet,
         Stack!Running
  <2> QED BY <1>2, <2>1, StackGoneKeeps DEF Stack!BackendFails
<1>3. CASE Stack!StartBroker
  BY <1>3 DEF Stack!StartBroker, StackInv, Stack!TypeOK, Blank, Served, Passed, Strayed,
       Stack!NothingLeftBehind
<1>4. CASE Stack!BrokerFails
  <2>1. Quiet'
    BY <1>4 DEF Stack!BrokerFails, StackInv, Blank, Quiet, Stack!Running
  <2> QED BY <1>4, <2>1 DEF Stack!BrokerFails, Stack!BeginStop, StackInv,
       Stack!TypeOK, Blank, Served,
                           Passed, Strayed, Stack!NothingLeftBehind
<1>5. CASE Stack!Spawn
  <2>1. next \in Stack!Children /\ next' \in 1..(Services + 1)
        /\ (next # Services => next' \in Stack!Children)
    BY <1>5 DEF Stack!Spawn, StackInv, Passed
  <2> QED BY <1>5, <2>1 DEF Stack!Spawn, Stack!BuildDocroot, StackInv,
       Stack!TypeOK, Blank, Served, Passed, Strayed,
                           Stack!NothingLeftBehind
<1>6. CASE Stack!SpawnFails
  <2>1. next \in Stack!Children /\ next' \in 0..Services
    BY <1>6 DEF Stack!SpawnFails, Stack!BeginStop, StackInv, Passed
  <2> QED BY <1>6, <2>1 DEF Stack!SpawnFails, Stack!BeginStop, StackInv,
       Stack!TypeOK, Blank, Served, Passed, Strayed,
                           Stack!NothingLeftBehind
<1>7. CASE Stack!BuildRaises
  <2>1. next = Services /\ next \in Stack!Children /\ next' \in 0..Services
        /\ docroot' = "stray" /\ main' = "terminate" /\ child' = child
    BY <1>7 DEF Stack!BuildRaises, Stack!BeginStop, StackInv, Passed
  <2>2. child[Services] = "none"
    BY <1>7, <2>1 DEF Stack!BuildRaises, StackInv, Strayed
  <2> QED BY <1>7, <2>1, <2>2 DEF Stack!BuildRaises, Stack!BeginStop, StackInv,
       Stack!TypeOK, Blank, Served, Passed, Strayed,
                           Stack!NothingLeftBehind
<1>10. CASE Stack!WriteState
  BY <1>10 DEF Stack!WriteState, StackInv, Stack!TypeOK, Blank, Served, Passed, Strayed,
       Stack!NothingLeftBehind
<1>8. CASE Stack!Escapes
  <2>1. /\ next' \in 0..(Services + 1) /\ docroot' \in {"none", "owned", "stray"}
        /\ stateFile' \in BOOLEAN
    BY <1>8 DEF Stack!Escapes, StackInv, Stack!TypeOK
  <2> QED BY <1>8, <2>1, StackGoneKeeps DEF Stack!Escapes
<1>9. CASE Stack!Ready
  BY <1>9 DEF Stack!Ready, StackInv, Stack!TypeOK, Blank, Served, Passed, Strayed,
       Stack!NothingLeftBehind
<1> QED BY <1>1, <1>2, <1>3, <1>4, <1>5, <1>6, <1>7, <1>8, <1>9, <1>10
         DEF Stack!Starting

LEMMA StackStopKeeps == ASSUME Stack!Constants, StackInv, Stack!Stopping PROVE StackInv'
<1> USE DEF Stack!Constants, Stack!Children
<1>1. CASE Stack!Terminate
  <2>1. next \in Stack!Children /\ next' \in 0..Services
    BY <1>1 DEF Stack!Terminate, StackInv, Passed
  <2>2. Quiet => Quiet'
    BY <1>1, <2>1 DEF Stack!Terminate, StackInv, Stack!TypeOK, Quiet, Stack!Running
  <2> QED BY <1>1, <2>1, <2>2 DEF Stack!Terminate, StackInv, Stack!TypeOK, Blank,
       Served, Passed, Strayed,
                                Stack!NothingLeftBehind
<1>2. CASE Stack!Terminated
  <2>1. Quiet => Quiet'
    BY <1>2 DEF Stack!Terminated, Quiet, Stack!Running
  <2> QED BY <1>2, <2>1 DEF Stack!Terminated, StackInv, Stack!TypeOK, Blank,
       Served, Passed, Strayed,
                           Stack!NothingLeftBehind
<1>3. CASE Stack!Wait
  <2>1. next \in Stack!Children /\ next' = next - 1 /\ next' \in 0..Services
    BY <1>3 DEF Stack!Wait, StackInv, Passed
  <2>2. \A i \in Stack!Children : ~Stack!Running(i) \/ i = next => ~Stack!Running(i)'
    BY <1>3, <2>1 DEF Stack!Wait, StackInv, Stack!TypeOK, Stack!Running
  <2>3. Quiet => Quiet'
    BY <2>2 DEF Quiet
  <2>4. \A i \in Stack!Children : i > next' => ~Stack!Running(i)'
    BY <1>3, <2>1, <2>2 DEF Stack!Wait, StackInv, Passed
  <2>5. Stack!TypeOK'
    BY <1>3, <2>1 DEF Stack!Wait, StackInv, Stack!TypeOK
  <2>6. \A i \in Stack!Children : child[i] = "none" => child'[i] = "none"
    BY <1>3, <2>1 DEF Stack!Wait, StackInv, Stack!TypeOK, Stack!Running
  <2>7. main' = "wait" /\ docroot' = docroot /\ Services \in Stack!Children
    BY <1>3 DEF Stack!Wait
  <2>8. Strayed'
    BY <2>6, <2>7 DEF StackInv, Strayed
  <2>9. Blank' /\ Served' /\ Passed' /\ Stack!NothingLeftBehind'
    BY <1>3, <2>1, <2>3, <2>4 DEF Stack!Wait, StackInv, Blank, Served, Passed,
                                  Stack!NothingLeftBehind
  <2> QED BY <2>5, <2>8, <2>9 DEF StackInv
<1>4. CASE Stack!StopBroker
  <2>1. Quiet'
    BY <1>4 DEF Stack!StopBroker, StackInv, Passed, Quiet, Stack!Running
  <2> QED BY <1>4, <2>1 DEF Stack!StopBroker, StackInv, Stack!TypeOK, Blank,
       Served, Passed, Strayed,
                           Stack!NothingLeftBehind
<1>5. CASE Stack!StopBackend
  <2>1. Quiet'
    BY <1>5 DEF Stack!StopBackend, StackInv, Passed, Quiet, Stack!Running
  <2> QED BY <1>5, <2>1 DEF Stack!StopBackend, StackInv, Stack!TypeOK, Blank,
       Served, Passed, Strayed,
                           Stack!NothingLeftBehind
<1>6. CASE Stack!CleanUp
  <2>1. /\ next' \in 0..(Services + 1) /\ docroot' \in {"none", "stray"}
        /\ ~stateFile' /\ Quiet
    BY <1>6 DEF Stack!CleanUp, StackInv, Stack!TypeOK, Passed
  <2> QED BY <1>6, <2>1, StackGoneKeeps DEF Stack!CleanUp
<1> QED BY <1>1, <1>2, <1>3, <1>4, <1>5, <1>6 DEF Stack!Stopping

LEMMA StackNextKeeps ==
  ASSUME Stack!Constants, StackInv, [Stack!Next]_(Stack!vars) PROVE StackInv'
<1>1. CASE UNCHANGED Stack!vars
  BY <1>1 DEF Stack!vars, StackInv, Stack!TypeOK, Blank, Served, Passed, Strayed,
       Stack!NothingLeftBehind, Quiet, Stack!Running
<1>2. CASE Stack!Starting
  BY <1>2, StackStartKeeps
<1>3. CASE Stack!Stopping
  BY <1>3, StackStopKeeps
<1>4. CASE Stack!StopAsked
  BY <1>4 DEF Stack!StopAsked, Stack!BeginStop, Stack!Constants, StackInv,
       Stack!TypeOK, Blank, Served, Passed, Strayed,
              Stack!NothingLeftBehind
<1>5. CASE Stack!Killed
  <2>1. /\ next' \in 0..(Services + 1) /\ docroot' \in {"none", "owned", "stray"}
        /\ stateFile' \in BOOLEAN
    BY <1>5 DEF Stack!Killed, StackInv, Stack!TypeOK
  <2> QED BY <1>5, <2>1, StackGoneKeeps DEF Stack!Killed
<1>6. ASSUME NEW i \in Stack!Children, Stack!ChildExits(i) PROVE StackInv'
  <2>1. /\ child' = [child EXCEPT ![i] = "dead"] /\ child[i] # "none"
        /\ UNCHANGED <<main, next, backend, broker, docroot, stateFile, cut>>
    BY <1>6 DEF Stack!ChildExits, Stack!Running
  <2>2. \A j \in Stack!Children : Stack!Running(j)' => Stack!Running(j)
    BY <2>1 DEF StackInv, Stack!TypeOK, Stack!Running
  <2>3. Quiet => Quiet'
    BY <2>2 DEF Quiet
  <2>4. Stack!TypeOK'
    BY <2>1 DEF StackInv, Stack!TypeOK
  <2> QED BY <2>1, <2>2, <2>3, <2>4 DEF StackInv, Blank, Served, Passed, Strayed,
       Stack!NothingLeftBehind
<1> QED BY <1>1, <1>2, <1>3, <1>4, <1>5, <1>6 DEF Stack!Next

LEMMA StackAlways == ASSUME Stack!Constants PROVE Stack!Spec => []StackInv
<1>1. Stack!Init => StackInv
  BY StackInit
<1>2. StackInv /\ [Stack!Next]_(Stack!vars) => StackInv'
  BY StackNextKeeps
<1> QED BY <1>1, <1>2, PTL DEF Stack!Spec

\* As long as the process lives, no child runs without the servers it was
\* pointed at, whatever fails to start, dies or is cut short.
THEOREM ServersFirstAndLast ==
  ASSUME Stack!Constants PROVE Stack!Spec => []ServersOutliveClients
<1>1. StackInv => ServersOutliveClients
  BY DEF StackInv, Stack!TypeOK, Blank, Served, Passed, Quiet, Stack!Running,
         Stack!ServersOutliveClients, ServersOutliveClients
<1> QED BY <1>1, StackAlways, PTL

\* A process that was not cut short leaves no child and no state file behind,
\* and no directory but that of a build_docroot that raised, whose server never
\* ran.
THEOREM EndsClean == ASSUME Stack!Constants PROVE Stack!Spec => []NothingLeftBehind
<1>1. StackInv => NothingLeftBehind
  BY DEF StackInv, NothingLeftBehind
<1> QED BY <1>1, StackAlways, PTL


----------------------------------------------------------------------------
(* The cached limits: an answer is dated when it was asked for, so it is   *)
(* at least as old as what it says, whoever stores it and when.            *)

Answer == [since : Nat, read : Int]
Cached == [at : Nat, read : Nat]

\* The one entry of a list that has one.
Single(S) == {<<e>> : e \in S}

CacheInv ==
  /\ clock \in Nat
  /\ fetch \in [Threads -> {<<>>} \cup Single(Answer)]
  /\ \A a \in Threads : fetch[a] # <<>> =>
       \/ fetch[a][1].read = -1 /\ fetch[a][1].since <= clock
       \/ fetch[a][1].since <= fetch[a][1].read /\ fetch[a][1].read <= clock
  /\ cache \in {<<>>} \cup Single(Cached)
  /\ cache # <<>> => cache[1].at <= cache[1].read /\ cache[1].read <= clock
  /\ served <= CacheFor

LEMMA AnAnswerKept ==
  ASSUME NEW w \in Single(Answer), NEW t
  PROVE  [w EXCEPT ![1].read = t] = << [since |-> w[1].since, read |-> t] >>
<1>1. PICK e \in Answer : w = <<e>>
  BY DEF Single
<1>2. [w EXCEPT ![1].read = t] = << [e EXCEPT !.read = t] >>
  BY <1>1
<1>3. [e EXCEPT !.read = t] = [since |-> e.since, read |-> t] /\ w[1] = e
  BY <1>1 DEF Answer
<1> QED BY <1>2, <1>3

LEMMA CacheSteps ==
  ASSUME Door!Constants, CacheInv, [Door!Next]_(Door!vars)
  PROVE  CacheInv'
<1>1. CASE UNCHANGED <<clock, cache, fetch, served>>
  BY <1>1 DEF CacheInv
<1>2. ASSUME NEW a \in Threads, Door!AskLimits(a) PROVE CacheInv'
  <2>1. clock' = clock /\ cache' = cache
    BY <1>2 DEF Door!AskLimits
  <2>2. CASE Door!Fresh
    <3>1. served' = clock - cache[1].read /\ fetch' = fetch
      BY <1>2, <2>2 DEF Door!AskLimits
    <3>2. cache # <<>> /\ clock - cache[1].at < CacheFor
      BY <2>2 DEF Door!Fresh
    <3>3. cache[1].at \in Nat /\ cache[1].read \in Nat
      BY <3>2 DEF CacheInv, Single, Cached
    <3> QED BY <2>1, <3>1, <3>2, <3>3 DEF CacheInv, Door!Constants
  <2>3. CASE ~Door!Fresh
    <3> DEFINE e == [since |-> clock, read |-> -1]
    <3>1. fetch' = [fetch EXCEPT ![a] = <<e>>] /\ served' = served
      BY <1>2, <2>3 DEF Door!AskLimits
    <3>2. e \in Answer /\ e.since = clock /\ e.read = -1
      BY DEF Answer, CacheInv
    <3> HIDE DEF e
    <3>3. <<e>> \in Single(Answer) /\ <<e>>[1] = e
      BY <3>2 DEF Single
    <3> QED BY <2>1, <3>1, <3>2, <3>3 DEF CacheInv
  <2> QED BY <2>2, <2>3
<1>3. ASSUME NEW a \in Threads, Door!AnswerLimits(a) PROVE CacheInv'
  <2> DEFINE e == [since |-> fetch[a][1].since, read |-> clock]
  <2>1. clock' = clock /\ cache' = cache /\ served' = served /\ fetch[a] # <<>>
        /\ fetch[a][1].read = -1
    BY <1>3 DEF Door!AnswerLimits
  <2>2. fetch' = [fetch EXCEPT ![a] = <<e>>]
    <3>1. fetch[a] \in Single(Answer)
      BY <2>1 DEF CacheInv
    <3>2. fetch' = [fetch EXCEPT ![a] = [fetch[a] EXCEPT ![1].read = clock]]
      BY <1>3, Zenon DEF Door!AnswerLimits
    <3> QED BY <3>1, <3>2, AnAnswerKept, Zenon
  <2>3. fetch[a][1].since \in Nat /\ fetch[a][1].since <= clock
    BY <2>1 DEF CacheInv, Single, Answer
  <2>4. e \in Answer /\ e.since <= e.read /\ e.read = clock
    BY <2>3 DEF Answer, CacheInv
  <2> HIDE DEF e
  <2>5. <<e>> \in Single(Answer) /\ <<e>>[1] = e
    BY <2>4 DEF Single
  <2> QED BY <2>1, <2>2, <2>4, <2>5 DEF CacheInv
<1>4. ASSUME NEW a \in Threads, Door!StoreLimits(a) PROVE CacheInv'
  <2> DEFINE e == Door!Stored(a)
  <2>1. /\ clock' = clock /\ served' = served /\ cache' = <<e>>
        /\ fetch[a] # <<>> /\ fetch[a][1].read >= 0
        /\ fetch' = [fetch EXCEPT ![a] = <<>>]
    BY <1>4 DEF Door!StoreLimits
  <2>2. fetch[a][1].since \in Nat /\ fetch[a][1].read \in Int
    BY <2>1 DEF CacheInv, Single, Answer
  <2>3. fetch[a][1].since <= fetch[a][1].read /\ fetch[a][1].read <= clock
    BY <2>1, <2>2 DEF CacheInv
  <2>4. e \in Cached /\ e.at <= e.read /\ e.read <= clock
    BY <2>1, <2>2, <2>3 DEF Door!Stored, Cached
  <2> HIDE DEF e
  <2>5. <<e>> \in Single(Cached) /\ <<e>>[1] = e
    BY <2>4 DEF Single
  <2> QED BY <2>1, <2>4, <2>5 DEF CacheInv
<1>5. CASE Door!Tick
  <2>1. clock' = clock + 1 /\ cache' = cache /\ fetch' = fetch /\ served' = served
    BY <1>5 DEF Door!Tick, Door!limits
  <2>2. /\ \A a \in Threads : fetch[a] # <<>> =>
             fetch[a][1].since \in Nat /\ fetch[a][1].read \in Int
        /\ cache # <<>> => cache[1].read \in Nat
    BY DEF CacheInv, Single, Answer, Cached
  <2> QED BY <2>1, <2>2 DEF CacheInv
<1>6. (\E k \in Visitors : Door!Allow(k)) \/ UNCHANGED Door!vars
        => UNCHANGED <<clock, cache, fetch, served>>
  BY DEF Door!Allow, Door!limits, Door!vars
<1> QED BY <1>1, <1>2, <1>3, <1>4, <1>5, <1>6 DEF Door!Next

\* No answer is served that is older than LIMITS_CACHE_S, for any number of
\* threads that ask the database at once and store in any order.
THEOREM CacheStaysFresh ==
  ASSUME Door!Constants PROVE Door!Spec => []CacheIsFresh
<1>1. Door!Init => CacheInv
  BY DEF Door!Constants, Door!Init, CacheInv
<1>2. CacheInv /\ [Door!Next]_(Door!vars) => CacheInv'
  BY CacheSteps
<1>3. CacheInv => CacheIsFresh
  BY DEF CacheInv, CacheIsFresh, Door!CacheIsFresh
<1> QED BY <1>1, <1>2, <1>3, PTL DEF Door!Spec

----------------------------------------------------------------------------
(* The quota. The last admissions of a visitor belong to one window, and   *)
(* those before it were a window at most, which had ended by then.         *)

Rising(list) == \A i, j \in 1..Len(list) : i <= j => list[i] <= list[j]

Spread(list) ==
  \A i, j \in 1..Len(list) : j = i + Door!Burst - 1 => list[j] - list[i] >= Window

\* The last window of the list starts at p.
Opens(list, p) ==
  /\ p \in 1..Len(list) /\ Len(list) + 1 - p <= Limit
  /\ \/ p = 1
     \/ \E q \in 1..(p - 1) : p - q <= Limit /\ list[p] - list[q] >= Window

LEMMA AppendedAt ==
  ASSUME NEW list \in Seq(Nat), NEW t \in Nat
  PROVE  /\ Append(list, t) \in Seq(Nat) /\ Len(Append(list, t)) = Len(list) + 1
         /\ \A i \in 1..Len(list) : Append(list, t)[i] = list[i]
         /\ Append(list, t)[Len(list) + 1] = t
         /\ Len(list) \in Nat
  OBVIOUS

LEMMA RisesOn ==
  ASSUME NEW list \in Seq(Nat), NEW t \in Nat, Rising(list),
         \A i \in 1..Len(list) : list[i] <= t
  PROVE  Rising(Append(list, t)) /\ \A i \in 1..(Len(list) + 1) : Append(list, t)[i] <= t
<1> DEFINE l == Append(list, t)
           n == Len(list)
<1>1. /\ n \in Nat /\ Len(l) = n + 1 /\ l[n + 1] = t
      /\ \A i \in 1..n : l[i] = list[i] /\ list[i] \in Nat /\ list[i] <= t
      /\ \A i, j \in 1..n : i <= j => list[i] <= list[j]
  BY AppendedAt DEF Rising
<1> HIDE DEF l, n
<1>2. \A i \in 1..(n + 1) : i \in 1..n \/ i = n + 1
  BY <1>1
<1>3. \A i \in 1..(n + 1) : l[i] <= t
  BY <1>1, <1>2
<1>4. ASSUME NEW i \in 1..(n + 1), NEW j \in 1..(n + 1), i <= j PROVE l[i] <= l[j]
  <2>1. CASE j = n + 1
    BY <1>1, <1>3, <2>1
  <2>2. CASE j # n + 1
    <3>1. i \in 1..n /\ j \in 1..n
      BY <1>1, <1>4, <2>2
    <3> QED BY <1>1, <1>4, <3>1
  <2> QED BY <2>1, <2>2
<1> QED BY <1>1, <1>3, <1>4 DEF Rising, l, n

\* The visitor is admitted once more in its window.
LEMMA GoesOn ==
  ASSUME Limit \in Nat, Window \in Nat, NEW list \in Seq(Nat), NEW t \in Nat,
         Rising(list), \A i \in 1..Len(list) : list[i] <= t, Spread(list),
         NEW p, Opens(list, p), Len(list) + 1 - p < Limit
  PROVE  Spread(Append(list, t)) /\ Opens(Append(list, t), p)
<1> DEFINE l == Append(list, t)
           n == Len(list)
<1>1. /\ n \in Nat /\ Len(l) = n + 1 /\ l[n + 1] = t
      /\ \A i \in 1..n : l[i] = list[i] /\ list[i] \in Nat /\ list[i] <= t
      /\ p \in 1..n /\ n + 1 - p < Limit
      /\ \A i, j \in 1..n : i <= j => list[i] <= list[j]
      /\ \A i, j \in 1..n : j = i + 2 * Limit - 1 => list[j] - list[i] >= Window
  BY AppendedAt DEF Opens, Rising, Spread, Door!Burst
<1>2. p = 1 \/ \E q \in 1..(p - 1) : p - q <= Limit /\ list[p] - list[q] >= Window
  BY DEF Opens
<1> HIDE DEF l, n
<1>3. Opens(l, p)
  <2>1. p \in 1..Len(l) /\ Len(l) + 1 - p <= Limit
    BY <1>1
  <2>2. \A q \in 1..(p - 1) : l[q] = list[q] /\ l[p] = list[p]
    BY <1>1
  <2> QED BY <1>2, <2>1, <2>2 DEF Opens
<1>4. ASSUME NEW i \in 1..(n + 1), NEW j \in 1..(n + 1), j = i + 2 * Limit - 1
      PROVE  l[j] - l[i] >= Window
  <2>1. CASE j = n + 1
    <3>1. i \in 1..n /\ i = n + 2 - 2 * Limit
      BY <1>1, <1>4, <2>1
    <3>2. PICK q \in 1..(p - 1) : p - q <= Limit /\ list[p] - list[q] >= Window
      BY <1>1, <1>2, <3>1
    <3>3. i <= q /\ q \in 1..n
      BY <1>1, <3>1, <3>2
    <3>4. list[i] <= list[q] /\ list[p] <= t
      BY <1>1, <3>1, <3>3
    <3>5. list[i] \in Nat /\ list[q] \in Nat /\ list[p] \in Nat /\ t \in Nat
      BY <1>1, <3>1, <3>3
    <3>6. l[i] = list[i] /\ l[j] = t
      BY <1>1, <2>1, <3>1
    <3>7. t - list[i] >= Window
      <4>1. \A u, v, w, x \in Nat : u <= v /\ w <= x /\ w - v >= Window => x - u >= Window
        OBVIOUS
      <4> QED BY <3>2, <3>4, <3>5, <4>1
    <3> QED BY <3>6, <3>7
  <2>2. CASE j # n + 1
    <3>1. j \in 1..n /\ i \in 1..n
      BY <1>1, <1>4, <2>2
    <3> QED BY <1>1, <1>4, <3>1
  <2> QED BY <2>1, <2>2
<1> QED BY <1>1, <1>3, <1>4 DEF Spread, Door!Burst, l, n

\* The visitor comes back when its window is over, or for the first time.
LEMMA BeginsAnew ==
  ASSUME Limit \in Nat, Limit > 0, Window \in Nat, NEW list \in Seq(Nat), NEW t \in Nat,
         Rising(list), \A i \in 1..Len(list) : list[i] <= t, Spread(list),
         Len(list) = 0 \/ \E p : Opens(list, p) /\ t - list[p] >= Window
  PROVE  Spread(Append(list, t)) /\ Opens(Append(list, t), Len(list) + 1)
<1> DEFINE l == Append(list, t)
           n == Len(list)
<1>1. /\ n \in Nat /\ Len(l) = n + 1 /\ l[n + 1] = t
      /\ \A i \in 1..n : l[i] = list[i] /\ list[i] \in Nat /\ list[i] <= t
      /\ \A i, j \in 1..n : i <= j => list[i] <= list[j]
      /\ \A i, j \in 1..n : j = i + 2 * Limit - 1 => list[j] - list[i] >= Window
  BY AppendedAt DEF Rising, Spread, Door!Burst
<1>2. n = 0 \/ \E p \in 1..n : n + 1 - p <= Limit /\ t - list[p] >= Window
  BY DEF Opens
<1> HIDE DEF l, n
<1>3. Opens(l, n + 1)
  <2>1. n + 1 \in 1..Len(l) /\ Len(l) + 1 - (n + 1) <= Limit
    BY <1>1
  <2>2. CASE n = 0
    BY <2>1, <2>2 DEF Opens
  <2>3. CASE n # 0
    <3>1. PICK q \in 1..n : n + 1 - q <= Limit /\ t - list[q] >= Window
      BY <1>2, <2>3
    <3>2. q \in 1..((n + 1) - 1) /\ l[q] = list[q]
      BY <1>1, <3>1
    <3> QED BY <1>1, <2>1, <3>1, <3>2 DEF Opens
  <2> QED BY <2>2, <2>3
<1>4. ASSUME NEW i \in 1..(n + 1), NEW j \in 1..(n + 1), j = i + 2 * Limit - 1
      PROVE  l[j] - l[i] >= Window
  <2>1. CASE j = n + 1
    <3>1. i \in 1..n /\ i = n + 2 - 2 * Limit
      BY <1>1, <1>4, <2>1
    <3>2. PICK p \in 1..n : n + 1 - p <= Limit /\ t - list[p] >= Window
      BY <1>1, <1>2, <3>1
    <3>3. i <= p
      BY <1>1, <3>1, <3>2
    <3>4. list[i] <= list[p]
      BY <1>1, <3>1, <3>3
    <3>5. list[i] \in Nat /\ list[p] \in Nat /\ l[i] = list[i] /\ l[j] = t
      BY <1>1, <2>1, <3>1
    <3>6. \A u, v, x \in Nat : u <= v /\ x - v >= Window => x - u >= Window
      OBVIOUS
    <3>7. t - list[i] >= Window
      BY <3>2, <3>4, <3>5, <3>6
    <3> QED BY <3>5, <3>7
  <2>2. CASE j # n + 1
    <3>1. j \in 1..n /\ i \in 1..n
      BY <1>1, <1>4, <2>2
    <3> QED BY <1>1, <1>4, <3>1
  <2> QED BY <2>1, <2>2
<1> QED BY <1>1, <1>3, <1>4 DEF Spread, Door!Burst, l, n

Slots == [start : Nat, count : Nat]

TableOK ==
  /\ clock \in Nat
  /\ admitted \in [Visitors -> Seq(Nat)]
  /\ DOMAIN hits \subseteq Visitors
  /\ \A k \in DOMAIN hits : hits[k] \in Slots /\ hits[k].start <= clock
  /\ \A k \in Visitors : Rising(admitted[k])
       /\ \A i \in 1..Len(admitted[k]) : admitted[k][i] <= clock

\* The window kept for a visitor is the one that its last admissions opened; a
\* window that is no longer kept is over.
Kept(k, p) ==
  IF k \in DOMAIN hits
  THEN hits[k].start = admitted[k][p] /\ hits[k].count = Len(admitted[k]) + 1 - p
  ELSE clock - admitted[k][p] >= Window

Windowed(k) ==
  /\ Spread(admitted[k])
  /\ \/ Len(admitted[k]) = 0 /\ k \notin DOMAIN hits
     \/ \E p : Opens(admitted[k], p) /\ Kept(k, p)

QuotaInv == TableOK /\ (Limit > 0 => \A k \in Visitors \ evicted : Windowed(k))

\* A visitor that is admitted is in its window, or has no admission in the last one.
LEMMA Admission ==
  ASSUME Door!Constants, QuotaInv, Limit > 0, NEW k \in Visitors \ evicted
  PROVE  /\ Door!NewWindow(k) =>
              \/ Len(admitted[k]) = 0
              \/ \E p : Opens(admitted[k], p) /\ clock - admitted[k][p] >= Window
         /\ ~Door!NewWindow(k) =>
              \E p : /\ Opens(admitted[k], p) /\ hits[k].start = admitted[k][p]
                     /\ hits[k].count = Len(admitted[k]) + 1 - p
<1>1. Windowed(k)
  BY DEF QuotaInv
<1>2. CASE Door!NewWindow(k)
  <2>1. CASE k \in DOMAIN hits
    BY <1>1, <1>2, <2>1 DEF Door!NewWindow, Windowed, Kept
  <2>2. CASE k \notin DOMAIN hits
    BY <1>1, <1>2, <2>2 DEF Windowed, Kept
  <2> QED BY <2>1, <2>2
<1>3. CASE ~Door!NewWindow(k)
  BY <1>1, <1>3 DEF Door!NewWindow, Windowed, Kept
<1> QED BY <1>2, <1>3

\* What Allow leaves in the table: of the windows that are not over, all but
\* the ones it evicts.
LEMMA TableAfter ==
  ASSUME Door!Constants, QuotaInv, Limit > 0, NEW k \in Visitors, Door!Allow(k)
  PROVE  /\ DOMAIN hits' \subseteq DOMAIN hits \cup {k}
         /\ evicted \subseteq evicted'
         /\ \A x \in DOMAIN hits' : hits'[x] = IF x = k THEN Door!Slot(k) ELSE hits[x]
         /\ \A x \in DOMAIN hits : x # k /\ x \notin DOMAIN hits' /\ x \notin evicted'
              => clock - hits[x].start >= Window
         /\ k \notin evicted' => k \in DOMAIN hits'
         /\ Door!Slot(k) \in Slots /\ Door!Slot(k).start <= clock
<1> DEFINE windows == Door!Counted(k)
           keys == Door!Current(windows)
<1>1. PICK out \in Door!Oldest(windows, keys) :
        /\ hits' = [x \in keys \ out |-> windows[x]]
        /\ evicted' = evicted \cup out
  <2>1. Limit # 0
    BY DEF Door!Constants
  <2> QED BY <2>1, Zenon DEF Door!Allow
<1>2. /\ DOMAIN windows = DOMAIN hits \cup {k}
      /\ \A x \in DOMAIN windows : windows[x] = IF x = k THEN Door!Slot(k) ELSE hits[x]
  BY DEF Door!Counted
<1>3. \A x : x \in keys <=> x \in DOMAIN windows /\ clock - windows[x].start < Window
  BY DEF Door!Current
<1>4. /\ clock \in Nat /\ Window \in Nat /\ Window > 0
      /\ \A x \in DOMAIN hits :
           hits[x] \in Slots /\ hits[x].start \in Nat /\ hits[x].start <= clock
  BY DEF QuotaInv, TableOK, Slots, Door!Constants
<1> HIDE DEF windows, keys
<1>5. /\ Door!Slot(k) \in Slots /\ Door!Slot(k).start <= clock
      /\ clock - Door!Slot(k).start < Window
  <2>1. CASE Door!NewWindow(k)
    <3>1. Door!Slot(k) = [start |-> clock, count |-> 1]
      BY <2>1 DEF Door!Slot
    <3> QED BY <1>4, <3>1 DEF Slots
  <2>2. CASE ~Door!NewWindow(k)
    <3>1. k \in DOMAIN hits /\ ~(clock - hits[k].start >= Window)
      BY <2>2 DEF Door!NewWindow
    <3>2. Door!Slot(k) = hits[k] \/ Door!Slot(k) = [hits[k] EXCEPT !.count = @ + 1]
      BY <2>2 DEF Door!Slot
    <3>3. Door!Slot(k) \in Slots /\ Door!Slot(k).start = hits[k].start
      BY <1>4, <3>1, <3>2 DEF Slots
    <3> QED BY <1>4, <3>1, <3>3
  <2> QED BY <2>1, <2>2
<1>6. k \in keys
  BY <1>2, <1>3, <1>5
<1>7. DOMAIN hits' = keys \ out /\ \A x \in keys \ out : hits'[x] = windows[x]
  BY <1>1
<1>8. \A x \in DOMAIN hits : x # k /\ x \notin DOMAIN hits' /\ x \notin evicted'
        => clock - hits[x].start >= Window
  BY <1>1, <1>2, <1>3, <1>4, <1>7
<1> QED BY <1>1, <1>2, <1>3, <1>5, <1>6, <1>7, <1>8

\* Whom Allow admits.
LEMMA AdmittedAfter ==
  ASSUME QuotaInv, Limit > 0, NEW k \in Visitors, Door!Allow(k)
  PROVE  /\ \A x \in Visitors : x # k => admitted'[x] = admitted[x]
         /\ k \in evicted' \/ Door!Spent(k) => admitted'[k] = admitted[k]
         /\ k \notin evicted' /\ ~Door!Spent(k) =>
              admitted'[k] = Append(admitted[k], clock)
         /\ admitted' \in [Visitors -> Seq(Nat)]
         /\ clock' = clock
<1>1. admitted \in [Visitors -> Seq(Nat)] /\ clock \in Nat
  BY DEF QuotaInv, TableOK
<1>2. clock' = clock
  BY DEF Door!Allow
<1>3. CASE k \in evicted' \/ Door!Spent(k)
  <2>1. admitted' = admitted
    BY <1>3 DEF Door!Allow
  <2> QED BY <1>1, <1>2, <1>3, <2>1
<1>4. CASE ~(k \in evicted' \/ Door!Spent(k))
  <2>1. admitted' = [admitted EXCEPT ![k] = Append(@, clock)]
    BY <1>4 DEF Door!Allow
  <2>2. Append(admitted[k], clock) \in Seq(Nat)
    BY <1>1
  <2> QED BY <1>1, <1>2, <1>4, <2>1, <2>2
<1> QED BY <1>3, <1>4

LEMMA TableKept ==
  ASSUME Door!Constants, QuotaInv, Limit > 0, NEW k \in Visitors, Door!Allow(k)
  PROVE  TableOK'
<1>1. /\ clock \in Nat /\ DOMAIN hits \subseteq Visitors
      /\ \A x \in DOMAIN hits : hits[x] \in Slots /\ hits[x].start <= clock
      /\ \A x \in Visitors : admitted[x] \in Seq(Nat) /\ Rising(admitted[x])
           /\ \A i \in 1..Len(admitted[x]) : admitted[x][i] <= clock
  BY DEF QuotaInv, TableOK
<1>2. DOMAIN hits' \subseteq Visitors
      /\ \A x \in DOMAIN hits' : hits'[x] \in Slots /\ hits'[x].start <= clock
  BY <1>1, TableAfter
<1>3. ASSUME NEW x \in Visitors
      PROVE  Rising(admitted'[x]) /\ \A i \in 1..Len(admitted'[x]) : admitted'[x][i] <= clock
  <2>1. CASE admitted'[x] = admitted[x]
    BY <1>1, <2>1
  <2>2. CASE admitted'[x] = Append(admitted[x], clock)
    <3>1. /\ Rising(Append(admitted[x], clock))
          /\ \A i \in 1..(Len(admitted[x]) + 1) : Append(admitted[x], clock)[i] <= clock
      BY <1>1, RisesOn
    <3>2. Len(Append(admitted[x], clock)) = Len(admitted[x]) + 1
      BY <1>1, AppendedAt
    <3> QED BY <2>2, <3>1, <3>2
  <2> QED BY <2>1, <2>2, AdmittedAfter
<1> QED BY <1>1, <1>2, <1>3, AdmittedAfter DEF TableOK, Rising

LEMMA WindowsKept ==
  ASSUME Door!Constants, QuotaInv, Limit > 0, NEW k \in Visitors, Door!Allow(k),
         NEW x \in Visitors, x \notin evicted'
  PROVE  Windowed(x)'
<1>1. x \notin evicted /\ Windowed(x)
  BY TableAfter DEF QuotaInv
<1>2. clock' = clock
  BY AdmittedAfter
<1>3. CASE x # k
  <2>1. admitted'[x] = admitted[x]
    BY <1>3, AdmittedAfter
  <2>2. CASE x \in DOMAIN hits'
    <3>1. x \in DOMAIN hits /\ hits'[x] = hits[x]
      BY <1>3, <2>2, TableAfter
    <3> QED BY <1>1, <1>2, <2>1, <2>2, <3>1 DEF Windowed, Kept, Spread
  <2>3. CASE x \notin DOMAIN hits'
    <3>1. x \in DOMAIN hits => clock - hits[x].start >= Window
      BY <1>3, <2>3, TableAfter
    <3>2. Len(admitted[x]) = 0 \/ \E p : Opens(admitted[x], p) /\ clock - admitted[x][p] >= Window
      BY <1>1, <3>1 DEF Windowed, Kept
    <3> QED BY <1>1, <1>2, <2>1, <2>3, <3>2 DEF Windowed, Kept, Spread
  <2> QED BY <2>2, <2>3
<1>4. CASE x = k
  <2> DEFINE list == admitted[k]
  <2>1. /\ list \in Seq(Nat) /\ Rising(list) /\ Spread(list) /\ clock \in Nat
        /\ \A i \in 1..Len(list) : list[i] <= clock
        /\ Limit \in Nat /\ Window \in Nat
    BY <1>1, <1>4 DEF QuotaInv, TableOK, Windowed, Door!Constants
  <2>2. k \in DOMAIN hits' /\ hits'[k] = Door!Slot(k)
    BY <1>4, TableAfter
  <2>3. CASE Door!NewWindow(k)
    <3>1. Door!Slot(k) = [start |-> clock, count |-> 1] /\ ~Door!Spent(k)
      BY <2>3 DEF Door!Slot, Door!Spent
    <3>2. admitted'[k] = Append(list, clock)
      BY <1>4, <3>1, AdmittedAfter
    <3>3. Len(list) = 0 \/ \E p : Opens(list, p) /\ clock - list[p] >= Window
      BY <1>1, <1>4, <2>3, Admission
    <3> HIDE DEF list
    <3>4. Spread(Append(list, clock)) /\ Opens(Append(list, clock), Len(list) + 1)
      BY <2>1, <3>3, BeginsAnew
    <3>5. /\ Append(list, clock)[Len(list) + 1] = clock
          /\ Len(Append(list, clock)) + 1 - (Len(list) + 1) = 1
      BY <2>1, AppendedAt
    <3>6. hits'[k].start = clock /\ hits'[k].count = 1
      BY <2>2, <3>1
    <3> QED BY <1>4, <2>2, <3>2, <3>4, <3>5, <3>6 DEF Windowed, Kept, Spread
  <2>4. CASE ~Door!NewWindow(k)
    <3>1. PICK p : /\ Opens(list, p) /\ hits[k].start = list[p]
                   /\ hits[k].count = Len(list) + 1 - p
      BY <1>1, <1>4, <2>4, Admission
    <3>2. CASE Door!Spent(k)
      <4>1. hits'[k] = hits[k]
        BY <2>2, <2>4, <3>2 DEF Door!Slot
      <4>2. admitted'[k] = list
        BY <3>2, AdmittedAfter
      <4> QED BY <1>4, <2>1, <2>2, <3>1, <4>1, <4>2 DEF Windowed, Kept, Spread
    <3>3. CASE ~Door!Spent(k)
      <4>1. hits'[k] = [hits[k] EXCEPT !.count = @ + 1]
        BY <2>2, <2>4, <3>3 DEF Door!Slot
      <4>2. hits[k] \in Slots
        BY <2>4 DEF QuotaInv, TableOK, Door!NewWindow
      <4>3. hits'[k].start = list[p] /\ hits'[k].count = Len(list) + 1 - p + 1
        BY <3>1, <4>1, <4>2 DEF Slots
      <4>4. admitted'[k] = Append(list, clock)
        BY <1>4, <3>3, AdmittedAfter
      <4>5. Len(list) + 1 - p < Limit
        BY <2>1, <2>4, <3>1, <3>3, <4>2 DEF Door!Spent, Slots
      <4> HIDE DEF list
      <4>6. Spread(Append(list, clock)) /\ Opens(Append(list, clock), p)
        BY <2>1, <3>1, <4>5, GoesOn
      <4>7. p \in 1..Len(list) /\ Len(list) \in Nat
        BY <2>1, <3>1 DEF Opens
      <4>8. /\ Append(list, clock)[p] = list[p]
            /\ Len(Append(list, clock)) + 1 - p = Len(list) + 1 - p + 1
        BY <2>1, <4>7, AppendedAt
      <4> QED BY <1>4, <2>2, <4>3, <4>4, <4>6, <4>8 DEF Windowed, Kept, Spread
    <3> QED BY <3>2, <3>3
  <2> QED BY <2>3, <2>4
<1> QED BY <1>3, <1>4

LEMMA QuotaSteps ==
  ASSUME Door!Constants, QuotaInv, [Door!Next]_(Door!vars)
  PROVE  QuotaInv'
<1>1. ASSUME NEW k \in Visitors, Door!Allow(k), Limit > 0 PROVE QuotaInv'
  BY <1>1, TableKept, WindowsKept DEF QuotaInv
<1>2. ASSUME NEW k \in Visitors, Door!Allow(k), Limit = 0 PROVE QuotaInv'
  <2>1. hits' = hits /\ evicted' = evicted /\ clock' = clock
    BY <1>2 DEF Door!Allow
  <2>2. /\ clock \in Nat
        /\ \A x \in Visitors : admitted[x] \in Seq(Nat) /\ Rising(admitted[x])
             /\ \A i \in 1..Len(admitted[x]) : admitted[x][i] <= clock
    BY DEF QuotaInv, TableOK
  <2>3. CASE admitted' = admitted
    BY <1>2, <2>1, <2>3 DEF QuotaInv, TableOK
  <2>4. CASE admitted' = [admitted EXCEPT ![k] = Append(@, clock)]
    <3>1. Append(admitted[k], clock) \in Seq(Nat)
      BY <2>2
    <3>2. \A x \in Visitors : admitted'[x] = IF x = k THEN Append(admitted[k], clock)
                                             ELSE admitted[x]
      BY <2>4 DEF QuotaInv, TableOK
    <3>3. admitted' \in [Visitors -> Seq(Nat)]
      BY <2>4, <3>1 DEF QuotaInv, TableOK
    <3>4. ASSUME NEW x \in Visitors
          PROVE  /\ Rising(admitted'[x])
                 /\ \A i \in 1..Len(admitted'[x]) : admitted'[x][i] <= clock
      <4>1. CASE x = k
        <5>1. /\ Rising(Append(admitted[k], clock))
              /\ \A i \in 1..(Len(admitted[k]) + 1) : Append(admitted[k], clock)[i] <= clock
          BY <2>2, RisesOn
        <5>2. Len(Append(admitted[k], clock)) = Len(admitted[k]) + 1
          BY <2>2, AppendedAt
        <5> QED BY <3>2, <4>1, <5>1, <5>2
      <4>2. CASE x # k
        BY <2>2, <3>2, <4>2
      <4> QED BY <4>1, <4>2
    <3> QED BY <1>2, <2>1, <3>3, <3>4 DEF QuotaInv, TableOK, Rising
  <2> QED BY <1>2, <2>3, <2>4 DEF Door!Allow
<1>3. CASE UNCHANGED <<clock, hits, admitted, evicted>>
  BY <1>3 DEF QuotaInv, TableOK, Windowed, Kept
<1>4. CASE Door!Tick
  <2>1. clock' = clock + 1 /\ hits' = hits /\ admitted' = admitted /\ evicted' = evicted
    BY <1>4 DEF Door!Tick, Door!quota
  <2>2. TableOK'
    <3>1. /\ clock \in Nat
          /\ \A k \in DOMAIN hits : hits[k].start \in Nat /\ hits[k].start <= clock
          /\ \A k \in Visitors : \A i \in 1..Len(admitted[k]) :
               admitted[k][i] \in Nat /\ admitted[k][i] <= clock
      BY DEF QuotaInv, TableOK, Slots
    <3>2. /\ \A k \in DOMAIN hits : hits[k].start <= clock + 1
          /\ \A k \in Visitors : \A i \in 1..Len(admitted[k]) : admitted[k][i] <= clock + 1
      BY <3>1
    <3> QED BY <2>1, <3>1, <3>2 DEF QuotaInv, TableOK
  <2>3. ASSUME NEW k \in Visitors, Windowed(k) PROVE Windowed(k)'
    <3>1. CASE Len(admitted[k]) = 0
      BY <2>1, <2>3, <3>1 DEF Windowed, Opens, Kept
    <3>2. ASSUME NEW p, Opens(admitted[k], p), Kept(k, p) PROVE Kept(k, p)'
      <4>1. admitted[k][p] \in Nat /\ clock \in Nat /\ Window \in Nat
        BY <3>2 DEF QuotaInv, TableOK, Opens, Door!Constants
      <4> QED BY <2>1, <3>2, <4>1 DEF Kept
    <3> QED BY <2>1, <2>3, <3>1, <3>2 DEF Windowed
  <2> QED BY <2>1, <2>2, <2>3 DEF QuotaInv
<1>5. (\E a \in Threads : Door!AskLimits(a) \/ Door!AnswerLimits(a) \/ Door!StoreLimits(a))
        \/ UNCHANGED Door!vars => UNCHANGED <<clock, hits, admitted, evicted>>
  BY DEF Door!AskLimits, Door!AnswerLimits, Door!StoreLimits, Door!quota, Door!vars
<1>6. Limit > 0 \/ Limit = 0
  BY DEF Door!Constants
<1> QED BY <1>1, <1>2, <1>3, <1>4, <1>5, <1>6 DEF Door!Next

\* Whatever the order of the visitors, the length of the windows and the size of
\* the table, no stretch as long as a window holds 2 * Limit admissions of a
\* visitor whose window was never evicted.
THEOREM QuotaHolds == ASSUME Door!Constants PROVE Door!Spec => []QuotaKept
<1>1. Door!Init => QuotaInv
  <2> SUFFICES ASSUME Door!Init PROVE QuotaInv
    OBVIOUS
  <2>1. clock = 0 /\ DOMAIN hits = {} /\ \A k \in Visitors : admitted[k] = <<>>
    BY DEF Door!Init
  <2>2. admitted \in [Visitors -> Seq(Nat)]
    BY DEF Door!Init
  <2>3. \A k \in Visitors : Len(admitted[k]) = 0
    BY <2>1
  <2>4. \A k \in Visitors : Rising(admitted[k]) /\ Spread(admitted[k])
    BY <2>3 DEF Rising, Spread
  <2> QED BY <2>1, <2>2, <2>3, <2>4 DEF QuotaInv, TableOK, Windowed
<1>2. QuotaInv /\ [Door!Next]_(Door!vars) => QuotaInv'
  BY QuotaSteps
<1>3. QuotaInv => QuotaKept
  BY DEF QuotaInv, Windowed, Spread, QuotaKept, Door!QuotaKept
<1> QED BY <1>1, <1>2, <1>3, PTL DEF Door!Spec


----------------------------------------------------------------------------
(* The boxes. Ledger: the sites somebody can name, from the registry, from *)
(* a mint under way or from one of the accidents the model remembers.      *)

Places ==
  {"idle", "lock", "sweep", "stop", "write", "move", "count", "rpc", "start",
   "end", "add", "drop", "answer"}

Hand == [at : Places, then : Places, saw : SUBSET Sites, mine : Sites \cup {Box!NoSite}]

\* A request that is being served, and one that has a session in its hands.
Serving(h) == h.at \notin {"idle", "lock"}

Holding(h) ==
  h.at \in {"start", "end", "add", "write"} \/ (h.at = "move" /\ h.then = "answer")

ThreadHand(h) ==
  /\ h.at \notin {"drop", "answer"}
  /\ h.at = "stop" => h.then = "count"
  /\ h.at = "write" => h.then = "answer"
  /\ h.at = "move" => h.then \in {"count", "answer"}
  /\ h.mine = Box!NoSite <=> ~Holding(h)

CleanerHand(h) ==
  /\ h.at \in {"idle", "sweep", "stop", "write", "move", "drop"}
  /\ h.then \in {"idle", "sweep"}
  /\ h.mine = Box!NoSite

BoxTyped ==
  /\ now \in Int
  /\ session \in [Sites -> [state : {"unused", "live", "ended"}, expires : Int]]
  /\ sim \in [Sites -> {"none", "running", "gone"}]
  /\ file \subseteq Sites
  /\ tmp \in {<<>>} \cup Single(SUBSET Sites)

\* A thread serves a request exactly while it holds the mint lock.
Crew ==
  /\ actor \in [Box!Actors -> Hand]
  /\ \A a \in Threads : ThreadHand(actor[a]) /\ (Serving(actor[a]) <=> lock = a)
  /\ \A a \in Cleaners : CleanerHand(actor[a])
  /\ lock \in Threads \cup {Box!NoSite}

\* The requests that take a place at the door.
Admitted == { a \in Threads : actor[a].at # "idle" }

\* A site that costs a session or a simulator, and who can name it.
InUse(s) == (Box!InDatabase(s) \/ sim[s] = "running") /\ ~Box!Expired(s)

InMint(s) == \E a \in Threads : actor[a].mine = s

Ledger(s) == s \in file \cup lost \cup orphaned \/ InMint(s)

\* What the ceiling counts; a mint that has passed it finds room.
Counted == Box!Simulating \ (lost \cup orphaned)

Room ==
  /\ Cardinality(Counted) <= MaxLive
  /\ \A a \in Threads :
       /\ actor[a].at \in {"rpc", "start"} => Cardinality(Counted) < MaxLive
       /\ actor[a].at \in {"start", "end"} => sim[actor[a].mine] # "running"
  /\ \A s \in Sites : session[s].state = "unused" => sim[s] # "running"

BoxInv ==
  /\ BoxTyped /\ Crew
  /\ inflight = Cardinality(Admitted)
  /\ \A s \in Sites : InUse(s) => Ledger(s)
  /\ Room

\* Actor a comes to place x, and holds what follows.
To(a, x, t, w, m) ==
  actor' = [actor EXCEPT ![a] = [at |-> x, then |-> t, saw |-> w, mine |-> m]]

\* The box counts with a copy of the operators of FiniteSets.
LEMMA SameCount ==
  \A S : /\ Box!IsFiniteSet(S) <=> IsFiniteSet(S)
         /\ Box!Cardinality(S) = Cardinality(S)
<1>1. \A S : Box!IsFiniteSet(S) <=> IsFiniteSet(S)
  BY DEF Box!IsFiniteSet, IsFiniteSet
<1>2. \A S : Box!Cardinality(S) = Cardinality(S)
  BY DEF Box!Cardinality, Cardinality
<1> QED BY <1>1, <1>2

LEMMA CastOfActors ==
  ASSUME Box!Constants
  PROVE  /\ Threads \subseteq Box!Actors /\ Cleaners \subseteq Box!Actors
         /\ \A a \in Box!Actors : a \in Threads \/ a \in Cleaners
         /\ Threads \cap Cleaners = {} /\ Box!NoSite \notin Threads \cup Sites
         /\ "reaper" \notin Threads /\ "sweeper" \notin Threads
         /\ IsFiniteSet(Sites) /\ IsFiniteSet(Threads) /\ MaxLive \in Nat
         /\ TTL \in Nat /\ MaxTime \in Nat
BY SameCount DEF Box!Constants, Box!Actors, Box!Sweeper, Box!Reaper

LEMMA Gone ==
  ASSUME actor \in [Box!Actors -> Hand], NEW a \in Box!Actors, NEW x
  PROVE  Box!Goto(a, x) => To(a, x, actor[a].then, actor[a].saw, actor[a].mine)
<1>1. [actor[a] EXCEPT !.at = x] =
        [at |-> x, then |-> actor[a].then, saw |-> actor[a].saw, mine |-> actor[a].mine]
  BY DEF Hand
<1> QED BY <1>1, Zenon DEF Box!Goto, To

LEMMA Resumed ==
  ASSUME NEW a \in Box!Actors, NEW x
  PROVE  Box!Resume(a, x) => To(a, x, "idle", {}, actor[a].mine)
<1>1. ASSUME NEW m
      PROVE  [Box!Idle EXCEPT !.at = x, !.mine = m] =
               [at |-> x, then |-> "idle", saw |-> {}, mine |-> m]
  <2> DEFINE h == [at |-> x, then |-> "idle", saw |-> {}, mine |-> Box!NoSite]
  <2>1. [Box!Idle EXCEPT !.at = x] = h
    BY DEF Box!Idle
  <2>2. [h EXCEPT !.mine = m] = [at |-> x, then |-> "idle", saw |-> {}, mine |-> m]
    OBVIOUS
  <2> QED BY <2>1, <2>2, Zenon
<1> QED BY <1>1, Zenon DEF Box!Resume, To

LEMMA Finished ==
  ASSUME NEW a \in Box!Actors, Box!Finish(a)
  PROVE  To(a, "idle", "idle", {}, Box!NoSite)
BY DEF Box!Finish, Box!Idle, To

\* Actor a comes to another place, and the locks follow.
LEMMA CrewMoves ==
  ASSUME Box!Constants, Crew, NEW a \in Box!Actors, NEW x \in Places, NEW t \in Places,
         NEW w \in SUBSET Sites, NEW m \in Sites \cup {Box!NoSite},
         To(a, x, t, w, m),
         lock' \in Threads \cup {Box!NoSite},
         \A b \in Threads : b # a => (lock' = b <=> lock = b),
         a \in Threads =>
           /\ ThreadHand([at |-> x, then |-> t, saw |-> w, mine |-> m])
           /\ x \notin {"idle", "lock"} <=> lock' = a,
         a \in Cleaners => CleanerHand([at |-> x, then |-> t, saw |-> w, mine |-> m])
  PROVE  /\ Crew'
         /\ actor'[a].at = x /\ actor'[a].then = t /\ actor'[a].saw = w /\ actor'[a].mine = m
         /\ \A b \in Box!Actors : b # a => actor'[b] = actor[b]
<1> DEFINE h == [at |-> x, then |-> t, saw |-> w, mine |-> m]
<1>1. h \in Hand /\ h.at = x /\ h.then = t /\ h.saw = w /\ h.mine = m
  BY DEF Hand
<1>2. Serving(h) <=> x \notin {"idle", "lock"}
  BY DEF Serving
<1>3. /\ a \in Threads => ThreadHand(h) /\ (Serving(h) <=> lock' = a)
      /\ a \in Cleaners => CleanerHand(h)
  BY <1>2
<1>4. actor' = [actor EXCEPT ![a] = h]
  BY Zenon DEF To
<1> HIDE DEF h
<1>5. /\ actor' \in [Box!Actors -> Hand] /\ actor'[a] = h
      /\ \A b \in Box!Actors : b # a => actor'[b] = actor[b]
  BY <1>1, <1>4 DEF Crew
<1>6. \A b \in Threads : ThreadHand(actor'[b]) /\ (Serving(actor'[b]) <=> lock' = b)
  BY <1>3, <1>5, CastOfActors DEF Crew
<1>7. \A b \in Cleaners : CleanerHand(actor'[b])
  BY <1>3, <1>5, CastOfActors DEF Crew
<1> QED BY <1>1, <1>5, <1>6, <1>7 DEF Crew, ThreadHand, CleanerHand, Serving, Holding

\* Who is admitted afterwards.
LEMMA AdmittedMoves ==
  ASSUME Box!Constants, NEW a \in Box!Actors,
         \A b \in Box!Actors : b # a => actor'[b] = actor[b]
  PROVE  /\ (a \in Threads => (actor'[a].at = "idle" <=> actor[a].at = "idle"))
              => Admitted' = Admitted
         /\ a \in Threads /\ actor'[a].at = "idle" => Admitted' = Admitted \ {a}
         /\ a \in Threads /\ actor'[a].at # "idle" => Admitted' = Admitted \cup {a}
         /\ IsFiniteSet(Admitted) /\ Cardinality(Admitted) \in Nat
<1>1. IsFiniteSet(Admitted)
  BY CastOfActors, FS_Subset DEF Admitted
<1>2. Cardinality(Admitted) \in Nat
  BY <1>1, FS_CardinalityType
<1> QED BY <1>1, <1>2, CastOfActors DEF Admitted

\* A request that is over leaves the lock and its place.
LEMMA CrewFinishes ==
  ASSUME Box!Constants, Crew, inflight = Cardinality(Admitted),
         NEW a \in Box!Actors, Box!Finish(a), a \in Threads => Serving(actor[a])
  PROVE  /\ Crew' /\ inflight' = Cardinality(Admitted')
         /\ actor'[a].at = "idle" /\ actor'[a].mine = Box!NoSite
         /\ \A b \in Box!Actors : b # a => actor'[b] = actor[b]
<1> DEFINE h == [at |-> "idle", then |-> "idle", saw |-> {}, mine |-> Box!NoSite]
<1>1. To(a, "idle", "idle", {}, Box!NoSite)
  BY Finished
<1>2. lock' = IF lock = a THEN Box!NoSite ELSE lock
  BY DEF Box!Finish
<1>3. ThreadHand(h) /\ CleanerHand(h)
  BY DEF ThreadHand, CleanerHand, Holding
<1>4. /\ lock' \in Threads \cup {Box!NoSite}
      /\ \A b \in Threads : b # a => (lock' = b <=> lock = b)
      /\ a \in Threads => lock' # a
  BY <1>2, CastOfActors DEF Crew
<1>5. /\ Crew' /\ actor'[a].at = "idle" /\ actor'[a].mine = Box!NoSite
      /\ \A b \in Box!Actors : b # a => actor'[b] = actor[b]
  <2>1. "idle" \in Places /\ {} \in SUBSET Sites
    BY DEF Places
  <2>2. a \in Threads => /\ ThreadHand([at |-> "idle", then |-> "idle", saw |-> {},
                                          mine |-> Box!NoSite])
                         /\ "idle" \notin {"idle", "lock"} <=> lock' = a
    BY <1>3, <1>4
  <2>3. a \in Cleaners => CleanerHand([at |-> "idle", then |-> "idle", saw |-> {},
                                       mine |-> Box!NoSite])
    BY <1>3
  <2>4. Box!NoSite \in Sites \cup {Box!NoSite}
    OBVIOUS
  <2> QED BY <1>1, <1>4, <2>1, <2>2, <2>3, <2>4, CrewMoves, ZenonT(30)
<1>6. CASE a \in Threads
  <2>1. inflight' = inflight - 1
    BY <1>6 DEF Box!Finish
  <2>2. Admitted' = Admitted \ {a} /\ a \in Admitted
    BY <1>5, <1>6, AdmittedMoves DEF Serving, Admitted
  <2>3. Cardinality(Admitted \ {a}) = Cardinality(Admitted) - 1
    BY <2>2, AdmittedMoves, <1>5, FS_RemoveElement
  <2> QED BY <1>5, <2>1, <2>2, <2>3
<1>7. CASE a \notin Threads
  <2>1. inflight' = inflight
    BY <1>7 DEF Box!Finish
  <2>2. Admitted' = Admitted
    BY <1>5, <1>7, AdmittedMoves
  <2> QED BY <1>5, <2>1, <2>2
<1> QED BY <1>6, <1>7

\* A step that puts no sandbox in use without naming it, counts no further one
\* and lets no mint pass the ceiling.
LEMMA Lessens ==
  ASSUME Box!Constants, BoxInv, BoxTyped', Crew', inflight' = Cardinality(Admitted'),
         \A s \in Sites : InUse(s)' => Ledger(s)',
         Counted' \subseteq Counted,
         \A a \in Threads : actor'[a].at \in {"rpc", "start"} =>
           actor[a].at \in {"rpc", "start"} \/ Cardinality(Counted) < MaxLive,
         \A a \in Threads : actor'[a].at \in {"start", "end"} =>
           sim'[actor'[a].mine] # "running",
         \A s \in Sites : session'[s].state = "unused" => sim'[s] # "running"
  PROVE  BoxInv'
<1>1. IsFiniteSet(Counted)
  BY CastOfActors, FS_Subset DEF Counted, Box!Simulating
<1>2. IsFiniteSet(Counted') /\ Cardinality(Counted') <= Cardinality(Counted)
  BY <1>1, FS_Subset
<1>3. Cardinality(Counted) \in Nat /\ Cardinality(Counted') \in Nat
  BY <1>1, <1>2, FS_CardinalityType
<1>4. MaxLive \in Nat
  BY CastOfActors
<1>5. Cardinality(Counted') <= MaxLive
  BY <1>2, <1>3, <1>4 DEF BoxInv, Room
<1>6. \A a \in Threads :
        actor'[a].at \in {"rpc", "start"} => Cardinality(Counted') < MaxLive
  BY <1>2, <1>3, <1>4 DEF BoxInv, Room
<1> QED BY <1>5, <1>6 DEF BoxInv, Room

\* A step that touches the actors alone.
LEMMA Untouched ==
  ASSUME BoxTyped, UNCHANGED <<now, session, sim, file>>,
         tmp' = tmp \/ tmp' \in Single(SUBSET Sites)
  PROVE  /\ BoxTyped'
         /\ \A s \in Sites : InUse(s)' <=> InUse(s)
         /\ lost' = lost /\ orphaned' = orphaned => Counted' = Counted
BY DEF BoxTyped, InUse, Box!InDatabase, Box!Expired, Counted, Box!Simulating

\* A step of one actor that keeps what it minted, if it minted.
LEMMA HandOnly ==
  ASSUME Box!Constants, BoxInv, Crew', inflight' = Cardinality(Admitted'),
         NEW a \in Box!Actors,
         \A b \in Box!Actors : b # a => actor'[b] = actor[b],
         actor'[a].mine = actor[a].mine,
         actor'[a].at \notin {"start", "end"},
         actor'[a].at = "rpc" => Cardinality(Counted) < MaxLive,
         UNCHANGED <<now, session, sim, file, lost, orphaned>>,
         tmp' = tmp \/ tmp' \in Single(SUBSET Sites)
  PROVE  BoxInv'
<1>1. /\ BoxTyped' /\ Counted' = Counted
      /\ \A s \in Sites : InUse(s)' <=> InUse(s)
  BY Untouched DEF BoxInv
<1>2. \A b \in Threads : actor'[b].mine = actor[b].mine
  BY CastOfActors
<1>3. \A s \in Sites : Ledger(s)' <=> Ledger(s)
  BY <1>2 DEF Ledger, InMint
<1>4. \A b \in Threads : actor'[b].at \in {"start", "end"} =>
        b # a /\ sim'[actor'[b].mine] # "running"
  BY CastOfActors DEF BoxInv, Room
<1>5. \A b \in Threads : actor'[b].at \in {"rpc", "start"} =>
        actor[b].at \in {"rpc", "start"} \/ Cardinality(Counted) < MaxLive
  BY CastOfActors
<1>6. \A s \in Sites : session'[s].state = "unused" => sim'[s] # "running"
  BY DEF BoxInv, Room
<1> QED BY <1>1, <1>3, <1>4, <1>5, <1>6, Lessens DEF BoxInv

\* The same, for a step inside of a request or of a cleaner's round.
LEMMA Onward ==
  ASSUME Box!Constants, BoxInv, NEW a \in Box!Actors, NEW x \in Places, NEW t \in Places,
         NEW w \in SUBSET Sites, To(a, x, t, w, actor[a].mine),
         UNCHANGED <<lock, inflight>>,
         a \in Threads =>
           /\ ThreadHand([at |-> x, then |-> t, saw |-> w, mine |-> actor[a].mine])
           /\ x \notin {"idle", "lock"} /\ Serving(actor[a]),
         a \in Cleaners =>
           CleanerHand([at |-> x, then |-> t, saw |-> w, mine |-> actor[a].mine])
  PROVE  /\ Crew' /\ inflight' = Cardinality(Admitted')
         /\ actor'[a].at = x /\ actor'[a].then = t /\ actor'[a].saw = w
         /\ actor'[a].mine = actor[a].mine
         /\ \A b \in Box!Actors : b # a => actor'[b] = actor[b]
<1>1. actor[a].mine \in Sites \cup {Box!NoSite}
  BY DEF BoxInv, Crew, Hand
<1>2. lock' \in Threads \cup {Box!NoSite}
  BY DEF BoxInv, Crew
<1>3. a \in Threads => lock = a
  BY DEF BoxInv, Crew
<1>4. /\ Crew' /\ actor'[a].at = x /\ actor'[a].then = t /\ actor'[a].saw = w
      /\ actor'[a].mine = actor[a].mine
      /\ \A b \in Box!Actors : b # a => actor'[b] = actor[b]
  BY <1>1, <1>2, <1>3, CrewMoves DEF BoxInv
<1>5. a \in Threads => actor'[a].at # "idle" /\ actor[a].at # "idle"
  BY <1>4 DEF Serving
<1>6. Admitted' = Admitted
  BY <1>4, <1>5, AdmittedMoves
<1> QED BY <1>4, <1>6 DEF BoxInv

\* Where actors are.
LEMMA Hands ==
  ASSUME Box!Constants, BoxInv, NEW a \in Box!Actors
  PROVE  /\ actor[a] \in Hand /\ actor[a].at \in Places /\ actor[a].then \in Places
         /\ actor[a].saw \subseteq Sites /\ actor[a].mine \in Sites \cup {Box!NoSite}
         /\ a \in Threads => ThreadHand(actor[a])
         /\ a \in Cleaners => CleanerHand(actor[a])
         /\ a \in Threads /\ Serving(actor[a]) =>
              \A b \in Threads : b # a => ~Serving(actor[b])
         /\ actor \in [Box!Actors -> Hand]
BY DEF BoxInv, Crew, Hand

----------------------------------------------------------------------------
(* The steps of the box.                                                   *)

LEMMA RequestKeeps ==
  ASSUME Box!Constants, BoxInv, NEW a \in Box!Actors, Box!Request(a) PROVE BoxInv'
<1>1. a \in Threads /\ actor[a].at = "idle" /\ inflight' = inflight + 1
      /\ UNCHANGED <<now, session, sim, file, tmp, lock, lost, orphaned>>
  BY DEF Box!Request
<1>2. To(a, "lock", actor[a].then, actor[a].saw, actor[a].mine)
  BY Hands, Gone DEF Box!Request
<1>3. /\ actor[a].mine = Box!NoSite /\ lock # a
      /\ ThreadHand([at |-> "lock", then |-> actor[a].then, saw |-> actor[a].saw,
                     mine |-> actor[a].mine])
  BY <1>1 DEF BoxInv, Crew, ThreadHand, Holding, Serving
<1>4. /\ Crew' /\ actor'[a].at = "lock" /\ actor'[a].mine = actor[a].mine
      /\ \A b \in Box!Actors : b # a => actor'[b] = actor[b]
  <2> DEFINE x == "lock"
             h == [at |-> x, then |-> actor[a].then, saw |-> actor[a].saw,
                   mine |-> actor[a].mine]
  <2>1. /\ a \in Threads => ThreadHand(h) /\ (x \notin {"idle", "lock"} <=> lock' = a)
        /\ a \in Cleaners => CleanerHand(h)
        /\ \A b \in Threads : b # a => (lock' = b <=> lock = b)
    BY <1>1, <1>3, CastOfActors
  <2>2. x \in Places /\ lock' \in Threads \cup {Box!NoSite}
    BY <1>1 DEF Places, BoxInv, Crew
  <2>3. /\ Crew /\ actor[a].then \in Places /\ actor[a].saw \in SUBSET Sites
        /\ actor[a].mine \in Sites \cup {Box!NoSite}
    BY Hands DEF BoxInv
  <2>4. To(a, x, actor[a].then, actor[a].saw, actor[a].mine)
    BY <1>2
  <2> HIDE DEF x
  <2>5. /\ Crew' /\ actor'[a].at = x /\ actor'[a].mine = actor[a].mine
        /\ \A b \in Box!Actors : b # a => actor'[b] = actor[b]
    BY <2>1, <2>2, <2>3, <2>4, CrewMoves
  <2> QED BY <2>5 DEF x
<1>5. inflight' = Cardinality(Admitted')
  <2>1. Admitted' = Admitted \cup {a} /\ a \notin Admitted
    BY <1>1, <1>4, AdmittedMoves DEF Admitted
  <2>2. Cardinality(Admitted \cup {a}) = Cardinality(Admitted) + 1
    BY <1>4, <2>1, AdmittedMoves, FS_AddElement
  <2> QED BY <1>1, <2>1, <2>2 DEF BoxInv
<1> QED BY <1>1, <1>4, <1>5, HandOnly

LEMMA EnterMintKeeps ==
  ASSUME Box!Constants, BoxInv, NEW a \in Threads, Box!EnterMint(a) PROVE BoxInv'
<1>1. a \in Box!Actors /\ actor[a].at = "lock" /\ lock = Box!NoSite /\ lock' = a
      /\ UNCHANGED <<now, session, sim, file, tmp, inflight, lost, orphaned>>
  BY CastOfActors DEF Box!EnterMint, Box!TakeLock
<1>2. To(a, "sweep", actor[a].then, actor[a].saw, actor[a].mine)
  BY <1>1, Hands, Gone DEF Box!EnterMint
<1>3. ThreadHand([at |-> "sweep", then |-> actor[a].then, saw |-> actor[a].saw,
                  mine |-> actor[a].mine])
  BY <1>1, Hands DEF ThreadHand, Holding
<1>4. /\ Crew' /\ actor'[a].at = "sweep" /\ actor'[a].mine = actor[a].mine
      /\ \A b \in Box!Actors : b # a => actor'[b] = actor[b]
  <2>1. "sweep" \in Places /\ lock' \in Threads \cup {Box!NoSite}
    BY <1>1 DEF Places
  <2>2. \A b \in Threads : b # a => (lock' = b <=> lock = b)
    BY <1>1, CastOfActors
  <2> QED BY <1>1, <1>2, <1>3, <2>1, <2>2, CrewMoves, CastOfActors, Hands DEF BoxInv
<1>5. inflight' = Cardinality(Admitted')
  <2>1. Admitted' = Admitted
    BY <1>1, <1>4, AdmittedMoves
  <2> QED BY <1>1, <2>1 DEF BoxInv
<1> QED BY <1>1, <1>4, <1>5, HandOnly

LEMMA FinishKeeps ==
  ASSUME Box!Constants, BoxInv, NEW a \in Threads, Serving(actor[a]),
         actor[a].mine = Box!NoSite, Box!Finish(a),
         UNCHANGED <<now, session, sim, file, tmp, lost, orphaned>>
  PROVE  BoxInv'
<1>1. a \in Box!Actors /\ Crew /\ inflight = Cardinality(Admitted)
  BY CastOfActors DEF BoxInv
<1>2. /\ Crew' /\ inflight' = Cardinality(Admitted')
      /\ actor'[a].at = "idle" /\ actor'[a].mine = Box!NoSite
      /\ \A b \in Box!Actors : b # a => actor'[b] = actor[b]
  BY <1>1, CrewFinishes
<1> QED BY <1>1, <1>2, HandOnly

LEMMA MintRefusedKeeps ==
  ASSUME Box!Constants, BoxInv, NEW a \in Threads, Box!MintRefused(a) PROVE BoxInv'
<1>1. /\ actor[a].at = "rpc" /\ Box!Finish(a)
      /\ UNCHANGED <<now, session, sim, file, tmp, lost, orphaned>>
  BY DEF Box!MintRefused
<1>2. actor[a].mine = Box!NoSite /\ Serving(actor[a])
  BY <1>1, Hands, CastOfActors DEF ThreadHand, Holding, Serving
<1> QED BY <1>1, <1>2, FinishKeeps

\* The box is not full: there is room for one more, for the mint is the only
\* one and has no sandbox yet.
LEMMA CountKeeps ==
  ASSUME Box!Constants, BoxInv, NEW a \in Threads, Box!Count(a) PROVE BoxInv'
<1>1. /\ actor[a].at = "count" /\ a \in Box!Actors
      /\ UNCHANGED <<now, session, sim, file, tmp, lost, orphaned>>
  BY CastOfActors DEF Box!Count
<1>2. actor[a].mine = Box!NoSite /\ Serving(actor[a])
  BY <1>1, Hands DEF ThreadHand, Holding, Serving
<1>3. CASE Box!Full
  <2>1. Box!Finish(a)
    BY <1>3 DEF Box!Count
  <2> QED BY <1>1, <1>2, <2>1, FinishKeeps
<1>4. CASE ~Box!Full
  <2>1. UNCHANGED <<lock, inflight>> /\ Box!Goto(a, "rpc")
    BY <1>4 DEF Box!Count
  <2>2. /\ "rpc" \in Places
        /\ ThreadHand([at |-> "rpc", then |-> actor[a].then, saw |-> actor[a].saw,
                       mine |-> actor[a].mine])
    BY <1>2 DEF Places, ThreadHand, Holding
  <2>3. To(a, "rpc", actor[a].then, actor[a].saw, actor[a].mine)
    BY <1>1, <2>1, Hands, Gone
  <2>4. /\ Crew' /\ inflight' = Cardinality(Admitted')
        /\ actor'[a].at = "rpc" /\ actor'[a].mine = actor[a].mine
        /\ \A b \in Box!Actors : b # a => actor'[b] = actor[b]
    BY <1>1, <1>2, <2>1, <2>2, <2>3, Onward, Hands, CastOfActors
  <2>5. \A b \in Threads : actor[b].mine \notin Sites
    BY <1>2, Hands, CastOfActors DEF ThreadHand, Holding, Serving
  <2>6. Counted \subseteq Box!LiveOnThisBox
    BY <2>5 DEF BoxInv, Counted, Box!Simulating, Box!LiveOnThisBox, InUse, Ledger, InMint
  <2>7. IsFiniteSet(Box!LiveOnThisBox) /\ ~(Cardinality(Box!LiveOnThisBox) >= MaxLive)
    BY <1>4, CastOfActors, FS_Subset, SameCount
       DEF Box!Full, Box!LiveOnThisBox, BoxInv, BoxTyped
  <2>8. Cardinality(Counted) < MaxLive
    BY <2>6, <2>7, FS_Subset, FS_CardinalityType, CastOfActors
  <2> QED BY <1>1, <2>4, <2>8, HandOnly
<1> QED BY <1>3, <1>4

LEMMA AddKeeps ==
  ASSUME Box!Constants, BoxInv, NEW a \in Threads, Box!Add(a) PROVE BoxInv'
<1> DEFINE w == file \cup {actor[a].mine}
<1>1. /\ actor[a].at = "add" /\ a \in Box!Actors /\ a \notin Cleaners
      /\ UNCHANGED <<now, session, sim, file, tmp, lock, inflight, lost, orphaned>>
  BY CastOfActors DEF Box!Add
<1>2. actor[a].mine \in Sites /\ Serving(actor[a])
  BY <1>1, Hands DEF ThreadHand, Holding, Serving
<1>3. w \in SUBSET Sites
  BY <1>2 DEF BoxInv, BoxTyped
<1>4. To(a, "write", "answer", w, actor[a].mine)
  BY Zenon DEF Box!Add, Box!Plan, To
<1> HIDE DEF w
<1>5. /\ "write" \in Places /\ "answer" \in Places
      /\ ThreadHand([at |-> "write", then |-> "answer", saw |-> w, mine |-> actor[a].mine])
  BY <1>2, CastOfActors DEF Places, ThreadHand, Holding
<1>6. /\ Crew' /\ inflight' = Cardinality(Admitted')
      /\ actor'[a].at = "write" /\ actor'[a].mine = actor[a].mine
      /\ \A b \in Box!Actors : b # a => actor'[b] = actor[b]
  BY <1>1, <1>2, <1>3, <1>4, <1>5, Onward
<1> QED BY <1>1, <1>6, HandOnly

LEMMA WriteKeeps ==
  ASSUME Box!Constants, BoxInv, NEW a \in Box!Actors, Box!Write(a) PROVE BoxInv'
<1>1. /\ actor[a].at = "write" /\ tmp' = <<actor[a].saw>>
      /\ UNCHANGED <<now, session, sim, file, lock, inflight, lost, orphaned>>
  BY DEF Box!Write
<1>2. To(a, "move", actor[a].then, actor[a].saw, actor[a].mine)
  BY Hands, Gone DEF Box!Write
<1>3. /\ "move" \in Places /\ tmp' \in Single(SUBSET Sites)
      /\ a \in Threads =>
           /\ ThreadHand([at |-> "move", then |-> actor[a].then, saw |-> actor[a].saw,
                          mine |-> actor[a].mine])
           /\ Serving(actor[a])
      /\ a \in Cleaners =>
           CleanerHand([at |-> "move", then |-> actor[a].then, saw |-> actor[a].saw,
                        mine |-> actor[a].mine])
  BY <1>1, Hands DEF Places, Single, ThreadHand, CleanerHand, Holding, Serving
<1>4. /\ Crew' /\ inflight' = Cardinality(Admitted')
      /\ actor'[a].at = "move" /\ actor'[a].mine = actor[a].mine
      /\ \A b \in Box!Actors : b # a => actor'[b] = actor[b]
  BY <1>1, <1>2, <1>3, Onward, Hands
<1> QED BY <1>1, <1>3, <1>4, HandOnly

LEMMA SweepLoadKeeps ==
  ASSUME Box!Constants, BoxInv, NEW a \in Box!Actors, Box!SweepLoad(a) PROVE BoxInv'
<1> DEFINE home == Box!AfterSweep(a)
<1>1. /\ actor[a].at = "sweep"
      /\ UNCHANGED <<now, session, sim, file, tmp, lock, inflight, lost, orphaned>>
  BY DEF Box!SweepLoad
<1>2. /\ home \in Places /\ "stop" \in Places /\ file \in SUBSET Sites
      /\ (a \in Threads => home = "count") /\ (a \in Cleaners => home = "idle")
  BY CastOfActors DEF Box!AfterSweep, Places, BoxInv, BoxTyped
<1>3. \/ To(a, home, actor[a].then, actor[a].saw, actor[a].mine)
      \/ To(a, "stop", home, file, actor[a].mine)
  <2>1. CASE Box!Goto(a, home)
    BY <2>1, Hands, Gone
  <2>2. CASE Box!Plan(a, "stop", home, file)
    BY <2>2, Zenon DEF Box!Plan, To
  <2> QED BY <2>1, <2>2 DEF Box!SweepLoad
<1>4. a \in Threads => Serving(actor[a]) /\ actor[a].mine = Box!NoSite
  BY <1>1, Hands DEF ThreadHand, Holding, Serving
<1>5. a \in Cleaners => actor[a].mine = Box!NoSite /\ actor[a].then \in {"idle", "sweep"}
  BY Hands DEF CleanerHand
<1> HIDE DEF home
<1>6. ASSUME NEW x \in {home, "stop"}, NEW t \in Places, NEW w \in SUBSET Sites,
             To(a, x, t, w, actor[a].mine),
             x = "stop" => t = home, a \in Cleaners => t \in {"idle", "sweep"}
      PROVE  BoxInv'
  <2>1. /\ a \in Threads =>
             /\ ThreadHand([at |-> x, then |-> t, saw |-> w, mine |-> actor[a].mine])
             /\ x \notin {"idle", "lock", "start", "end", "rpc"}
        /\ a \in Cleaners =>
             /\ CleanerHand([at |-> x, then |-> t, saw |-> w, mine |-> actor[a].mine])
             /\ x \notin {"start", "end", "rpc"}
    BY <1>2, <1>4, <1>5, <1>6 DEF ThreadHand, CleanerHand, Holding
  <2>2. x \in Places
    BY <1>2
  <2>3. /\ Crew' /\ inflight' = Cardinality(Admitted')
        /\ actor'[a].at = x /\ actor'[a].mine = actor[a].mine
        /\ \A b \in Box!Actors : b # a => actor'[b] = actor[b]
    BY <1>1, <1>4, <1>6, <2>1, <2>2, Onward
  <2>4. x \notin {"start", "end", "rpc"}
    BY <2>1, CastOfActors
  <2> QED BY <1>1, <2>3, <2>4, HandOnly
<1>7. actor[a].then \in Places /\ actor[a].saw \in SUBSET Sites
  BY Hands
<1>8. CASE To(a, home, actor[a].then, actor[a].saw, actor[a].mine)
  <2>1. home # "stop"
    BY <1>2, CastOfActors
  <2> QED BY <1>5, <1>6, <1>7, <1>8, <2>1
<1>9. CASE To(a, "stop", home, file, actor[a].mine)
  BY <1>2, <1>6, <1>9
<1> QED BY <1>3, <1>8, <1>9

LEMMA WakeSweeperKeeps ==
  ASSUME Box!Constants, BoxInv, Box!WakeSweeper PROVE BoxInv'
<1> DEFINE a == "sweeper"
<1>1. /\ a \in Box!Actors /\ a \in Cleaners /\ a \notin Threads /\ actor[a].at = "idle"
      /\ UNCHANGED <<now, session, sim, file, tmp, lock, inflight, lost, orphaned>>
      /\ Box!Goto(a, "sweep")
  BY CastOfActors DEF Box!WakeSweeper, Box!Sweeper
<1> HIDE DEF a
<1>2. To(a, "sweep", actor[a].then, actor[a].saw, actor[a].mine)
  BY <1>1, Hands, Gone
<1>3. /\ "sweep" \in Places
      /\ CleanerHand([at |-> "sweep", then |-> actor[a].then, saw |-> actor[a].saw,
                      mine |-> actor[a].mine])
  BY <1>1, Hands DEF Places, CleanerHand
<1>4. /\ Crew' /\ inflight' = Cardinality(Admitted')
      /\ actor'[a].at = "sweep" /\ actor'[a].mine = actor[a].mine
      /\ \A b \in Box!Actors : b # a => actor'[b] = actor[b]
  BY <1>1, <1>2, <1>3, Onward, Hands
<1> QED BY <1>1, <1>4, HandOnly

\* A step that stops simulators, and nothing else but a save under way.
LEMMA StopsKeep ==
  ASSUME Box!Constants, BoxInv, Crew', inflight' = Cardinality(Admitted'),
         \A b \in Threads :
           \/ actor'[b] = actor[b]
           \/ /\ actor'[b].mine = actor[b].mine
              /\ actor'[b].at \notin {"rpc", "start", "end"},
         UNCHANGED <<now, session, file, lost, orphaned>>,
         sim' \in [Sites -> {"none", "running", "gone"}],
         \A s \in Sites : sim'[s] = sim[s] \/ sim'[s] = "gone",
         tmp' = tmp \/ tmp' \in Single(SUBSET Sites)
  PROVE  BoxInv'
<1>1. BoxTyped'
  BY DEF BoxInv, BoxTyped
<1>2. \A s \in Sites : InUse(s)' => InUse(s)
  BY DEF InUse, Box!InDatabase, Box!Expired
<1>3. \A s \in Sites : Ledger(s) => Ledger(s)'
  BY DEF Ledger, InMint
<1>4. Counted' \subseteq Counted
  BY DEF Counted, Box!Simulating, Box!Expired
<1>5. \A b \in Threads : actor'[b].at \in {"rpc", "start"} =>
        actor[b].at \in {"rpc", "start"} \/ Cardinality(Counted) < MaxLive
  OBVIOUS
<1>6. ASSUME NEW b \in Threads, actor'[b].at \in {"start", "end"}
      PROVE  sim'[actor'[b].mine] # "running"
  <2>1. actor'[b] = actor[b]
    BY <1>6
  <2>2. actor[b].mine \in Sites
    BY <1>6, <2>1, Hands, CastOfActors DEF ThreadHand, Holding
  <2>3. sim[actor[b].mine] # "running"
    BY <1>6, <2>1 DEF BoxInv, Room
  <2> QED BY <2>1, <2>2, <2>3
<1>7. \A s \in Sites : session'[s].state = "unused" => sim'[s] # "running"
  BY DEF BoxInv, Room
<1>8. \A s \in Sites : InUse(s)' => Ledger(s)'
  BY <1>2, <1>3 DEF BoxInv
<1> QED BY <1>1, <1>4, <1>5, <1>6, <1>7, <1>8, Lessens

LEMMA SweepStopKeeps ==
  ASSUME Box!Constants, BoxInv, NEW a \in Box!Actors, Box!SweepStop(a) PROVE BoxInv'
<1>1. /\ actor[a].at = "stop" /\ Box!Goto(a, "move")
      /\ UNCHANGED <<now, session, file, lock, inflight, lost, orphaned>>
  BY DEF Box!SweepStop
<1>2. /\ tmp' \in Single(SUBSET Sites)
      /\ sim' \in [Sites -> {"none", "running", "gone"}]
      /\ \A s \in Sites : sim'[s] = sim[s] \/ sim'[s] = "gone"
  <2>1. PICK gone \in SUBSET Sites : sim' = Box!Stopped(gone) /\ tmp' = <<actor[a].saw \ gone>>
    BY Hands DEF Box!SweepStop
  <2>2. actor[a].saw \ gone \in SUBSET Sites
    BY Hands
  <2> QED BY <2>1, <2>2 DEF Box!Stopped, Single, BoxInv, BoxTyped
<1>3. To(a, "move", actor[a].then, actor[a].saw, actor[a].mine)
  BY <1>1, Hands, Gone
<1>4. /\ "move" \in Places
      /\ a \in Threads =>
           /\ ThreadHand([at |-> "move", then |-> actor[a].then, saw |-> actor[a].saw,
                          mine |-> actor[a].mine])
           /\ Serving(actor[a])
      /\ a \in Cleaners =>
           CleanerHand([at |-> "move", then |-> actor[a].then, saw |-> actor[a].saw,
                        mine |-> actor[a].mine])
  BY <1>1, Hands DEF Places, ThreadHand, CleanerHand, Holding, Serving
<1>5. /\ Crew' /\ inflight' = Cardinality(Admitted')
      /\ actor'[a].at = "move" /\ actor'[a].mine = actor[a].mine
      /\ \A b \in Box!Actors : b # a => actor'[b] = actor[b]
  BY <1>1, <1>3, <1>4, Onward, Hands
<1>6. \A b \in Threads :
           \/ actor'[b] = actor[b]
           \/ /\ actor'[b].mine = actor[b].mine
              /\ actor'[b].at \notin {"rpc", "start", "end"}
  BY <1>5, CastOfActors
<1> QED BY <1>1, <1>2, <1>5, <1>6, StopsKeep

LEMMA DropReapedKeeps ==
  ASSUME Box!Constants, BoxInv, Box!DropReaped PROVE BoxInv'
<1> DEFINE a == "reaper"
           w == file \ actor[a].saw
<1>1. /\ a \in Box!Actors /\ a \in Cleaners /\ a \notin Threads
      /\ UNCHANGED <<now, session, file, tmp, lock, inflight, lost, orphaned>>
      /\ sim' = Box!Stopped(actor[a].saw \cap file)
  BY CastOfActors DEF Box!DropReaped, Box!Reaper
<1>2. To(a, "write", "sweep", w, actor[a].mine)
  BY Zenon DEF Box!DropReaped, Box!Reaper, Box!Plan, To
<1>3. w \in SUBSET Sites
  BY DEF BoxInv, BoxTyped
<1> HIDE DEF a, w
<1>4. /\ "write" \in Places /\ "sweep" \in Places
      /\ CleanerHand([at |-> "write", then |-> "sweep", saw |-> w, mine |-> actor[a].mine])
  BY <1>1, Hands DEF Places, CleanerHand
<1>5. /\ Crew' /\ inflight' = Cardinality(Admitted')
      /\ \A b \in Box!Actors : b # a => actor'[b] = actor[b]
  BY <1>1, <1>2, <1>3, <1>4, Onward
<1>6. \A b \in Threads :
           \/ actor'[b] = actor[b]
           \/ /\ actor'[b].mine = actor[b].mine
              /\ actor'[b].at \notin {"rpc", "start", "end"}
  BY <1>1, <1>5, CastOfActors
<1>7. /\ sim' \in [Sites -> {"none", "running", "gone"}]
      /\ \A s \in Sites : sim'[s] = sim[s] \/ sim'[s] = "gone"
  BY <1>1 DEF Box!Stopped, BoxInv, BoxTyped
<1> QED BY <1>1, <1>5, <1>6, <1>7, StopsKeep

LEMMA DriverEnds ==
  ASSUME Box!Constants, BoxInv, NEW s \in Sites, Box!Deadline(s) \/ Box!Dies(s)
  PROVE  BoxInv'
<1>1. /\ sim' = [sim EXCEPT ![s] = "gone"]
      /\ UNCHANGED <<now, session, file, tmp, lock, inflight, actor, lost, orphaned>>
  BY DEF Box!Deadline, Box!Dies
<1>2. Crew' /\ inflight' = Cardinality(Admitted')
  BY <1>1 DEF BoxInv, Crew, Admitted
<1>3. /\ sim' \in [Sites -> {"none", "running", "gone"}]
      /\ \A x \in Sites : sim'[x] = sim[x] \/ sim'[x] = "gone"
  BY <1>1 DEF BoxInv, BoxTyped
<1> QED BY <1>1, <1>2, <1>3, StopsKeep

\* A step that ends sessions, and lets no mint begin.
LEMMA EndsKeep ==
  ASSUME Box!Constants, BoxInv, Crew', inflight' = Cardinality(Admitted'),
         \A b \in Threads : actor'[b].at \in {"rpc", "start", "end"} => actor'[b] = actor[b],
         UNCHANGED <<now, sim, file, tmp, lost>>, orphaned \subseteq orphaned',
         session' \in [Sites -> [state : {"unused", "live", "ended"}, expires : Int]],
         \A s \in Sites :
           \/ session'[s] = session[s]
           \/ session'[s].state = "ended" /\ session'[s].expires = session[s].expires,
         \A s \in Sites : Ledger(s) => Ledger(s)' \/ ~InUse(s)'
  PROVE  BoxInv'
<1>1. BoxTyped'
  BY DEF BoxInv, BoxTyped
<1>2. \A s \in Sites : InUse(s)' => InUse(s)
  BY DEF InUse, Box!InDatabase, Box!Expired
<1>3. Counted' \subseteq Counted
  BY DEF Counted, Box!Simulating, Box!Expired
<1>4. \A b \in Threads : actor'[b].at \in {"rpc", "start"} =>
        actor[b].at \in {"rpc", "start"} \/ Cardinality(Counted) < MaxLive
  OBVIOUS
<1>5. \A b \in Threads : actor'[b].at \in {"start", "end"} =>
        sim'[actor'[b].mine] # "running"
  BY DEF BoxInv, Room
<1>6. \A s \in Sites : session'[s].state = "unused" => sim'[s] # "running"
  BY DEF BoxInv, Room
<1>7. \A s \in Sites : InUse(s)' => Ledger(s)'
  BY <1>2 DEF BoxInv
<1> QED BY <1>1, <1>3, <1>4, <1>5, <1>6, <1>7, Lessens

LEMMA SessionEnded ==
  ASSUME BoxTyped, NEW s \in Sites, Box!EndRpc(s)
  PROVE  /\ session' \in [Sites -> [state : {"unused", "live", "ended"}, expires : Int]]
         /\ session'[s].state = "ended" /\ session'[s].expires = session[s].expires
         /\ \A x \in Sites : x # s => session'[x] = session[x]
<1> DEFINE e == [session[s] EXCEPT !.state = "ended"]
<1>1. session' = [session EXCEPT ![s] = e]
  BY Zenon DEF Box!EndRpc
<1>2. /\ e \in [state : {"unused", "live", "ended"}, expires : Int]
      /\ e.state = "ended" /\ e.expires = session[s].expires
  BY DEF BoxTyped
<1> HIDE DEF e
<1> QED BY <1>1, <1>2 DEF BoxTyped

LEMMA LeaveKeeps ==
  ASSUME Box!Constants, BoxInv, NEW s \in Sites, Box!Leave(s) PROVE BoxInv'
<1>1. Box!EndRpc(s) /\ UNCHANGED <<now, sim, file, tmp, lock, inflight, actor, lost, orphaned>>
  BY DEF Box!Leave
<1>2. Crew' /\ inflight' = Cardinality(Admitted')
  BY <1>1 DEF BoxInv, Crew, Admitted
<1>3. \A x \in Sites : Ledger(x) => Ledger(x)'
  BY <1>1 DEF Ledger, InMint
<1>4. /\ session' \in [Sites -> [state : {"unused", "live", "ended"}, expires : Int]]
      /\ \A x \in Sites :
           \/ session'[x] = session[x]
           \/ session'[x].state = "ended" /\ session'[x].expires = session[x].expires
  BY <1>1, SessionEnded DEF BoxInv
<1> QED BY <1>1, <1>2, <1>3, <1>4, EndsKeep

LEMMA PurgedIs ==
  ASSUME BoxTyped
  PROVE  /\ Box!Purged \in [Sites -> [state : {"unused", "live", "ended"}, expires : Int]]
         /\ \A s \in Sites :
              \/ Box!Purged[s] = session[s]
              \/ Box!Purged[s].state = "ended" /\ Box!Purged[s].expires = session[s].expires
<1>1. ASSUME NEW s \in Sites
      PROVE  /\ [session[s] EXCEPT !.state = "ended"] \in
                   [state : {"unused", "live", "ended"}, expires : Int]
             /\ [session[s] EXCEPT !.state = "ended"].state = "ended"
             /\ [session[s] EXCEPT !.state = "ended"].expires = session[s].expires
             /\ session[s] \in [state : {"unused", "live", "ended"}, expires : Int]
  BY DEF BoxTyped
<1> QED BY <1>1 DEF Box!Purged

LEMMA ReapKeeps ==
  ASSUME Box!Constants, BoxInv, Box!Reap PROVE BoxInv'
<1> DEFINE a == "reaper"
           x == IF Box!Reapable = {} THEN "sweep" ELSE "drop"
           w == Box!Reapable
<1>1. /\ a \in Box!Actors /\ a \in Cleaners /\ a \notin Threads
      /\ UNCHANGED <<now, sim, file, tmp, lock, inflight, lost, orphaned>>
      /\ session' = Box!Purged
  BY CastOfActors DEF Box!Reap, Box!Reaper
<1>2. To(a, x, "idle", w, actor[a].mine)
  BY Zenon DEF Box!Reap, Box!Reaper, Box!Plan, To
<1>3. /\ w \in SUBSET Sites /\ x \in {"sweep", "drop"}
      /\ x \in Places /\ "idle" \in Places
  BY DEF Box!Reapable, Places
<1> HIDE DEF a, w, x
<1>4. CleanerHand([at |-> x, then |-> "idle", saw |-> w, mine |-> actor[a].mine])
  BY <1>1, <1>3, Hands DEF CleanerHand
<1>5. /\ Crew' /\ inflight' = Cardinality(Admitted')
      /\ \A b \in Box!Actors : b # a => actor'[b] = actor[b]
  BY <1>1, <1>2, <1>3, <1>4, Onward
<1>6. \A b \in Threads : actor'[b] = actor[b]
  BY <1>1, <1>5, CastOfActors
<1>7. \A s \in Sites : Ledger(s) => Ledger(s)'
  BY <1>1, <1>6 DEF Ledger, InMint
<1>8. BoxTyped
  BY DEF BoxInv
<1> QED BY <1>1, <1>5, <1>6, <1>7, <1>8, PurgedIs, EndsKeep

\* A mint that is let in finds room: the sandbox it draws has no simulator.
LEMMA MintRpcKeeps ==
  ASSUME Box!Constants, BoxInv, NEW a \in Threads, Box!MintRpc(a) PROVE BoxInv'
<1>1. /\ actor[a].at = "rpc" /\ a \in Box!Actors /\ a \notin Cleaners
      /\ now + TTL \in Int
      /\ UNCHANGED <<now, sim, file, tmp, lost>>
  BY CastOfActors DEF Box!MintRpc, BoxInv, BoxTyped
<1>2. PICK s \in Sites :
        /\ session[s].state = "unused"
        /\ session' = [Box!Purged EXCEPT ![s] = [state |-> "live", expires |-> now + TTL]]
        /\ \/ /\ actor' = [actor EXCEPT ![a] = [@ EXCEPT !.at = "start", !.mine = s]]
              /\ UNCHANGED <<lock, inflight, orphaned>>
           \/ orphaned' = orphaned \cup {s} /\ Box!Finish(a)
  BY Zenon DEF Box!MintRpc
<1>3. sim[s] # "running" /\ BoxTyped
  BY <1>2 DEF BoxInv, Room
<1>4. actor[a].mine = Box!NoSite /\ Serving(actor[a]) /\ lock = a /\ s # Box!NoSite
  BY <1>1, Hands, CastOfActors DEF ThreadHand, Holding, Serving, BoxInv, Crew
<1>5. /\ session' \in [Sites -> [state : {"unused", "live", "ended"}, expires : Int]]
      /\ session'[s].state = "live"
      /\ \A x \in Sites \ {s} : session'[x] = session[x] \/
           (session'[x].state = "ended" /\ session'[x].expires = session[x].expires)
  BY <1>1, <1>2, <1>3, PurgedIs
<1>6. /\ Crew' /\ inflight' = Cardinality(Admitted') /\ Ledger(s)'
      /\ orphaned \subseteq orphaned'
      /\ \A b \in Box!Actors : b # a => actor'[b] = actor[b]
      /\ actor'[a].at # "end" /\ (actor'[a].at = "start" => actor'[a].mine = s)
  <2>1. CASE actor' = [actor EXCEPT ![a] = [@ EXCEPT !.at = "start", !.mine = s]]
             /\ UNCHANGED <<lock, inflight, orphaned>>
    <3> DEFINE h == [at |-> "start", then |-> actor[a].then, saw |-> actor[a].saw, mine |-> s]
    <3>1. [actor[a] EXCEPT !.at = "start"] =
            [at |-> "start", then |-> actor[a].then, saw |-> actor[a].saw,
             mine |-> actor[a].mine]
      BY <1>1, Hands DEF Hand
    <3>2. [[actor[a] EXCEPT !.at = "start"] EXCEPT !.mine = s] = h
      <4>1. [[at |-> "start", then |-> actor[a].then, saw |-> actor[a].saw,
              mine |-> actor[a].mine] EXCEPT !.mine = s] = h
        OBVIOUS
      <4> QED BY <3>1, <4>1, Zenon
    <3>3. To(a, "start", actor[a].then, actor[a].saw, s)
      BY <2>1, <3>2, Zenon DEF To
    <3>4. /\ ThreadHand([at |-> "start", then |-> actor[a].then, saw |-> actor[a].saw,
                         mine |-> s])
          /\ "start" \in Places /\ "start" \notin {"idle", "lock"}
          /\ lock' = a /\ lock' \in Threads \cup {Box!NoSite}
      BY <1>4, <2>1 DEF ThreadHand, Holding, Places
    <3>5. /\ Crew' /\ actor'[a].at = "start" /\ actor'[a].mine = s
          /\ \A b \in Box!Actors : b # a => actor'[b] = actor[b]
      BY <1>1, <1>4, <2>1, <3>3, <3>4, CrewMoves, Hands DEF BoxInv
    <3>6. Admitted' = Admitted
      BY <1>1, <3>5, AdmittedMoves
    <3> QED BY <2>1, <3>5, <3>6 DEF BoxInv, Ledger, InMint
  <2>2. CASE orphaned' = orphaned \cup {s} /\ Box!Finish(a)
    <3>1. /\ Crew' /\ inflight' = Cardinality(Admitted') /\ actor'[a].at = "idle"
          /\ \A b \in Box!Actors : b # a => actor'[b] = actor[b]
      BY <1>1, <1>4, <2>2, CrewFinishes DEF BoxInv
    <3> QED BY <2>2, <3>1 DEF Ledger
  <2> QED BY <1>2, <2>1, <2>2
<1>7. \A b \in Threads : b # a => ~Serving(actor[b])
  BY <1>1, <1>4, Hands
<1>8. BoxTyped'
  BY <1>1, <1>3, <1>5 DEF BoxTyped
<1>9. ASSUME NEW x \in Sites, InUse(x)' PROVE Ledger(x)'
  <2>1. CASE x = s
    BY <1>6, <2>1
  <2>2. CASE x # s
    <3>1. InUse(x)
      BY <1>1, <1>5, <1>9, <2>2 DEF InUse, Box!InDatabase, Box!Expired
    <3>2. Ledger(x)
      BY <3>1 DEF BoxInv
    <3>3. InMint(x) => InMint(x)'
      BY <1>4, <1>6, CastOfActors DEF InMint
    <3> QED BY <1>1, <1>6, <3>2, <3>3 DEF Ledger
  <2> QED BY <2>1, <2>2
<1>10. Counted' \subseteq Counted
  BY <1>1, <1>3, <1>5, <1>6 DEF Counted, Box!Simulating, Box!Expired
<1>11. \A b \in Threads :
         /\ actor'[b].at \in {"rpc", "start"} =>
              actor[b].at \in {"rpc", "start"} \/ Cardinality(Counted) < MaxLive
         /\ actor'[b].at \in {"start", "end"} => sim'[actor'[b].mine] # "running"
  BY <1>1, <1>3, <1>6, <1>7, CastOfActors DEF Serving
<1>12. \A x \in Sites : session'[x].state = "unused" => sim'[x] # "running"
  BY <1>1, <1>3, <1>5 DEF BoxInv, Room
<1> QED BY <1>6, <1>8, <1>9, <1>10, <1>11, <1>12, Lessens

\* The one mint under way starts the one simulator there is room for.
LEMMA StartKeeps ==
  ASSUME Box!Constants, BoxInv, NEW a \in Threads, Box!Start(a) PROVE BoxInv'
<1> DEFINE m == actor[a].mine
<1>1. /\ actor[a].at = "start" /\ a \in Box!Actors /\ a \notin Cleaners
      /\ UNCHANGED <<now, session, file, tmp, lock, inflight, lost, orphaned>>
  BY CastOfActors DEF Box!Start
<1>2. m \in Sites /\ Serving(actor[a]) /\ sim[m] # "running"
      /\ \A b \in Threads : b # a => ~Serving(actor[b])
  BY <1>1, Hands DEF ThreadHand, Holding, Serving, BoxInv, Room
<1>3. ASSUME NEW x \in {"add", "end"}, Box!Goto(a, x)
      PROVE  /\ Crew' /\ inflight' = Cardinality(Admitted')
             /\ actor'[a].at = x /\ actor'[a].mine = m
             /\ \A b \in Box!Actors : b # a => actor'[b] = actor[b]
             /\ \A s \in Sites : Ledger(s) => Ledger(s)'
  <2>1. To(a, x, actor[a].then, actor[a].saw, actor[a].mine)
    BY <1>1, <1>3, Hands, Gone
  <2>2. /\ x \in Places /\ x \notin {"idle", "lock"}
        /\ ThreadHand([at |-> x, then |-> actor[a].then, saw |-> actor[a].saw,
                       mine |-> actor[a].mine])
    BY <1>2, CastOfActors DEF Places, ThreadHand, Holding
  <2>3. /\ Crew' /\ inflight' = Cardinality(Admitted')
        /\ actor'[a].at = x /\ actor'[a].mine = actor[a].mine
        /\ \A b \in Box!Actors : b # a => actor'[b] = actor[b]
    <3>1. actor[a].then \in Places /\ actor[a].saw \in SUBSET Sites
      BY <1>1, Hands
    <3>2. UNCHANGED <<lock, inflight>> /\ a \notin Cleaners
      BY <1>1
    <3> QED BY <1>1, <1>2, <2>1, <2>2, <3>1, <3>2, Onward, ZenonT(30)
  <2>4. \A b \in Threads : actor'[b].mine = actor[b].mine
    BY <2>3, CastOfActors
  <2> QED BY <1>1, <2>3, <2>4 DEF Ledger, InMint
<1> HIDE DEF m
<1>4. CASE Box!Goto(a, "end") /\ UNCHANGED sim
  <2>1. /\ BoxTyped' /\ Counted' = Counted
        /\ \A s \in Sites : InUse(s)' <=> InUse(s)
    BY <1>1, <1>4, Untouched DEF BoxInv
  <2>2. \A b \in Threads :
          /\ actor'[b].at \notin {"rpc", "start"}
          /\ actor'[b].at \in {"start", "end"} => sim'[actor'[b].mine] # "running"
    BY <1>2, <1>3, <1>4, CastOfActors DEF Serving
  <2>3. \A s \in Sites : session'[s].state = "unused" => sim'[s] # "running"
    BY <1>1, <1>4 DEF BoxInv, Room
  <2>4. \A s \in Sites : InUse(s)' => Ledger(s)'
    BY <1>3, <1>4, <2>1 DEF BoxInv
  <2> QED BY <1>3, <1>4, <2>1, <2>2, <2>3, <2>4, Lessens
<1>5. CASE Box!Goto(a, "add") /\ Box!Seeded(m) /\ Box!Spawned(m)
  <2>1. sim' = [sim EXCEPT ![m] = "running"] /\ session[m].state = "live"
    BY <1>5 DEF Box!Spawned, Box!Seeded, Box!Alive, Box!InDatabase
  <2>2. BoxTyped'
    BY <1>1, <1>2, <2>1 DEF BoxInv, BoxTyped
  <2>3. ASSUME NEW s \in Sites, InUse(s)' PROVE Ledger(s)'
    <3>1. CASE s = m
      BY <1>3, <1>5, <3>1 DEF Ledger, InMint
    <3>2. CASE s # m
      <4>1. InUse(s)
        BY <1>1, <2>1, <2>3, <3>2 DEF InUse, Box!InDatabase, Box!Expired, BoxInv, BoxTyped
      <4> QED BY <1>3, <1>5, <4>1 DEF BoxInv
    <3> QED BY <3>1, <3>2
  <2>4. Counted' \subseteq Counted \cup {m}
    BY <1>1, <1>2, <2>1 DEF Counted, Box!Simulating, Box!Expired, BoxInv, BoxTyped
  <2>5. Cardinality(Counted) < MaxLive /\ IsFiniteSet(Counted)
    BY <1>1, CastOfActors, FS_Subset DEF BoxInv, Room, Counted, Box!Simulating
  <2>6. /\ IsFiniteSet(Counted \cup {m}) /\ Cardinality(Counted) \in Nat
        /\ Cardinality(Counted \cup {m}) <= Cardinality(Counted) + 1
    <3>1. IsFiniteSet(Counted \cup {m}) /\ Cardinality(Counted) \in Nat
      BY <2>5, FS_AddElement, FS_CardinalityType
    <3>2. \/ Cardinality(Counted \cup {m}) = Cardinality(Counted)
          \/ Cardinality(Counted \cup {m}) = Cardinality(Counted) + 1
      BY <2>5, FS_AddElement
    <3> QED BY <3>1, <3>2
  <2>7. /\ Cardinality(Counted') <= Cardinality(Counted \cup {m})
        /\ Cardinality(Counted') \in Nat /\ Cardinality(Counted \cup {m}) \in Nat
    BY <2>4, <2>6, FS_Subset, FS_CardinalityType
  <2>8. Cardinality(Counted') <= MaxLive
    BY <2>5, <2>6, <2>7, CastOfActors
  <2>9. \A b \in Threads : actor'[b].at \notin {"rpc", "start", "end"}
    BY <1>2, <1>3, <1>5, CastOfActors DEF Serving
  <2>10. \A s \in Sites : session'[s].state = "unused" => sim'[s] # "running"
    BY <1>1, <1>2, <2>1 DEF BoxInv, Room, BoxTyped
  <2> QED BY <1>3, <1>5, <2>2, <2>3, <2>8, <2>9, <2>10 DEF BoxInv, Room
<1> QED BY <1>4, <1>5, Zenon DEF Box!Start, m

\* A mint that is given up ends its session, or its accident is remembered.
LEMMA EndMintKeeps ==
  ASSUME Box!Constants, BoxInv, NEW a \in Threads, Box!EndMint(a) PROVE BoxInv'
<1> DEFINE m == actor[a].mine
<1>1. /\ actor[a].at = "end" /\ a \in Box!Actors /\ Box!Finish(a)
      /\ UNCHANGED <<now, sim, file, tmp, lost>>
  BY CastOfActors DEF Box!EndMint
<1>2. /\ m \in Sites /\ Serving(actor[a]) /\ sim[m] # "running"
      /\ \A b \in Threads : b # a => ~Serving(actor[b])
  BY <1>1, Hands DEF ThreadHand, Holding, Serving, BoxInv, Room
<1>3. /\ Crew' /\ inflight' = Cardinality(Admitted') /\ actor'[a].at = "idle"
      /\ \A b \in Box!Actors : b # a => actor'[b] = actor[b]
  BY <1>1, <1>2, CrewFinishes DEF BoxInv
<1>4. \A b \in Threads : actor'[b].at \in {"rpc", "start", "end"} => actor'[b] = actor[b]
  BY <1>3, CastOfActors
<1>5. \A s \in Sites : InMint(s) => InMint(s)' \/ s = m
  BY <1>3, CastOfActors DEF InMint
<1>6. BoxTyped
  BY DEF BoxInv
<1> HIDE DEF m
<1>7. CASE Box!EndRpc(m) /\ UNCHANGED orphaned
  <2>1. /\ session' \in [Sites -> [state : {"unused", "live", "ended"}, expires : Int]]
        /\ session'[m].state = "ended"
        /\ \A s \in Sites :
             \/ session'[s] = session[s]
             \/ session'[s].state = "ended" /\ session'[s].expires = session[s].expires
    BY <1>2, <1>6, <1>7, SessionEnded
  <2>2. \A s \in Sites : s = m => ~InUse(s)'
    BY <1>1, <1>2, <2>1 DEF InUse, Box!InDatabase
  <2>3. \A s \in Sites : Ledger(s) => Ledger(s)' \/ ~InUse(s)'
    BY <1>1, <1>5, <1>7, <2>2 DEF Ledger
  <2> QED BY <1>1, <1>3, <1>4, <1>7, <2>1, <2>3, EndsKeep
<1>8. CASE orphaned' = orphaned \cup {m} /\ UNCHANGED session
  <2>1. \A s \in Sites : Ledger(s) => Ledger(s)'
    BY <1>1, <1>5, <1>8 DEF Ledger
  <2>2. session' \in [Sites -> [state : {"unused", "live", "ended"}, expires : Int]]
    BY <1>6, <1>8 DEF BoxTyped
  <2> QED BY <1>1, <1>3, <1>4, <1>8, <2>1, <2>2, EndsKeep
<1> QED BY <1>7, <1>8 DEF Box!EndMint, m

\* A step that replaces the registry, and remembers what it drops.
LEMMA FileKeeps ==
  ASSUME Box!Constants, BoxInv, Crew', inflight' = Cardinality(Admitted'),
         \A b \in Threads : actor'[b].at \in {"rpc", "start", "end"} => actor'[b] = actor[b],
         UNCHANGED <<now, session, sim, orphaned>>, lost \subseteq lost',
         file' \subseteq Sites, tmp' \in {<<>>} \cup Single(SUBSET Sites),
         \A s \in Sites : Ledger(s) => Ledger(s)' \/ Box!Expired(s)
  PROVE  BoxInv'
<1>1. BoxTyped'
  BY DEF BoxInv, BoxTyped
<1>2. \A s \in Sites : InUse(s)' => InUse(s) /\ ~Box!Expired(s)
  BY DEF InUse, Box!InDatabase, Box!Expired
<1>3. Counted' \subseteq Counted
  BY DEF Counted, Box!Simulating, Box!Expired
<1>4. \A b \in Threads :
        /\ actor'[b].at \in {"rpc", "start"} =>
             actor[b].at \in {"rpc", "start"} \/ Cardinality(Counted) < MaxLive
        /\ actor'[b].at \in {"start", "end"} => sim'[actor'[b].mine] # "running"
  BY DEF BoxInv, Room
<1>5. \A s \in Sites : session'[s].state = "unused" => sim'[s] # "running"
  BY DEF BoxInv, Room
<1>6. \A s \in Sites : InUse(s)' => Ledger(s)'
  BY <1>2 DEF BoxInv
<1> QED BY <1>1, <1>3, <1>4, <1>5, <1>6, Lessens

LEMMA MoveKeeps ==
  ASSUME Box!Constants, BoxInv, NEW a \in Box!Actors, Box!Move(a) PROVE BoxInv'
<1> DEFINE h == actor[a]
<1>1. /\ h.at = "move" /\ tmp # <<>> /\ file' = tmp[1] /\ tmp' = <<>>
      /\ lost' = lost \cup Box!Dropped(tmp[1])
                      \cup (IF h.mine = Box!NoSite THEN {} ELSE {h.mine} \ tmp[1])
      /\ UNCHANGED <<now, session, sim, orphaned>>
  BY DEF Box!Move
<1>2. file' \subseteq Sites
  BY <1>1 DEF BoxInv, BoxTyped, Single
<1>3. /\ Crew' /\ inflight' = Cardinality(Admitted')
      /\ \A b \in Box!Actors : b # a => actor'[b] = actor[b]
      /\ actor'[a].at \notin {"rpc", "start", "end"}
      /\ a \in Threads => actor'[a].mine = h.mine \/ actor'[a].mine = Box!NoSite
  <2>1. a \in Threads => Serving(h)
    BY <1>1 DEF Serving
  <2>2. CASE h.then = "answer"
    <3>1. Box!Finish(a)
      BY <2>2 DEF Box!Move
    <3> QED BY <2>1, <3>1, CrewFinishes DEF BoxInv
  <2>3. CASE h.then # "answer"
    <3>1. Box!Resume(a, h.then) /\ UNCHANGED <<lock, inflight>>
      BY <2>3 DEF Box!Move
    <3>2. To(a, h.then, "idle", {}, h.mine)
      BY <3>1, Resumed
    <3>3. /\ a \in Threads => h.then = "count" /\ h.mine = Box!NoSite
          /\ a \in Cleaners => h.then \in {"idle", "sweep"} /\ h.mine = Box!NoSite
      BY <1>1, <2>3, Hands DEF ThreadHand, CleanerHand, Holding
    <3>4. /\ a \in Threads =>
               /\ ThreadHand([at |-> h.then, then |-> "idle", saw |-> {}, mine |-> h.mine])
               /\ h.then \notin {"idle", "lock"}
          /\ a \in Cleaners =>
               CleanerHand([at |-> h.then, then |-> "idle", saw |-> {}, mine |-> h.mine])
      BY <3>3 DEF ThreadHand, CleanerHand, Holding
    <3>5. h.then \in Places /\ "idle" \in Places /\ {} \in SUBSET Sites
      BY Hands DEF Places
    <3>6. /\ Crew' /\ inflight' = Cardinality(Admitted')
          /\ actor'[a].at = h.then /\ actor'[a].mine = h.mine
          /\ \A b \in Box!Actors : b # a => actor'[b] = actor[b]
      BY <2>1, <3>1, <3>2, <3>4, <3>5, Onward
    <3> QED BY <3>3, <3>6, CastOfActors
  <2> QED BY <2>2, <2>3
<1> HIDE DEF h
<1>4. ASSUME NEW s \in Sites, Ledger(s), ~Box!Expired(s) PROVE Ledger(s)'
  <2>1. CASE s \in file
    BY <1>1, <1>4, <2>1 DEF Ledger, Box!Dropped
  <2>2. CASE InMint(s)
    <3>1. PICK b \in Threads : actor[b].mine = s
      BY <2>2 DEF InMint
    <3>2. CASE b = a /\ actor'[a].mine = Box!NoSite
      <4>1. h.mine = s /\ s # Box!NoSite
        BY <3>1, <3>2, CastOfActors DEF h
      <4> QED BY <1>1, <4>1 DEF Ledger
    <3>3. CASE ~(b = a /\ actor'[a].mine = Box!NoSite)
      <4>1. actor'[b].mine = s
        BY <1>3, <3>1, <3>3, CastOfActors DEF h
      <4> QED BY <4>1 DEF Ledger, InMint
    <3> QED BY <3>2, <3>3
  <2>3. CASE s \in lost \cup orphaned
    BY <1>1, <2>3 DEF Ledger
  <2> QED BY <1>4, <2>1, <2>2, <2>3 DEF Ledger
<1>5. \A b \in Threads : actor'[b].at \in {"rpc", "start", "end"} => actor'[b] = actor[b]
  BY <1>3, CastOfActors
<1>6. lost \subseteq lost'
  BY <1>1
<1> QED BY <1>1, <1>2, <1>3, <1>4, <1>5, <1>6, FileKeeps

LEMMA MoveRaisesKeeps ==
  ASSUME Box!Constants, BoxInv, NEW a \in Box!Actors, Box!MoveRaises(a) PROVE BoxInv'
<1>1. /\ actor[a].at = "move" /\ Box!Finish(a)
      /\ lost' = lost \cup ({actor[a].mine} \cap Sites)
      /\ UNCHANGED <<now, session, sim, file, tmp, orphaned>>
  BY DEF Box!MoveRaises
<1>2. a \in Threads => Serving(actor[a])
  BY <1>1 DEF Serving
<1>3. /\ Crew' /\ inflight' = Cardinality(Admitted') /\ actor'[a].at = "idle"
      /\ \A b \in Box!Actors : b # a => actor'[b] = actor[b]
  BY <1>1, <1>2, CrewFinishes DEF BoxInv
<1>4. \A s \in Sites : Ledger(s) => Ledger(s)'
  BY <1>1, <1>3, CastOfActors DEF Ledger, InMint
<1>5. \A b \in Threads : actor'[b].at \in {"rpc", "start", "end"} => actor'[b] = actor[b]
  BY <1>3, CastOfActors
<1>6. file' \subseteq Sites /\ tmp' \in {<<>>} \cup Single(SUBSET Sites) /\ lost \subseteq lost'
  BY <1>1 DEF BoxInv, BoxTyped
<1> QED BY <1>1, <1>3, <1>4, <1>5, <1>6, FileKeeps

LEMMA CrashDoorKeeps ==
  ASSUME Box!Constants, BoxInv, Box!CrashDoor PROVE BoxInv'
<1>1. /\ orphaned' = orphaned \cup ({ actor[a].mine : a \in Threads } \cap Sites)
      /\ actor' = [a \in Box!Actors |-> IF a = "reaper" THEN actor[a] ELSE Box!Idle]
      /\ lock' = Box!NoSite /\ inflight' = 0
      /\ UNCHANGED <<now, session, sim, file, tmp, lost>>
  BY DEF Box!CrashDoor, Box!Reaper
<1>2. /\ \A a \in Threads : actor'[a] = Box!Idle
      /\ \A a \in Cleaners : actor'[a] = actor[a] \/ actor'[a] = Box!Idle
  BY <1>1, CastOfActors
<1>3. /\ ThreadHand(Box!Idle) /\ CleanerHand(Box!Idle) /\ ~Serving(Box!Idle)
      /\ Box!Idle \in Hand /\ Box!Idle.at = "idle"
  BY DEF ThreadHand, CleanerHand, Holding, Serving, Box!Idle, Hand, Places
<1>4. Crew'
  <2>1. actor' \in [Box!Actors -> Hand]
    BY <1>1, <1>3, Hands
  <2>2. \A a \in Threads : ThreadHand(actor'[a]) /\ (Serving(actor'[a]) <=> lock' = a)
    BY <1>1, <1>2, <1>3, CastOfActors
  <2>3. \A a \in Cleaners : CleanerHand(actor'[a])
    BY <1>2, <1>3, CastOfActors, Hands
  <2> QED BY <1>1, <2>1, <2>2, <2>3 DEF Crew, ThreadHand, CleanerHand, Serving, Holding
<1>5. inflight' = Cardinality(Admitted')
  <2>1. Admitted' = {}
    BY <1>2, <1>3 DEF Admitted
  <2> QED BY <1>1, <2>1, FS_EmptySet
<1>6. \A s \in Sites : Ledger(s) => Ledger(s)'
  BY <1>1 DEF Ledger, InMint
<1>7. \A b \in Threads : actor'[b].at \in {"rpc", "start", "end"} => actor'[b] = actor[b]
  BY <1>2, <1>3
<1>8. session' \in [Sites -> [state : {"unused", "live", "ended"}, expires : Int]]
  BY <1>1 DEF BoxInv, BoxTyped
<1> QED BY <1>1, <1>4, <1>5, <1>6, <1>7, <1>8, EndsKeep

LEMMA TickKeeps ==
  ASSUME Box!Constants, BoxInv, Box!Tick PROVE BoxInv'
<1>1. now' = now + 1
      /\ UNCHANGED <<session, sim, file, tmp, lock, inflight, actor, lost, orphaned>>
  BY DEF Box!Tick
<1>2. Crew' /\ inflight' = Cardinality(Admitted')
  BY <1>1 DEF BoxInv, Crew, Admitted
<1>3. BoxTyped'
  BY <1>1 DEF BoxInv, BoxTyped
<1>4. \A s \in Sites : Box!Expired(s) => Box!Expired(s)'
  BY <1>1 DEF Box!Expired, BoxInv, BoxTyped
<1>5. Counted' \subseteq Counted
  BY <1>1, <1>4 DEF Counted, Box!Simulating
<1>6. \A s \in Sites : InUse(s)' => Ledger(s)'
  BY <1>1, <1>4 DEF InUse, Box!InDatabase, Ledger, InMint, BoxInv
<1>7. \A b \in Threads :
        /\ actor'[b].at \in {"rpc", "start"} => actor[b].at \in {"rpc", "start"}
        /\ actor'[b].at \in {"start", "end"} => sim'[actor'[b].mine] # "running"
  BY <1>1 DEF BoxInv, Room
<1>8. \A s \in Sites : session'[s].state = "unused" => sim'[s] # "running"
  BY <1>1 DEF BoxInv, Room
<1> QED BY <1>2, <1>3, <1>5, <1>6, <1>7, <1>8, Lessens

LEMMA BoxSteps ==
  ASSUME Box!Constants, BoxInv, [Box!Next]_(Box!vars) PROVE BoxInv'
<1>1. CASE UNCHANGED Box!vars
  BY <1>1 DEF Box!vars, BoxInv, BoxTyped, Crew, Admitted, InUse, Box!InDatabase,
              Box!Expired, Ledger, InMint, Room, Counted, Box!Simulating
<1>2. ASSUME NEW a \in Threads, Box!Request(a) \/ Box!EnterMint(a) \/ Box!Serve(a)
      PROVE  BoxInv'
  BY <1>2, CastOfActors, RequestKeeps, EnterMintKeeps, CountKeeps, MintRpcKeeps,
     MintRefusedKeeps, StartKeeps, EndMintKeeps, AddKeeps DEF Box!Serve
<1>3. ASSUME NEW a \in Box!Actors, Box!Save(a) PROVE BoxInv'
  BY <1>3, SweepLoadKeeps, SweepStopKeeps, WriteKeeps, MoveKeeps, MoveRaisesKeeps
     DEF Box!Save
<1>4. CASE Box!WakeSweeper \/ Box!Reap \/ Box!DropReaped \/ Box!CrashDoor \/ Box!Tick
  BY <1>4, WakeSweeperKeeps, ReapKeeps, DropReapedKeeps, CrashDoorKeeps, TickKeeps
<1>5. ASSUME NEW s \in Sites, Box!Deadline(s) \/ Box!Dies(s) \/ Box!Leave(s)
      PROVE  BoxInv'
  BY <1>5, DriverEnds, LeaveKeeps
<1> QED BY <1>1, <1>2, <1>3, <1>4, <1>5 DEF Box!Next

LEMMA BoxStarts == ASSUME Box!Constants, Box!Init PROVE BoxInv
<1>1. /\ now = 0 /\ file = {} /\ tmp = <<>> /\ lock = Box!NoSite /\ inflight = 0
      /\ session = [s \in Sites |-> [state |-> "unused", expires |-> 0]]
      /\ sim = [s \in Sites |-> "none"]
      /\ actor = [a \in Box!Actors |-> Box!Idle]
  BY DEF Box!Init
<1>2. BoxTyped
  BY <1>1 DEF BoxTyped
<1>3. /\ ThreadHand(Box!Idle) /\ CleanerHand(Box!Idle) /\ ~Serving(Box!Idle)
      /\ Box!Idle \in Hand /\ Box!Idle.at = "idle"
  BY DEF ThreadHand, CleanerHand, Holding, Serving, Box!Idle, Hand, Places
<1>4. Crew
  BY <1>1, <1>3, CastOfActors DEF Crew
<1>5. Admitted = {} /\ Counted = {}
  BY <1>1, <1>3, CastOfActors DEF Admitted, Counted, Box!Simulating
<1>6. inflight = Cardinality(Admitted)
  BY <1>1, <1>5, FS_EmptySet
<1>7. \A s \in Sites : ~InUse(s)
  BY <1>1 DEF InUse, Box!InDatabase
<1>8. Room
  BY <1>1, <1>3, <1>5, CastOfActors, FS_EmptySet DEF Room
<1> QED BY <1>2, <1>4, <1>6, <1>7, <1>8 DEF BoxInv

LEMMA BoxAlways == ASSUME Box!Constants PROVE Box!Spec => []BoxInv
<1>1. Box!Init => BoxInv
  BY BoxStarts
<1>2. BoxInv /\ [Box!Next]_(Box!vars) => BoxInv'
  BY BoxSteps
<1> QED BY <1>1, <1>2, PTL DEF Box!Spec

\* The simulators of live sandboxes are never more than the ceiling, whatever
\* the sweeper, the reaper and a door that is killed do meanwhile, but for the
\* sandboxes whose record was lost.
THEOREM CeilingHolds == ASSUME Box!Constants PROVE Box!Spec => []CeilingKept
<1>1. BoxInv => CeilingKept
  BY SameCount DEF BoxInv, Room, Counted, CeilingKept, Box!CeilingKept
<1> QED BY <1>1, BoxAlways, PTL

\* Whatever a mint dies of, its session is ended or known to somebody, and its
\* lock and its place at the door are free again.
THEOREM NoSlotLeaks == ASSUME Box!Constants PROVE Box!Spec => []NoSlotLeaked
<1>1. BoxInv => Box!SessionsAccounted
  BY DEF BoxInv, InUse, Ledger, InMint, Box!Alive, Box!SessionsAccounted
<1>2. BoxInv => Box!DoorOpen
  BY SameCount DEF BoxInv, Crew, Serving, Admitted, Box!DoorOpen
<1> QED BY <1>1, <1>2, BoxAlways, PTL DEF NoSlotLeaked, Box!NoSlotLeaked
=============================================================================
