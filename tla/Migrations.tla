------------------------------ MODULE Migrations ------------------------------
(***************************************************************************)
(* The migration runner: SQL files applied in filename order to a database *)
(* that records, in the transaction of the file itself, the checksum of    *)
(* what was run. Several runners may be started at once, files are edited  *)
(* between two runs and while one is under way, and a transaction may      *)
(* fail or commit without its answer reaching the runner.                  *)
(*                                                                         *)
(*   ops/yantraops/migrate.py                                              *)
(*                                                                         *)
(* A file is its number in filename order and its content is its checksum. *)
(***************************************************************************)
EXTENDS Integers

CONSTANTS
  Files,     \* the numbers of the *.sql files
  OptIn,     \* the files that carry the OPT-IN marker
  Checksums, \* contents a file may have
  Original,  \* the content every file has at first
  Edited,    \* the files somebody edits
  Runners    \* processes that run `yantraops migrate`

ASSUME MigrationsAssumption ==
  /\ Files \subseteq Nat /\ OptIn \subseteq Files /\ Edited \subseteq Files
  /\ Original \in Checksums

VARIABLES
  disk,    \* checksum of each file in the migrations directory
  table,   \* _yf_migrations: the checksum recorded for a file, as a set of
           \* at most one element
  schema,  \* the checksum of the SQL the database ran last for a file
  runner   \* the run of each process

vars == <<disk, table, schema, runner>>

Absent == [f \in Files |-> {}]

\* No run under way. `alone` is history: nobody else ran since this one began.
Rest == [at |-> "rest", optIn |-> FALSE, force |-> FALSE, alone |-> FALSE,
         seen |-> Absent, sql |-> [f \in Files |-> Original], left |-> {}]

Init ==
  /\ disk = [f \in Files |-> Original]
  /\ table = Absent
  /\ schema = Absent
  /\ runner = [r \in Runners |-> Rest]

----------------------------------------------------------------------------
(* Planning.                                                               *)

\* The files a run considers.
Discovered(optIn) == IF optIn THEN Files ELSE Files \ OptIn

\* mutant: --force reapplies every file
ActionForced(recorded, checksum, force) ==
  IF recorded = {} \/ force THEN "apply" ELSE "skip"

\* The planner's decision for one file, from the recorded checksum.
Action(recorded, checksum, force) ==
  CASE recorded = {} -> "apply"
    [] recorded = {checksum} -> "skip"
    [] OTHER -> IF force THEN "reapply" ELSE "skip-drift"

Pending(seen, sql, force, f) ==
  Action(seen[f], sql[f], force) \in {"apply", "reapply"}

Busy == {r \in Runners : runner[r].at # "rest"}

\* A run begins: it connects, makes sure of the tracking table and reads it.
Connect(r, optIn, force) ==
  /\ runner[r].at = "rest"
  /\ Discovered(optIn) # {}
  /\ runner' = [q \in Runners |->
       IF q = r THEN [Rest EXCEPT !.at = "read", !.optIn = optIn,
                        !.force = force, !.alone = Busy = {}, !.seen = table]
       ELSE [runner[q] EXCEPT !.alone = FALSE]]
  /\ UNCHANGED <<disk, table, schema>>

\* The files are read and compared with the rows that were read before.
Plan(r) ==
  /\ runner[r].at = "read"
  /\ runner' = [runner EXCEPT ![r] =
       [Rest EXCEPT !.at = "apply", !.alone = runner[r].alone, !.sql = disk,
          !.left = {f \in Discovered(runner[r].optIn) :
                      Pending(runner[r].seen, disk, runner[r].force, f)}]]
  /\ UNCHANGED <<disk, table, schema>>

----------------------------------------------------------------------------
(* Applying, one transaction per file.                                     *)

\* f is the next pending file of the run.
IsNext(r, f) == f \in runner[r].left /\ \A g \in runner[r].left : f <= g

\* The SQL of a file and its tracking row commit together.
Commit(r, f) ==
  /\ schema' = [schema EXCEPT ![f] = {runner[r].sql[f]}]
  /\ table' = [table EXCEPT ![f] = {runner[r].sql[f]}]

Applying(r, f) == runner[r].at = "apply" /\ IsNext(r, f)

Apply(r, f) ==
  /\ Applying(r, f)
  /\ Commit(r, f)
  /\ runner' = [runner EXCEPT ![r].left = @ \ {f}]
  /\ UNCHANGED disk

\* mutant: a failing file is skipped and the run goes on
RefusedGoesOn(r, f) ==
  /\ Applying(r, f)
  /\ runner' = [runner EXCEPT ![r].left = @ \ {f}]
  /\ UNCHANGED <<disk, table, schema>>

\* The database refuses the file: nothing is committed and the run is over.
Refused(r, f) ==
  /\ Applying(r, f)
  /\ runner' = [runner EXCEPT ![r] = Rest]
  /\ UNCHANGED <<disk, table, schema>>

\* The connection is lost after the commit: the runner reports that nothing
\* of the file was committed.
CommitUnanswered(r, f) ==
  /\ Applying(r, f)
  /\ Commit(r, f)
  /\ runner' = [runner EXCEPT ![r] = Rest]
  /\ UNCHANGED disk

\* The run ends: every pending file is applied, it was a dry run, or the
\* process is killed between two transactions.
Finish(r) ==
  /\ runner[r].at # "rest"
  /\ runner' = [runner EXCEPT ![r] = Rest]
  /\ UNCHANGED <<disk, table, schema>>

\* Somebody edits a file.
Edit(f, c) ==
  /\ disk[f] # c
  /\ disk' = [disk EXCEPT ![f] = c]
  /\ UNCHANGED <<table, schema, runner>>

Step(r) ==
  \/ \E optIn, force \in BOOLEAN : Connect(r, optIn, force)
  \/ Plan(r)
  \/ \E f \in Files : Apply(r, f) \/ Refused(r, f) \/ CommitUnanswered(r, f)
  \/ Finish(r)

Next ==
  \/ \E r \in Runners : Step(r)
  \/ \E f \in Edited, c \in Checksums : Edit(f, c)

Spec == Init /\ [][Next]_vars

----------------------------------------------------------------------------
(* Properties.                                                             *)

Run == [at : {"rest", "read", "apply"}, optIn : BOOLEAN, force : BOOLEAN,
        alone : BOOLEAN, seen : [Files -> SUBSET Checksums],
        sql : [Files -> Checksums], left : SUBSET Files]

TypeOK ==
  /\ disk \in [Files -> Checksums]
  /\ table \in [Files -> SUBSET Checksums]
  /\ schema \in [Files -> SUBSET Checksums]
  /\ runner \in [Runners -> Run]

\* The ordering contract of the file names: whatever runs overlap, fail or
\* lose their connection, the database never has a file without every earlier
\* one that is not opt-in (run_migrate stops at the first failure, and a plan
\* made from old rows only runs more).
SchemaIsPrefix ==
  \A f, g \in Files :
    f < g /\ f \notin OptIn /\ schema[g] # {} => schema[f] # {}

\* A run that no other run overlapped never runs SQL the database has run
\* last for that file, even after a run whose commit was not answered: the
\* tracking row is in the transaction of the file (PsycopgBackend.apply).
RunsOnceAlone ==
  \A r \in Runners : runner[r].at = "apply" /\ runner[r].alone =>
    \A f \in runner[r].left : schema[f] # {runner[r].sql[f]}

=============================================================================
