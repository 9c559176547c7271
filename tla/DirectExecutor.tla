---------------------------- MODULE DirectExecutor ----------------------------
(***************************************************************************)
(* The other executor of the command gate: between two ticks the simulator *)
(* itself reads the approved rows of its site from the commands table,     *)
(* applies each to its robot and PATCHes the row with the outcome. No      *)
(* memory of what was applied outlives the PATCH.                          *)
(*                                                                         *)
(*   sim/yantrasim/transports/supabase.py   SupabaseTransport              *)
(*   sim/yantrasim/__main__.py              the loop that calls it         *)
(*   supabase/0007_rbac.sql                 decide_command                 *)
(*                                                                         *)
(* A command is its number in the order of created_at. Rows are decided    *)
(* through decide_command. What a robot makes of a command is a verdict.   *)
(***************************************************************************)
EXTENDS Integers, Sequences, FiniteSets

CONSTANTS
  NCommands,      \* rows that are ever queued
  Home,           \* the rows of the executor's site
  BackendFilters, \* whether the backend honours the site filter of the GET
  BackendColumns, \* whether an answer of it carries the site_id column
  Limit,          \* limit of the GET (20 in the code)
  MaxFailures     \* bound: PATCHes that fail, and restarts of the simulator

Commands == 1..NCommands

\* What the code assumes of its parameters.
Constants ==
  /\ NCommands \in Nat /\ Home \subseteq Commands
  /\ BackendFilters \subseteq BOOLEAN /\ BackendColumns \subseteq BOOLEAN
  /\ Limit \in Nat \ {0} /\ MaxFailures \in Nat

VARIABLES
  row,      \* status of each row of the commands table
  filters,  \* the backend honours the site filter
  columns,  \* its answers carry the site_id column
  batch,    \* the rows of the last GET still to apply, oldest first
  verdict,  \* the outcome of the command whose PATCH is under way, or "none"
  failures, \* failures so far
  everApproved, \* history: rows a manager approved
  outcomes, \* history: the verdicts of each command, first to last
  unacked   \* history: how often a command's outcome did not reach the table

backend == <<filters, columns>>
history == <<everApproved, outcomes, unacked>>
vars == <<row, backend, batch, verdict, failures, history>>

Verdicts == {"FINISHED", "FAILED"}

\* mutant: the outcome of the robot is not looked at
AlwaysExecuted(v) == "executed"
StatusOf(v) == IF v = "FINISHED" THEN "executed" ELSE "failed"

Init ==
  /\ row = [c \in Commands |-> "absent"]
  /\ filters \in BackendFilters /\ columns \in BackendColumns
  /\ batch = <<>> /\ verdict = "none" /\ failures = 0
  /\ everApproved = {}
  /\ outcomes = [c \in Commands |-> <<>>]
  /\ unacked = [c \in Commands |-> 0]

----------------------------------------------------------------------------
(* The console.                                                            *)

Request(c) ==
  /\ row[c] = "absent" /\ \A d \in 1..(c - 1) : row[d] # "absent"
  /\ row' = [row EXCEPT ![c] = "pending"]
  /\ UNCHANGED <<backend, batch, verdict, failures, history>>

Decide(c, decision) ==
  /\ row[c] = "pending"
  /\ row' = [row EXCEPT ![c] = decision]
  /\ everApproved' =
       IF decision = "approved" THEN everApproved \cup {c} ELSE everApproved
  /\ UNCHANGED <<backend, batch, verdict, failures, outcomes, unacked>>

----------------------------------------------------------------------------
(* poll_commands, after each tick.                                         *)

Idle == batch = <<>>

\* The first rows of a set in the order of created_at, at most Limit of them.
Oldest(rows) ==
  {c \in rows : Cardinality({d \in rows : d < c}) < Limit}

\* The one list of a set of commands in the order of created_at.
InOrder(rows) ==
  {list \in [1..Cardinality(rows) -> rows] :
     \A i, j \in 1..Cardinality(rows) : i < j => list[i] < list[j]}

\* mutant: the row's own site is not compared
SiteAny(c) == TRUE

\* The client-side half of the site gate, which lets every row pass when the
\* answers have no site_id column.
SiteOk(c) == columns => c \in Home

\* What the gate lets in of an answer to the GET.
Admit(answer) ==
  /\ LET rows == {c \in answer : SiteOk(c)}
     IN  rows # {} /\ batch' \in InOrder(rows)
  /\ UNCHANGED <<row, backend, verdict, failures, history>>

\* mutant: rows of other sites are only dropped after the GET
PollUnfiltered ==
  /\ Idle
  /\ Admit(Oldest({c \in Commands : row[c] = "approved"}))

\* The GET, which the backend holds to the site unless it ignores the filter.
Poll ==
  /\ Idle
  /\ Admit(Oldest({c \in Commands : row[c] = "approved"
                                      /\ (filters => c \in Home)}))

\* The command reaches its robot.
Apply(v) ==
  /\ ~Idle /\ verdict = "none"
  /\ verdict' = v
  /\ outcomes' = [outcomes EXCEPT ![Head(batch)] = Append(@, v)]
  /\ UNCHANGED <<row, backend, batch, failures, everApproved, unacked>>

\* On with the next row, whether or not the PATCH succeeded.
Done ==
  /\ ~Idle /\ verdict # "none"
  /\ verdict' = "none" /\ batch' = Tail(batch)

\* The row is closed by its id, whatever its status is by now.
Patch ==
  /\ Done
  /\ row' = [row EXCEPT ![Head(batch)] = StatusOf(verdict)]
  /\ UNCHANGED <<backend, failures, history>>

Fail ==
  /\ failures < MaxFailures /\ failures' = failures + 1
  /\ unacked' = [unacked EXCEPT ![Head(batch)] = @ + 1]

\* The PATCH does not reach the table: logged, and the row stays approved.
PatchFails ==
  /\ Done /\ Fail
  /\ UNCHANGED <<row, backend, everApproved, outcomes>>

\* The simulator dies between the robot and the table.
Dies ==
  /\ verdict # "none" /\ Fail
  /\ verdict' = "none" /\ batch' = <<>>
  /\ UNCHANGED <<row, backend, everApproved, outcomes>>

Executor == Poll \/ (\E v \in Verdicts : Apply(v)) \/ Patch

Next ==
  \/ \E c \in Commands :
       Request(c) \/ \E d \in {"approved", "rejected"} : Decide(c, d)
  \/ Executor \/ PatchFails \/ Dies

\* The loop of the simulator goes on.
Fairness == WF_vars(Executor)

Spec == Init /\ [][Next]_vars /\ Fairness

----------------------------------------------------------------------------
(* Properties.                                                             *)

\* The rows of the site, or any when the backend neither honours the filter nor
\* returns the column by which _site_ok could tell them.
Admissible == IF filters \/ columns THEN Home ELSE Commands

\* A robot carries out only what a manager approved, and only for this site,
\* also when the backend ignores the filter; the one exception is a backend that
\* omits the site_id column as well, whose rows _site_ok lets pass with a
\* warning. It carries a row out twice only when the outcome of the first time
\* did not reach the table (poll_commands has no memory of its own).
AppliedAsApproved ==
  \A c \in Commands :
    /\ outcomes[c] # <<>> => c \in everApproved /\ c \in Admissible
    /\ Len(outcomes[c]) <= 1 + unacked[c]

gvars == <<row, outcomes>>

Gate == INSTANCE CommandGate WITH
  Supported <- Commands,
  outcomes <- [c \in Commands |-> {outcomes[c][i] : i \in 1..Len(outcomes[c])}]

\* The executor keeps every promise of the command gate until the first
\* outcome is lost.
KeepsGate ==
  Gate!Init /\ [][(\A c \in Commands : unacked'[c] = 0) => Gate!Next]_gvars

\* An approved row of the site is closed in the end, however many rows are
\* ahead of it, if the backend honours the filter; the rows of other sites
\* could fill every GET otherwise.
ApprovedIsClosed ==
  \A c \in Home :
    (filters /\ row[c] = "approved") ~> (row[c] \in {"executed", "failed"})

=============================================================================
