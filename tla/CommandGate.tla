---------------------------- MODULE CommandGate ----------------------------
(***************************************************************************)
(* What the human-in-the-loop command gate promises, whichever executor    *)
(* serves it: a command reaches a robot only while its row is approved, at *)
(* most once, and the row is then closed with what the robot reported.     *)
(*                                                                         *)
(* A row of public.commands goes pending -> approved | rejected, and an    *)
(* approved row goes to executed | failed (supabase/0002_commands.sql).    *)
(***************************************************************************)
EXTENDS Naturals

CONSTANTS Commands,    \* ids of the rows of public.commands
          Supported    \* the rows whose cmd is one of the executor's VERBS

VARIABLES row,         \* status of each row; "absent" before its INSERT
          outcomes     \* what the robot answered for each command, if it did

vars == <<row, outcomes>>

Statuses == {"absent", "pending", "approved", "rejected", "executed", "failed"}
Verdicts == {"FINISHED", "FAILED"}

\* The status a PATCH writes for a verdict.
StatusOf(v) == IF v = "FINISHED" THEN "executed" ELSE "failed"

Init ==
  /\ row = [c \in Commands |-> "absent"]
  /\ outcomes = [c \in Commands |-> {}]

\* An operator queues a command.
Request(c) ==
  /\ row[c] = "absent"
  /\ row' = [row EXCEPT ![c] = "pending"]
  /\ UNCHANGED outcomes

\* A manager approves or rejects it, once.
Decide(c, decision) ==
  /\ row[c] = "pending"
  /\ row' = [row EXCEPT ![c] = decision]
  /\ UNCHANGED outcomes

\* The robot carries out an approved command and answers.
Carry(c, v) ==
  /\ row[c] = "approved"
  /\ outcomes[c] = {}
  /\ outcomes' = [outcomes EXCEPT ![c] = {v}]
  /\ UNCHANGED row

\* The row is closed with the robot's own answer.
Close(c) ==
  /\ row[c] = "approved"
  /\ \E v \in outcomes[c] : row' = [row EXCEPT ![c] = StatusOf(v)]
  /\ UNCHANGED outcomes

\* A command no robot knows is failed without being carried out.
Refuse(c) ==
  /\ c \notin Supported
  /\ row[c] = "approved"
  /\ row' = [row EXCEPT ![c] = "failed"]
  /\ UNCHANGED outcomes

Next ==
  \E c \in Commands :
    \/ Request(c)
    \/ \E decision \in {"approved", "rejected"} : Decide(c, decision)
    \/ \E v \in Verdicts : Carry(c, v)
    \/ Close(c)
    \/ Refuse(c)

Spec == Init /\ [][Next]_vars
=============================================================================
