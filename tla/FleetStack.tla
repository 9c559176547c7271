------------------------------ MODULE FleetStack ------------------------------
(***************************************************************************)
(* `yantraops up`: one process that runs the fake backend and the embedded *)
(* broker in threads of its own, starts the services as children in order, *)
(* waits until the fleet flows, supervises, and stops everything in the    *)
(* reverse order. Children die by themselves, ignore SIGTERM or fail to    *)
(* start, and a signal may come at any point of the life of the process.   *)
(*                                                                         *)
(*   ops/yantraops/orchestrator.py   FleetStack, build_docroot             *)
(*   ops/yantraops/broker.py         EmbeddedBroker                        *)
(*   ops/yantraops/__main__.py       cmd_up                                *)
(***************************************************************************)
EXTENDS Integers

CONSTANTS
  Services,  \* number of children, numbered in start order; the last one is
             \* the static server of the console
  Loopback,  \* the backend is the in-process fake, not a Supabase project
  Embedded   \* --mqtt without --broker

\* What the code assumes of its parameters.
Constants ==
  Services \in Nat \ {0} /\ Loopback \in BOOLEAN /\ Embedded \in BOOLEAN

VARIABLES
  main,      \* where the process is
  next,      \* the child start() or stop() has come to
  child,     \* each child: none, alive, asked (to terminate) or dead
  backend, broker, \* the servers that run inside the process
  docroot,   \* the generated directory: none, owned (stop() removes it), or
             \* stray: made by a build_docroot that raised, owned by nobody
  stateFile, \* the state file exists
  cut        \* history: the process ended without reaching the end of stop()

vars == <<main, next, child, backend, broker, docroot, stateFile, cut>>

Children == 1..Services
Running(i) == child[i] \in {"alive", "asked"}

Init ==
  /\ main = "backend" /\ next = 1
  /\ child = [i \in Children |-> "none"]
  /\ backend = FALSE /\ broker = FALSE
  /\ docroot = "none" /\ stateFile = FALSE /\ cut = FALSE

\* The process is gone, and its threads with it; children do not follow.
Gone(isCut) ==
  /\ main' = "gone" /\ cut' = isCut
  /\ backend' = FALSE /\ broker' = FALSE

----------------------------------------------------------------------------
(* start(): the servers first, then each child.                            *)

StartBackend ==
  /\ main = "backend"
  /\ main' = "broker"
  /\ backend' = Loopback
  /\ UNCHANGED <<next, child, broker, docroot, stateFile, cut>>

\* The backend cannot bind, or no project is configured: nothing was started.
BackendFails ==
  /\ main = "backend"
  /\ Gone(FALSE)
  /\ UNCHANGED <<next, child, docroot, stateFile>>

StartBroker ==
  /\ main = "broker"
  /\ main' = "spawn"
  /\ broker' = Embedded
  /\ UNCHANGED <<next, child, backend, docroot, stateFile, cut>>

\* stop() begins with the child that was started last.
BeginStop(started) ==
  /\ main' = "terminate"
  /\ next' = started

\* The broker does not listen in time; it has shut itself down.
BrokerFails ==
  /\ main = "broker" /\ Embedded
  /\ BeginStop(0)
  /\ UNCHANGED <<child, backend, broker, docroot, stateFile, cut>>

\* The directory of the static server, built before the last child starts.
BuildDocroot == docroot' = IF next = Services THEN "owned" ELSE docroot

Spawn ==
  /\ main = "spawn"
  /\ child' = [child EXCEPT ![next] = "alive"]
  /\ BuildDocroot
  /\ main' = IF next = Services THEN "publish" ELSE main
  /\ next' = next + 1
  /\ UNCHANGED <<backend, broker, stateFile, cut>>

\* mutant: the exception of start() is raised without stop()
SpawnFailsRaise ==
  /\ main = "spawn"
  /\ Gone(FALSE)
  /\ UNCHANGED <<next, child, docroot, stateFile>>

\* Starting a child raises; the last one, before its directory is made or when
\* it is there and owned.
SpawnFails ==
  /\ main = "spawn"
  /\ BeginStop(next - 1)
  /\ docroot' \in IF next = Services THEN {docroot, "owned"} ELSE {docroot}
  /\ UNCHANGED <<child, backend, broker, stateFile, cut>>

\* build_docroot raises between mkdtemp and its return: the directory is there,
\* and self.docroot, by which stop() would remove it, was never assigned.
BuildRaises ==
  /\ main = "spawn" /\ next = Services
  /\ BeginStop(next - 1)
  /\ docroot' = "stray"
  /\ UNCHANGED <<child, backend, broker, stateFile, cut>>

\* _write_state, outside the try of start().
WriteState ==
  /\ main = "publish"
  /\ main' = "ready" /\ stateFile' = TRUE
  /\ UNCHANGED <<next, child, backend, broker, docroot, cut>>

\* The state file cannot be written, or the banner cannot be printed: the
\* exception leaves cmd_up, which never reaches stop().
Escapes ==
  /\ main \in {"publish", "ready"}
  /\ Gone(TRUE)
  /\ UNCHANGED <<next, child, docroot, stateFile>>

----------------------------------------------------------------------------
(* wait_ready(), run() and the signals.                                    *)

\* The fleet flows, or 45 s are over; run() installs its handlers.
Ready ==
  /\ main = "ready"
  /\ main' = "run"
  /\ UNCHANGED <<next, child, backend, broker, docroot, stateFile, cut>>

\* SIGINT or SIGTERM under the handlers of run(), or --duration is over.
StopAsked ==
  /\ main = "run"
  /\ BeginStop(Services)
  /\ UNCHANGED <<child, backend, broker, docroot, stateFile, cut>>

\* SIGTERM or SIGINT before run() has installed its handlers or after it has
\* restored the old ones, or SIGKILL: the process ends where it is. (The
\* except clause of start() does not catch a KeyboardInterrupt.)
Killed ==
  /\ main # "gone"
  /\ Gone(TRUE)
  /\ UNCHANGED <<next, child, docroot, stateFile>>

\* A child ends: on its own, or because it was asked to.
ChildExits(i) ==
  /\ Running(i)
  /\ child' = [child EXCEPT ![i] = "dead"]
  /\ UNCHANGED <<main, next, backend, broker, docroot, stateFile, cut>>

----------------------------------------------------------------------------
(* stop().                                                                 *)

\* terminate() for every child that runs, the last one first.
Terminate ==
  /\ main = "terminate" /\ next > 0
  /\ child' = [child EXCEPT ![next] = IF @ = "alive" THEN "asked" ELSE @]
  /\ next' = next - 1
  /\ UNCHANGED <<main, backend, broker, docroot, stateFile, cut>>

\* mutant: the broker is stopped before the clients are gone
TerminatedBrokerToo ==
  /\ main = "terminate" /\ next = 0
  /\ main' = "wait" /\ next' = Services /\ broker' = FALSE
  /\ UNCHANGED <<child, backend, docroot, stateFile, cut>>

Terminated ==
  /\ main = "terminate" /\ next = 0
  /\ main' = "wait" /\ next' = Services
  /\ UNCHANGED <<child, backend, broker, docroot, stateFile, cut>>

\* wait() for each; one that outlives its grace is killed.
Wait ==
  /\ main = "wait" /\ next > 0
  /\ child' = [child EXCEPT ![next] = IF Running(next) THEN "dead" ELSE @]
  /\ next' = next - 1
  /\ UNCHANGED <<main, backend, broker, docroot, stateFile, cut>>

StopBroker ==
  /\ main = "wait" /\ next = 0
  /\ main' = "stopBackend" /\ broker' = FALSE
  /\ UNCHANGED <<next, child, backend, docroot, stateFile, cut>>

StopBackend ==
  /\ main = "stopBackend"
  /\ main' = "clean" /\ backend' = FALSE
  /\ UNCHANGED <<next, child, broker, docroot, stateFile, cut>>

\* The directory and the state file are removed, and the process ends: run()
\* returns 0 or start() raises again.
CleanUp ==
  /\ main = "clean"
  /\ Gone(FALSE)
  /\ docroot' = IF docroot = "owned" THEN "none" ELSE docroot
  /\ stateFile' = FALSE
  /\ UNCHANGED <<next, child>>

Starting ==
  \/ StartBackend \/ BackendFails \/ StartBroker \/ BrokerFails
  \/ Spawn \/ SpawnFails \/ BuildRaises \/ WriteState \/ Escapes \/ Ready

Stopping ==
  Terminate \/ Terminated \/ Wait \/ StopBroker \/ StopBackend \/ CleanUp

Next ==
  \/ Starting \/ Stopping \/ StopAsked \/ Killed
  \/ \E i \in Children : ChildExits(i)

Spec == Init /\ [][Next]_vars

----------------------------------------------------------------------------
(* Properties.                                                             *)

TypeOK ==
  /\ main \in {"backend", "broker", "spawn", "publish", "ready", "run",
               "terminate", "wait", "stopBackend", "clean", "gone"}
  /\ next \in 0..(Services + 1)
  /\ child \in [Children -> {"none", "alive", "asked", "dead"}]
  /\ {backend, broker, stateFile, cut} \subseteq BOOLEAN
  /\ docroot \in {"none", "owned", "stray"}

\* No child ever runs without the servers it was pointed at while the process
\* lives: they are started before the first child and stopped after the last
\* (stop: "after the clients, before the backend").
ServersOutliveClients ==
  main # "gone" /\ (\E i \in Children : Running(i)) =>
    (Loopback => backend) /\ (Embedded => broker)

\* Unless it was cut short, the process leaves no child and no state file
\* behind when it ends, whichever start failed and whichever child ignored
\* SIGTERM. It leaves no directory either, with one exception: what a
\* build_docroot that raised half way had made, which stop() does not know of;
\* the static server was then never started.
NothingLeftBehind ==
  main = "gone" /\ ~cut =>
    /\ ~stateFile /\ \A i \in Children : ~Running(i)
    /\ docroot = "none" \/ (docroot = "stray" /\ child[Services] = "none")

=============================================================================
