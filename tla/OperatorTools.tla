---------------------------- MODULE OperatorTools ----------------------------
(***************************************************************************)
(* What yantraops runs, each tool a process of its own that shares nothing *)
(* with the others: the migration runner (Migrations), the demo sandboxes  *)
(* of a box (Box) and the quotas and cached limits at their door (Door),   *)
(* and the whole stack in one process (Stack).                             *)
(*                                                                         *)
(*   ops/yantraops/__main__.py   main                                      *)
(***************************************************************************)
EXTENDS Migrations

CONSTANTS
  Sites, Threads, Cleaners, MaxInflight, MaxLive, DbMaxLive, TTL, MaxTime,
  Visitors, Limit, Window, MaxKeys, CacheFor,
  Services, Loopback, Embedded

VARIABLES
  now, session, sim, file, tmp, lock, inflight, actor, lost, orphaned,
  clock, hits, admitted, evicted, cache, fetch, served,
  main, next, child, backend, broker, docroot, stateFile, cut

Box == INSTANCE DemoSandbox
Door == INSTANCE SandboxDoor
Stack == INSTANCE FleetStack

ASSUME ToolsAssumption == Box!Constants /\ Door!Constants /\ Stack!Constants

boxVars == <<now, session, sim, file, tmp, lock, inflight, actor, lost, orphaned>>
doorVars == <<clock, hits, admitted, evicted, cache, fetch, served>>
stackVars == <<main, next, child, backend, broker, docroot, stateFile, cut>>

-----------------------------------------------------------------------------
(* Properties of the tools, with their modules' names *)

\* The box stays at its ceiling, but for the sandboxes whose record was lost.
CeilingKept == Box!CeilingKept

\* No session and no place at the door is lost, whatever a mint dies of.
NoSlotLeaked == Box!NoSlotLeaked

\* No simulator outlives its sandbox for good.
SimulatorsStop == Box!SimulatorsStop

\* Fewer than twice the quota is admitted within any window.
QuotaKept == Door!QuotaKept

\* No cached answer is served that is older than it may be.
CacheIsFresh == Door!CacheIsFresh

\* No child runs without the servers it was pointed at.
ServersOutliveClients == Stack!ServersOutliveClients

\* A process that was not cut short leaves nothing behind.
NothingLeftBehind == Stack!NothingLeftBehind
=============================================================================
