----------------------------- MODULE DemoSandbox -----------------------------
(***************************************************************************)
(* The demo sandboxes of one box: the HTTP door that mints them, the       *)
(* registry file that lists them, the simulator driving each, the door's   *)
(* sweeper thread and the reaper of the operator.                          *)
(*                                                                         *)
(*   ops/yantraops/sandbox.py        mint_sandbox, SandboxRegistry,        *)
(*                                   SandboxDriver, run_sandbox_reap       *)
(*   ops/yantraops/sandbox_http.py   SandboxService, _sweeper              *)
(*   supabase/0009_demo_sandbox.sql  demo_mint_session and the RPCs beside *)
(*                                   it (external)                         *)
(*                                                                         *)
(* An actor is a thread of the door serving a request, the sweeper or the  *)
(* reaper. A sandbox is known by its site; the registry record, the        *)
(* session row and the simulator of a site carry the same expiry. Pids are *)
(* the sites: a pid is not used twice. The per-visitor quota is modelled   *)
(* in SandboxDoor; here any request may be admitted.                       *)
(***************************************************************************)
EXTENDS Integers, FiniteSets

CONSTANTS
  Sites,        \* the sites the database can draw
  Threads,      \* worker threads of the door
  Cleaners,     \* which of the sweeper thread and the operator's reaper run
  MaxInflight,  \* mints in flight at once
  MaxLive,      \* sandboxes this box may run
  DbMaxLive,    \* demo_limits.max_live_sessions
  TTL,          \* ticks a session lives
  MaxTime       \* bound: the clock stops here

Sweeper == "sweeper"
Reaper == "reaper"
Actors == Threads \cup Cleaners
NoSite == "none"

\* What the code assumes of its parameters.
Constants ==
  /\ IsFiniteSet(Sites) /\ IsFiniteSet(Threads)
  /\ Cleaners \subseteq {Sweeper, Reaper} /\ Threads \cap {Sweeper, Reaper} = {}
  /\ NoSite \notin Sites \cup Threads
  /\ {MaxInflight, MaxLive, DbMaxLive, TTL, MaxTime} \subseteq Nat

VARIABLES
  now,
  session,   \* demo_sessions: [state, expires] of each site
  sim,       \* the simulator process of each site
  file,      \* the registry: the sites it lists
  tmp,       \* the temporary file of a save: <<>> or <<sites>>
  lock,      \* who holds the mint lock
  inflight,  \* requests admitted and not answered
  actor,     \* [at, then, saw, mine]: the next step of each actor, the step
             \* after a save, the sites it last read, the site it minted
  lost,      \* history: sites whose record a save dropped or never wrote
  orphaned   \* history: sites whose mint was given up without ending them

vars == <<now, session, sim, file, tmp, lock, inflight, actor, lost, orphaned>>

Idle == [at |-> "idle", then |-> "idle", saw |-> {}, mine |-> NoSite]

Expired(s) == session[s].expires <= now

InDatabase(s) == session[s].state = "live"
Alive(s) == InDatabase(s) /\ ~Expired(s)

Init ==
  /\ now = 0
  /\ session = [s \in Sites |-> [state |-> "unused", expires |-> 0]]
  /\ sim = [s \in Sites |-> "none"]
  /\ file = {} /\ tmp = <<>>
  /\ lock = NoSite /\ inflight = 0
  /\ actor = [a \in Actors |-> Idle]
  /\ lost = {} /\ orphaned = {}

Goto(a, at) == actor' = [actor EXCEPT ![a].at = at]

Resume(a, at) == actor' = [actor EXCEPT ![a] = [Idle EXCEPT !.at = at, !.mine = actor[a].mine]]

(* What an actor does next, what it does after a save and what it has read. *)
Plan(a, at, then, saw) ==
  actor' = [actor EXCEPT ![a] = [at |-> at, then |-> then, saw |-> saw, mine |-> @.mine]]

(* A request is over, answered or not: the locks are released, in finally. *)
Finish(a) ==
  /\ actor' = [actor EXCEPT ![a] = Idle]
  /\ lock' = IF lock = a THEN NoSite ELSE lock
  /\ inflight' = IF a \in Threads THEN inflight - 1 ELSE inflight

----------------------------------------------------------------------------
(* The door *)

Request(a) ==
  /\ a \in Threads /\ actor[a].at = "idle"
  /\ inflight < MaxInflight
  /\ inflight' = inflight + 1
  /\ Goto(a, "lock")
  /\ UNCHANGED <<now, session, sim, file, tmp, lock, lost, orphaned>>

\* mutant: mints are not serialised
TakeNoLock(a) == lock' = lock

TakeLock(a) == lock = NoSite /\ lock' = a

EnterMint(a) ==
  /\ actor[a].at = "lock"
  /\ TakeLock(a)
  /\ Goto(a, "sweep")
  /\ UNCHANGED <<now, session, sim, file, tmp, inflight, lost, orphaned>>

(* The sweeper wakes up every minute.                                      *)
WakeSweeper ==
  /\ Sweeper \in Actors /\ actor[Sweeper].at = "idle"
  /\ Goto(Sweeper, "sweep")
  /\ UNCHANGED <<now, session, sim, file, tmp, lock, inflight, lost, orphaned>>

----------------------------------------------------------------------------
(* The registry: a file that is read, changed and replaced, by anybody.    *)

AfterSweep(a) == IF a \in Threads THEN "count" ELSE "idle"

(* sweep: the records are read once, the simulators of the expired ones    *)
(* are stopped, which takes up to five seconds each, the rest is saved.    *)
SweepLoad(a) ==
  /\ actor[a].at = "sweep"
  /\ LET gone == { s \in file : Expired(s) } IN
     IF gone = {} THEN Goto(a, AfterSweep(a))
     ELSE Plan(a, "stop", AfterSweep(a), file)
  /\ UNCHANGED <<now, session, sim, file, tmp, lock, inflight, lost, orphaned>>

Stopped(sites) ==
  [s \in Sites |-> IF s \in sites /\ sim[s] = "running" THEN "gone" ELSE sim[s]]

SweepStop(a) ==
  /\ actor[a].at = "stop"
  /\ LET gone == { s \in actor[a].saw : Expired(s) } IN
     /\ sim' = Stopped(gone)
     /\ tmp' = <<actor[a].saw \ gone>>
     /\ Goto(a, "move")
  /\ UNCHANGED <<now, session, file, lock, inflight, lost, orphaned>>

(* save: the new content goes to a temporary file, always the same one,    *)
(* which then replaces the registry. When another save has moved it away   *)
(* meanwhile, os.replace raises: the sweeper swallows that, a request and  *)
(* the reaper die of it.                                                   *)
Write(a) ==
  /\ actor[a].at = "write"
  /\ tmp' = <<actor[a].saw>>
  /\ Goto(a, "move")
  /\ UNCHANGED <<now, session, sim, file, lock, inflight, lost, orphaned>>

Dropped(content) == { s \in file \ content : ~Expired(s) }

Move(a) ==
  /\ actor[a].at = "move" /\ tmp # <<>>
  /\ file' = tmp[1] /\ tmp' = <<>>
  /\ lost' = lost \cup Dropped(tmp[1])
                  \cup (IF actor[a].mine = NoSite THEN {} ELSE {actor[a].mine} \ tmp[1])
  /\ IF actor[a].then = "answer" THEN Finish(a)
     ELSE Resume(a, actor[a].then) /\ UNCHANGED <<lock, inflight>>
  /\ UNCHANGED <<now, session, sim, orphaned>>

MoveRaises(a) ==
  /\ actor[a].at = "move" /\ tmp = <<>>
  /\ lost' = lost \cup ({actor[a].mine} \cap Sites)
  /\ Finish(a)
  /\ UNCHANGED <<now, session, sim, file, tmp, orphaned>>

----------------------------------------------------------------------------
(* mint_sandbox *)

LiveOnThisBox == { s \in file : ~Expired(s) }

Full == Cardinality(LiveOnThisBox) >= MaxLive

(* The local ceiling is checked before the database is asked.              *)
Count(a) ==
  /\ actor[a].at = "count"
  /\ IF Full THEN Finish(a) ELSE Goto(a, "rpc") /\ UNCHANGED <<lock, inflight>>
  /\ UNCHANGED <<now, session, sim, file, tmp, lost, orphaned>>

(* demo_mint_session purges what has expired, then counts what is live.    *)
Purged == [s \in Sites |-> IF InDatabase(s) /\ session[s].expires < now
                           THEN [session[s] EXCEPT !.state = "ended"] ELSE session[s]]

MintRpc(a) ==
  /\ actor[a].at = "rpc"
  /\ Cardinality({ s \in Sites : Alive(s) }) < DbMaxLive
  /\ now + TTL <= MaxTime
  /\ \E s \in Sites :
       /\ session[s].state = "unused"
       /\ session' = [Purged EXCEPT ![s] = [state |-> "live", expires |-> now + TTL]]
       /\ \/ /\ actor' = [actor EXCEPT ![a] = [@ EXCEPT !.at = "start", !.mine = s]]
             /\ UNCHANGED <<lock, inflight, orphaned>>
          \/ /\ orphaned' = orphaned \cup {s}        \* the reply is lost
             /\ Finish(a)
  /\ UNCHANGED <<now, sim, file, tmp, lost>>

(* Disabled, full or unreachable: the door answers 503, 429 or 502.        *)
MintRefused(a) ==
  /\ actor[a].at = "rpc"
  /\ Finish(a)
  /\ UNCHANGED <<now, session, sim, file, tmp, lost, orphaned>>

(* The history is written under the session's own token, which the         *)
(* database accepts while the session is live.                             *)
Seeded(s) == Alive(s)

Spawned(s) == sim' = [sim EXCEPT ![s] = "running"]

(* Claim, seed the history, start the driver; any of it may fail.          *)
Start(a) ==
  /\ actor[a].at = "start"
  /\ \/ Seeded(actor[a].mine) /\ Spawned(actor[a].mine) /\ Goto(a, "add")
     \/ Goto(a, "end") /\ UNCHANGED sim
  /\ UNCHANGED <<now, session, file, tmp, lock, inflight, lost, orphaned>>

\* mutant: a mint that failed is not ended
EndNothing(s) == session' = session

(* Never leave a live slot for a sandbox nobody can use.                   *)
EndRpc(s) == session' = [session EXCEPT ![s].state = "ended"]

EndMint(a) ==
  /\ actor[a].at = "end"
  /\ \/ EndRpc(actor[a].mine) /\ UNCHANGED orphaned
     \/ /\ orphaned' = orphaned \cup {actor[a].mine}
        /\ UNCHANGED session
  /\ Finish(a)
  /\ UNCHANGED <<now, sim, file, tmp, lost>>

Add(a) ==
  /\ actor[a].at = "add"
  /\ Plan(a, "write", "answer", file \cup {actor[a].mine})
  /\ UNCHANGED <<now, session, sim, file, tmp, lock, inflight, lost, orphaned>>

----------------------------------------------------------------------------
(* sandbox-reap: the database purges, the simulators of the purged sites   *)
(* are stopped, their records dropped, and the registry is swept.          *)

Reapable == { s \in Sites : InDatabase(s) /\ session[s].expires < now }

Reap ==
  /\ Reaper \in Actors /\ actor[Reaper].at = "idle"
  /\ session' = Purged
  /\ Plan(Reaper, IF Reapable = {} THEN "sweep" ELSE "drop", "idle", Reapable)
  /\ UNCHANGED <<now, sim, file, tmp, lock, inflight, lost, orphaned>>

DropReaped ==
  /\ Reaper \in Actors /\ actor[Reaper].at = "drop"
  /\ sim' = Stopped(actor[Reaper].saw \cap file)
  /\ Plan(Reaper, "write", "sweep", file \ actor[Reaper].saw)
  /\ UNCHANGED <<now, session, file, tmp, lock, inflight, lost, orphaned>>

----------------------------------------------------------------------------
(* SandboxDriver.run: a loop that ends at the deadline. It also ends when  *)
(* a write is refused, when the backend says that the session is over or   *)
(* when the process dies, but a backend that does not answer stops nothing. *)

\* mutant: the driver relies on the backend and on the sweepers
NoDeadline(s) == FALSE

PastDeadline(s) == Expired(s)

Deadline(s) ==
  /\ sim[s] = "running" /\ PastDeadline(s)
  /\ sim' = [sim EXCEPT ![s] = "gone"]
  /\ UNCHANGED <<now, session, file, tmp, lock, inflight, actor, lost, orphaned>>

Dies(s) ==
  /\ sim[s] = "running"
  /\ sim' = [sim EXCEPT ![s] = "gone"]
  /\ UNCHANGED <<now, session, file, tmp, lock, inflight, actor, lost, orphaned>>

(* The visitor, or whoever holds the token, ends the session.              *)
Leave(s) ==
  /\ Alive(s) /\ s \in file
  /\ EndRpc(s)
  /\ UNCHANGED <<now, sim, file, tmp, lock, inflight, actor, lost, orphaned>>

(* The door is killed: its threads and locks are gone. The simulators run  *)
(* in sessions of their own and stay.                                      *)
CrashDoor ==
  /\ orphaned' = orphaned \cup ({ actor[a].mine : a \in Threads } \cap Sites)
  /\ actor' = [a \in Actors |-> IF a = Reaper THEN actor[a] ELSE Idle]
  /\ lock' = NoSite /\ inflight' = 0
  /\ UNCHANGED <<now, session, sim, file, tmp, lost>>

Tick ==
  /\ now < MaxTime
  /\ now' = now + 1
  /\ UNCHANGED <<session, sim, file, tmp, lock, inflight, actor, lost, orphaned>>

----------------------------------------------------------------------------
Serve(a) ==
  \/ Count(a) \/ MintRpc(a) \/ MintRefused(a) \/ Start(a) \/ EndMint(a)
  \/ Add(a)

Save(a) == SweepLoad(a) \/ SweepStop(a) \/ Write(a) \/ Move(a) \/ MoveRaises(a)

Next ==
  \/ \E a \in Threads : Request(a) \/ EnterMint(a) \/ Serve(a)
  \/ \E a \in Actors : Save(a)
  \/ WakeSweeper \/ Reap \/ DropReaped
  \/ \E s \in Sites : Deadline(s) \/ Dies(s) \/ Leave(s)
  \/ CrashDoor \/ Tick

(* Time passes, and a driver looks at the clock in every turn of its loop. *)
Fairness ==
  /\ \A s \in Sites : WF_vars(Deadline(s))
  /\ WF_vars(Tick)

Spec == Init /\ [][Next]_vars /\ Fairness
----------------------------------------------------------------------------
TypeOK ==
  /\ now \in 0..MaxTime
  /\ session \in [Sites -> [state : {"unused", "live", "ended"}, expires : 0..MaxTime]]
  /\ sim \in [Sites -> {"none", "running", "gone"}]
  /\ file \subseteq Sites /\ lost \subseteq Sites /\ orphaned \subseteq Sites
  /\ lock \in Threads \cup {NoSite}
  /\ inflight \in 0..MaxInflight

Simulating == { s \in Sites : sim[s] = "running" /\ ~Expired(s) }

(* The box never runs more simulators of live sandboxes than its ceiling,  *)
(* not counting those whose record another save has overwritten or whose   *)
(* door was killed: mints are serialised from the count to the record.     *)
(* src: SandboxService.mint, mint_sandbox                                  *)
CeilingKept == Cardinality(Simulating \ (lost \cup orphaned)) <= MaxLive

(* Every live session is listed, is being minted, or was given up in one   *)
(* of the three ways the code has: the reply of the mint or of the end was *)
(* lost, the door was killed, or a save dropped the record.                *)
SessionsAccounted ==
  \A s \in Sites : Alive(s) =>
    \/ s \in file \cup lost \cup orphaned
    \/ \E a \in Threads : actor[a].mine = s

(* The lock and the count of requests in flight belong to requests that    *)
(* are being served.                                                       *)
DoorOpen ==
  /\ inflight = Cardinality({ a \in Threads : actor[a].at # "idle" })
  /\ lock # NoSite => actor[lock].at \notin {"idle", "lock"}

(* Whatever a mint dies of, neither its session nor its place at the door  *)
(* stays taken: a ceiling that leaks closes the demo for everybody.        *)
(* src: mint_sandbox, SandboxRegistry.add, SandboxService.mint             *)
NoSlotLeaked == SessionsAccounted /\ DoorOpen

(* A simulator never outlives its sandbox for good, listed or not.         *)
(* src: SandboxDriver.run                                                  *)
SimulatorsStop == <>[](\A s \in Sites : sim[s] # "running")

(* "Serialised: [...] two simultaneous mints would race straight past the  *)
(* cap": that the serialised mints of one door keep the box at its ceiling *)
(* whatever its own sweeper thread does.                                   *)
(* src: SandboxService.mint                                                *)
NeverOverCeiling == Cardinality(Simulating \ orphaned) <= MaxLive
=============================================================================
