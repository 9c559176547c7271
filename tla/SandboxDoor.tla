----------------------------- MODULE SandboxDoor -----------------------------
(***************************************************************************)
(* What the HTTP door of the demo sandboxes keeps about its visitors: the  *)
(* quota table of the rate limiter and the cached answer of /api/demo/     *)
(* limits. Both are shared by the worker threads.                          *)
(*                                                                         *)
(*   ops/yantraops/sandbox_http.py   RateLimiter, SandboxService.limits    *)
(***************************************************************************)
EXTENDS Integers, Sequences, FiniteSets

CONSTANTS
  Visitors,   \* the addresses a quota is charged to
  Limit,      \* mints per window; 0 switches the limiter off
  Window,     \* ticks of a window
  MaxKeys,    \* windows the table may hold
  Threads,    \* worker threads that answer /api/demo/limits
  CacheFor,   \* LIMITS_CACHE_S, in ticks
  MaxTime     \* bound: the clock stops here

\* What the code assumes of its parameters.
Constants ==
  /\ Limit \in Nat /\ Window \in Nat \ {0} /\ MaxKeys \in Nat \ {0}
  /\ CacheFor \in Nat /\ MaxTime \in Nat

VARIABLES
  clock,
  hits,       \* _hits: visitor -> [start, count]
  admitted,   \* history: the times at which each visitor was admitted, first
              \* to last, until its window was evicted
  evicted,    \* history: visitors whose window was evicted
  cache,      \* _limits: <<>>, or the one answer [at, read] kept
  fetch,      \* the request each thread is answering: <<>> or [since, read]
  served      \* history: how old the cached answers were that were served

vars == <<clock, hits, admitted, evicted, cache, fetch, served>>

quota == <<hits, admitted, evicted>>
limits == <<cache, fetch, served>>

Init ==
  /\ clock = 0
  /\ hits = [k \in {} |-> [start |-> 0, count |-> 0]]
  /\ admitted = [k \in Visitors |-> <<>>]
  /\ evicted = {}
  /\ cache = <<>>
  /\ fetch = [a \in Threads |-> <<>>]
  /\ served = 0

----------------------------------------------------------------------------
(* RateLimiter.allow: a window starts at a visitor's first attempt.        *)

NewWindow(k) == k \notin DOMAIN hits \/ clock - hits[k].start >= Window

\* mutant: one mint too many
SpentLate(k) == ~NewWindow(k) /\ hits[k].count > Limit

Spent(k) == ~NewWindow(k) /\ hits[k].count >= Limit

Slot(k) ==
  CASE NewWindow(k)               -> [start |-> clock, count |-> 1]
    [] ~NewWindow(k) /\ Spent(k)  -> hits[k]
    [] OTHER                      -> [hits[k] EXCEPT !.count = @ + 1]

Counted(k) == [x \in DOMAIN hits \cup {k} |-> IF x = k THEN Slot(k) ELSE hits[x]]

(* _prune: the windows that are over go, and of the rest the oldest ones,  *)
(* as many as the table is over its size.                                  *)
Current(table) == { x \in DOMAIN table : clock - table[x].start < Window }

Excess(keys) == IF Cardinality(keys) > MaxKeys THEN Cardinality(keys) - MaxKeys ELSE 0

Oldest(table, keys) ==
  { out \in SUBSET keys :
      /\ Cardinality(out) = Excess(keys)
      /\ \A x \in out, y \in keys \ out : table[x].start <= table[y].start }

Allow(k) ==
  /\ IF Limit = 0 THEN UNCHANGED <<hits, evicted>>
     ELSE LET table == Counted(k)
              keys  == Current(table)
          IN \E out \in Oldest(table, keys) :
               /\ hits' = [x \in keys \ out |-> table[x]]
               /\ evicted' = evicted \cup out
  /\ admitted' = IF k \in evicted' \/ (Limit > 0 /\ Spent(k)) THEN admitted
                 ELSE [admitted EXCEPT ![k] = Append(@, clock)]
  /\ UNCHANGED <<clock, limits>>

----------------------------------------------------------------------------
(* limits: the time is read before the database is asked, the lock is not  *)
(* held meanwhile. Two threads may ask at once and store in either order.  *)

Fresh == cache # <<>> /\ clock - cache[1].at < CacheFor

AskLimits(a) ==
  /\ fetch[a] = <<>>
  /\ IF Fresh
     THEN served' = clock - cache[1].read /\ UNCHANGED fetch
     ELSE fetch' = [fetch EXCEPT ![a] = << [since |-> clock, read |-> -1] >>] /\ UNCHANGED served
  /\ UNCHANGED <<clock, cache, quota>>

AnswerLimits(a) ==
  /\ fetch[a] # <<>> /\ fetch[a][1].read = -1
  /\ fetch' = [fetch EXCEPT ![a][1].read = clock]
  /\ UNCHANGED <<clock, cache, served, quota>>

\* mutant: the answer is dated when it is stored
StoredNow(a) == [at |-> clock, read |-> fetch[a][1].read]

(* An error of the database is an answer like any other: enabled is false. *)
Stored(a) == [at |-> fetch[a][1].since, read |-> fetch[a][1].read]

StoreLimits(a) ==
  /\ fetch[a] # <<>> /\ fetch[a][1].read >= 0
  /\ cache' = << Stored(a) >>
  /\ fetch' = [fetch EXCEPT ![a] = <<>>]
  /\ UNCHANGED <<clock, served, quota>>

Tick ==
  /\ clock < MaxTime
  /\ clock' = clock + 1
  /\ UNCHANGED <<quota, limits>>

Next ==
  \/ \E k \in Visitors : Allow(k)
  \/ \E a \in Threads : AskLimits(a) \/ AnswerLimits(a) \/ StoreLimits(a)
  \/ Tick

Spec == Init /\ [][Next]_vars
----------------------------------------------------------------------------
(* A visitor whose window was never evicted is admitted fewer than 2*Limit *)
(* times in any stretch as long as a window: fixed windows let one window  *)
(* end and the next begin with a burst, and no more than that.             *)
(* src: RateLimiter.allow                                                  *)
Burst == 2 * Limit

QuotaKept ==
  \A k \in Visitors \ evicted : Limit > 0 =>
    \A i, j \in 1..Len(admitted[k]) :
      j = i + Burst - 1 => admitted[k][j] - admitted[k][i] >= Window

(* A cached answer is never older than LIMITS_CACHE_S when it is served,   *)
(* however slow the database was and whoever stored last.                  *)
(* src: SandboxService.limits                                              *)
CacheIsFresh == served <= CacheFor
=============================================================================
