------------------------------ MODULE Notifier ------------------------------
(***************************************************************************)
(* yantranotify: each poll reads the alerts and incidents worth waking a   *)
(* human for, and the dispatcher announces the new ones on a channel that  *)
(* retries, queues and pauses.                                             *)
(*                                                                         *)
(*   notifier/yantranotify/notifier.py     Notifier                        *)
(*   notifier/yantranotify/reliability.py  ReliableChannel                 *)
(*   notifier/yantranotify/source.py       AlertSource                     *)
(*                                                                         *)
(* The channels of a notifier share nothing but the seen keys, so one      *)
(* stands for all of them. The three tries of an attempt, with the sleeps  *)
(* between them, are one step.                                             *)
(***************************************************************************)
EXTENDS Integers, Sequences, FiniteSets

CONSTANTS
  Keys,              \* dedup keys of alerts and incidents
  StateFiles,        \* is there a --state-file: a set of Booleans
  DigestThreshold,   \* DIGEST_THRESHOLD (5 in the code)
  BreakerThreshold,  \* BREAKER_THRESHOLD (5 in the code)
  MaxPending,        \* MAX_PENDING (500 in the code)
  MaxFailures,       \* bound: attempts that fail
  MaxLostReplies,    \* bound: deliveries whose answer is lost
  MaxCrashes         \* bound

\* What the constants are.
Constants ==
  /\ StateFiles \subseteq BOOLEAN
  /\ DigestThreshold \in Nat
  /\ {BreakerThreshold, MaxPending} \subseteq Nat \ {0}
  /\ {MaxFailures, MaxLostReplies, MaxCrashes} \subseteq Nat

VARIABLES
  alarms,     \* keys of the notifiable rows: unacked alerts, open incidents
  useFile,    \* is there a state file
  seen, file, \* Notifier.seen and what the state file holds of it
  pc,         \* where the poll loop is
  batch,      \* keys of the poll being dispatched
  todo,       \* items of this dispatch not yet handed to the channel
  pending,    \* ReliableChannel.pending
  failures,   \* consecutive_failures, up to the threshold
  paused,     \* the breaker is open
  round,      \* history: number of dispatches with something new
  last,       \* history: round of the youngest item delivered in this life
  delivered,  \* history: how often a key reached a human
  loaded,     \* history: keys this life knows from the state file
  dropped,    \* history: keys a full queue dropped
  budget

memory == <<seen, batch, todo, pending, failures, paused>>
vars == <<alarms, useFile, file, pc, memory, round, last, delivered, loaded,
          dropped, budget>>

\* A message: one event, or the digest of several.
Items == [keys : SUBSET Keys, round : Nat]

Init ==
  /\ alarms \in SUBSET Keys
  /\ useFile \in StateFiles
  /\ seen = {} /\ file = {}
  /\ pc = "idle"
  /\ batch = {} /\ todo = {}
  /\ pending = <<>> /\ failures = 0 /\ paused = FALSE
  /\ round = 0 /\ last = 0
  /\ delivered = [k \in Keys |-> 0]
  /\ loaded = {} /\ dropped = {}
  /\ budget = [failures |-> MaxFailures, replies |-> MaxLostReplies,
               crashes |-> MaxCrashes]

-----------------------------------------------------------------------------
(* ReliableChannel *)

\* One _attempt: one of its tries succeeds, or all fail; a try whose answer is
\* lost has reached a human and counts as failed.
Attempt(item, ok) ==
  \E lost \in 0 .. 1 :
    LET copies == IF ok THEN lost + 1 ELSE lost
    IN  /\ budget.replies >= lost
        /\ ok \/ budget.failures > 0
        /\ budget' = [budget EXCEPT !.replies = @ - lost,
                                    !.failures = IF ok THEN @ ELSE @ - 1]
        /\ delivered' = [k \in Keys |-> IF k \in item.keys THEN delivered[k] + copies
                                        ELSE delivered[k]]
        /\ last' = IF copies > 0 /\ item.round > last THEN item.round ELSE last

Trips == failures + 1 >= BreakerThreshold

Succeeded == failures' = 0 /\ UNCHANGED paused
Failed ==
  /\ failures' = IF Trips THEN BreakerThreshold ELSE failures + 1
  /\ paused' = (paused \/ Trips)

Full == Len(pending) >= MaxPending

\* _enqueue: a full queue drops its oldest item.
Enqueue(item) ==
  /\ pending' = Append(IF Full THEN Tail(pending) ELSE pending, item)
  /\ dropped' = IF Full THEN dropped \cup Head(pending).keys ELSE dropped

\* The pause of the breaker is over.
PauseOver ==
  /\ paused
  /\ paused' = FALSE
  /\ UNCHANGED <<alarms, useFile, file, pc, seen, batch, todo, pending, failures,
                 round, last, delivered, loaded, dropped, budget>>

-----------------------------------------------------------------------------
(* Notifier.dispatch *)

\* AlertSource.fetch_events: the snapshot this dispatch works from.
Fetch ==
  /\ pc = "idle"
  /\ batch' = alarms
  /\ pc' = "flush"
  /\ UNCHANGED <<alarms, useFile, file, seen, todo, pending, failures, paused,
                 round, last, delivered, loaded, dropped, budget>>

\* mutant: dispatch does not flush
NeverFlushes == FALSE
Flushes == pending # <<>> /\ ~paused

\* flush_channels: the queue is retried in order, up to the first failure.
Flush ==
  /\ pc = "flush"
  /\ Flushes
  /\ \/ /\ Attempt(Head(pending), TRUE)
        /\ Succeeded
        /\ pending' = Tail(pending)
        /\ UNCHANGED pc
     \/ /\ Attempt(Head(pending), FALSE)
        /\ Failed
        /\ UNCHANGED pending
        /\ pc' = "announce"
  /\ UNCHANGED <<alarms, useFile, file, seen, batch, todo, round, loaded, dropped>>

\* mutant: what is still queued counts as new
NewUndelivered == {k \in batch : delivered[k] = 0}
New == batch \ seen

\* The new events of the poll become one digest, or a message each. The order of
\* the messages of one poll is left open.
Messages ==
  IF Cardinality(New) > DigestThreshold
  THEN {[keys |-> New, round |-> round + 1]}
  ELSE {[keys |-> {k}, round |-> round + 1] : k \in New}

Announce ==
  /\ \/ pc = "announce"
     \/ pc = "flush" /\ ~Flushes
  /\ IF New = {}
     THEN pc' = "idle" /\ UNCHANGED <<seen, todo, round>>
     ELSE /\ pc' = "send"
          /\ seen' = seen \cup New
          /\ todo' = Messages
          /\ round' = round + 1
  /\ batch' = {}
  /\ UNCHANGED <<alarms, useFile, file, pending, failures, paused, last,
                 delivered, loaded, dropped, budget>>

\* _send_item while the breaker is open: queued without touching the network.
SendPaused(item) ==
  /\ item \in todo
  /\ paused
  /\ Enqueue(item)
  /\ todo' = todo \ {item}
  /\ UNCHANGED <<alarms, useFile, file, pc, seen, batch, failures, paused, round,
                 last, delivered, loaded, budget>>

\* mutant: a message overtakes the queue
SkipsQueue == FALSE
QueueFirst == pending # <<>>

\* _send_item with a queue: the oldest item is tried first, and when that fails
\* the new one is queued untried.
SendFlush(item) ==
  /\ item \in todo
  /\ ~paused /\ QueueFirst
  /\ \/ /\ Attempt(Head(pending), TRUE)
        /\ Succeeded
        /\ pending' = Tail(pending)
        /\ UNCHANGED <<todo, dropped>>
     \/ /\ Attempt(Head(pending), FALSE)
        /\ Failed
        /\ Enqueue(item)
        /\ todo' = todo \ {item}
  /\ UNCHANGED <<alarms, useFile, file, pc, seen, batch, round, loaded>>

\* mutant: a message that failed is forgotten
Forgotten(item) == UNCHANGED <<pending, dropped>>
KeptFor(item) == Enqueue(item)

\* _send_item with an empty queue.
SendNow(item) ==
  /\ item \in todo
  /\ ~paused /\ ~QueueFirst
  /\ \/ /\ Attempt(item, TRUE)
        /\ Succeeded
        /\ UNCHANGED <<pending, dropped>>
     \/ /\ Attempt(item, FALSE)
        /\ Failed
        /\ KeptFor(item)
  /\ todo' = todo \ {item}
  /\ UNCHANGED <<alarms, useFile, file, pc, seen, batch, round, loaded>>

Send == \E item \in todo : SendPaused(item) \/ SendFlush(item) \/ SendNow(item)

\* _save_state; a write that fails, before or after it has emptied the file, is
\* logged.
Save ==
  /\ pc = "send" /\ todo = {}
  /\ pc' = "idle"
  /\ file' \in IF useFile THEN {seen, file, {}} ELSE {{}}
  /\ UNCHANGED <<alarms, useFile, memory, round, last, delivered, loaded, dropped,
                 budget>>

Step == Fetch \/ Flush \/ Announce \/ Send \/ Save

\* The process dies and starts again with what the state file holds. One that
\* dies while it writes the file leaves an unreadable one, read as empty.
Crash ==
  /\ budget.crashes > 0
  /\ budget' = [budget EXCEPT !.crashes = @ - 1]
  /\ file' \in {file} \cup (IF pc = "send" /\ todo = {} THEN {{}} ELSE {})
  /\ seen' = file' /\ loaded' = file'
  /\ pc' = "idle"
  /\ batch' = {} /\ todo' = {}
  /\ pending' = <<>> /\ failures' = 0 /\ paused' = FALSE
  /\ last' = 0
  /\ UNCHANGED <<alarms, useFile, round, delivered, dropped>>

Next == Step \/ PauseOver \/ Crash

\* The tables change by other hands.
Rows ==
  /\ alarms' \in SUBSET Keys
  /\ UNCHANGED <<useFile, file, pc, memory, round, last, delivered, loaded,
                 dropped, budget>>

Spec == Init /\ [][Next \/ Rows]_vars

-----------------------------------------------------------------------------
(* Properties *)

TypeOK ==
  /\ alarms \subseteq Keys
  /\ useFile \in BOOLEAN
  /\ seen \subseteq Keys /\ file \subseteq seen /\ loaded \subseteq seen
  /\ pc \in {"idle", "flush", "announce", "send"}
  /\ batch \subseteq Keys /\ todo \subseteq Items
  /\ pending \in Seq(Items) /\ Len(pending) <= MaxPending
  /\ failures \in 0 .. BreakerThreshold /\ paused \in BOOLEAN
  /\ round \in Nat /\ last \in 0 .. round
  /\ delivered \in [Keys -> Nat]
  /\ dropped \subseteq Keys
  /\ budget \in [failures : 0 .. MaxFailures, replies : 0 .. MaxLostReplies,
                crashes : 0 .. MaxCrashes]

Queued == (UNION {item.keys : item \in todo})
            \cup (UNION {pending[i].keys : i \in 1 .. Len(pending)})

\* No loss (reliability.py:7): whatever this process took in was delivered, is
\* queued, or was the oldest of a full queue.
NoLoss ==
  \A k \in seen \ (loaded \cup dropped) : delivered[k] > 0 \/ k \in Queued

\* The same alert or incident is never announced twice (notifier.py:6) but for
\* lives that did not learn of it and answers that were lost.
AnnouncedOnce ==
  \A k \in Keys :
    delivered[k] <= 1 + (MaxCrashes - budget.crashes) + (MaxLostReplies - budget.replies)

\* The queue preserves order (reliability.py:9): nothing still queued is older
\* than something delivered, except that its answer may have been lost.
InOrder ==
  /\ \A i \in 1 .. Len(pending) : pending[i].round >= last
  /\ \A i, j \in 1 .. Len(pending) : i < j => pending[i].round <= pending[j].round
=============================================================================
