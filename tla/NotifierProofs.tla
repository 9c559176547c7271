--------------------------- MODULE NotifierProofs ---------------------------
(* Theorems about Notifier, for any alarms, any thresholds and any number of *)
(* failing attempts, lost answers and crashes.                               *)
EXTENDS Notifier, TLAPS

Budgets == [failures : 0 .. MaxFailures, replies : 0 .. MaxLostReplies,
            crashes : 0 .. MaxCrashes]

\* Repetitions that crashes and lost answers account for.
Spent == (MaxCrashes - budget.crashes) + (MaxLostReplies - budget.replies)

LEMMA SpentType ==
  ASSUME Constants, TypeOK
  PROVE  Spent \in Nat
BY DEF Constants, TypeOK, Spent

\* What one attempt does to deliveries: a failed one repeats only what a lost
\* answer pays for.
LEMMA AttemptEffect ==
  ASSUME Constants, TypeOK, NEW item \in Items, item.round <= round,
         NEW ok \in BOOLEAN, Attempt(item, ok)
  PROVE  /\ delivered' \in [Keys -> Nat]
         /\ budget' \in Budgets /\ budget'.crashes = budget.crashes
         /\ last' \in 0 .. round
         /\ last' = last \/ (last' = item.round /\ last < item.round)
         /\ Spent' \in Nat
         /\ \A k \in Keys :
              /\ delivered'[k] >= delivered[k]
              /\ ok /\ k \in item.keys => delivered'[k] > 0
              /\ delivered[k] <= Spent => delivered'[k] <= 1 + Spent'
              /\ delivered[k] <= 1 + Spent /\ k \notin item.keys =>
                   delivered'[k] <= 1 + Spent'
              /\ delivered[k] <= Spent /\ (~ok \/ k \notin item.keys) =>
                   delivered'[k] <= Spent'
<1>1. PICK lost \in 0 .. 1 :
        LET copies == IF ok THEN lost + 1 ELSE lost
        IN  /\ budget.replies >= lost
            /\ ok \/ budget.failures > 0
            /\ budget' = [budget EXCEPT !.replies = @ - lost,
                                        !.failures = IF ok THEN @ ELSE @ - 1]
            /\ delivered' = [k \in Keys |-> IF k \in item.keys
                                            THEN delivered[k] + copies
                                            ELSE delivered[k]]
            /\ last' = IF copies > 0 /\ item.round > last THEN item.round ELSE last
  BY DEF Attempt
<1> DEFINE copies == IF ok THEN lost + 1 ELSE lost
<1>2. /\ copies \in 0 .. 2 /\ lost \in 0 .. 1
      /\ ok => copies = lost + 1
      /\ ~ok => copies = lost
  OBVIOUS
<1>3. /\ budget \in Budgets
      /\ delivered \in [Keys -> Nat] /\ round \in Nat /\ last \in 0 .. round
      /\ item.keys \subseteq Keys /\ item.round \in Nat
  BY DEF TypeOK, Budgets, Items
<1>4. /\ budget'.replies = budget.replies - lost
      /\ budget'.crashes = budget.crashes
      /\ budget'.failures = IF ok THEN budget.failures ELSE budget.failures - 1
      /\ budget' \in Budgets
  <2>1. /\ budget.replies - lost \in 0 .. MaxLostReplies
        /\ (IF ok THEN budget.failures ELSE budget.failures - 1) \in 0 .. MaxFailures
    BY <1>1, <1>2, <1>3 DEF Budgets, Constants
  <2> QED BY <1>1, <1>3, <2>1 DEF Budgets
<1>5. Spent' = Spent + lost /\ Spent \in Nat /\ Spent' \in Nat
  BY <1>2, <1>3, <1>4, SpentType DEF Spent, Budgets, Constants
<1> HIDE DEF copies
<1>6. /\ delivered' = [k \in Keys |-> IF k \in item.keys THEN delivered[k] + copies
                                      ELSE delivered[k]]
      /\ last' = IF copies > 0 /\ item.round > last THEN item.round ELSE last
  BY <1>1 DEF copies
<1>7. /\ delivered' \in [Keys -> Nat]
      /\ \A k \in Keys :
           /\ k \in item.keys => delivered'[k] = delivered[k] + copies
           /\ k \notin item.keys => delivered'[k] = delivered[k]
  BY <1>2, <1>3, <1>6
<1>8. /\ last' \in 0 .. round
      /\ last' = last \/ (last' = item.round /\ last < item.round)
  BY <1>3, <1>6
<1> HIDE DEF Spent
<1>9. ASSUME NEW k \in Keys
      PROVE  /\ delivered'[k] >= delivered[k]
             /\ ok /\ k \in item.keys => delivered'[k] > 0
             /\ delivered[k] <= Spent => delivered'[k] <= 1 + Spent'
             /\ delivered[k] <= 1 + Spent /\ k \notin item.keys =>
                  delivered'[k] <= 1 + Spent'
             /\ delivered[k] <= Spent /\ (~ok \/ k \notin item.keys) =>
                  delivered'[k] <= Spent'
  <2>1. delivered[k] \in Nat
    BY <1>3
  <2>2. CASE k \in item.keys /\ ok
    BY <1>2, <1>5, <1>7, <2>1, <2>2
  <2>3. CASE k \in item.keys /\ ~ok
    BY <1>2, <1>5, <1>7, <2>1, <2>3
  <2>4. CASE k \notin item.keys
    BY <1>2, <1>5, <1>7, <2>1, <2>4
  <2> QED BY <2>2, <2>3, <2>4
<1> QED BY <1>4, <1>5, <1>7, <1>8, <1>9

\* The queue without its oldest message.
LEMMA TailEffect ==
  ASSUME NEW q \in Seq(Items), q # <<>>
  PROVE  /\ Len(q) \in Nat \ {0} /\ Head(q) = q[1] /\ q[1] \in Items
         /\ Tail(q) \in Seq(Items) /\ Len(Tail(q)) = Len(q) - 1
         /\ \A i \in 1 .. Len(Tail(q)) : Tail(q)[i] = q[i + 1]
OBVIOUS

\* _enqueue appends, after dropping the first d messages: one or none.
LEMMA EnqueueEffect ==
  ASSUME Constants, TypeOK, NEW item \in Items, Enqueue(item)
  PROVE  \E d \in 0 .. 1 :
           /\ pending' \in Seq(Items) /\ Len(pending') <= MaxPending
           /\ Len(pending') = Len(pending) - d + 1
           /\ \A i \in 1 .. Len(pending) - d : pending'[i] = pending[i + d]
           /\ pending'[Len(pending')] = item
           /\ d = 0 => dropped' = dropped
           /\ d = 1 => Len(pending) > 0 /\ dropped' = dropped \cup pending[1].keys
           /\ dropped' \subseteq Keys
<1>1. /\ pending \in Seq(Items) /\ Len(pending) <= MaxPending /\ Len(pending) \in Nat
      /\ MaxPending \in Nat \ {0} /\ dropped \subseteq Keys
  BY DEF TypeOK, Constants
<1>2. CASE Full
  <2>1. pending # <<>> /\ Len(pending) = MaxPending
    BY <1>1, <1>2 DEF Full
  <2> DEFINE t == Tail(pending)
  <2>2. /\ t \in Seq(Items) /\ Len(t) = Len(pending) - 1
        /\ \A i \in 1 .. Len(t) : t[i] = pending[i + 1]
        /\ Head(pending) = pending[1] /\ pending[1] \in Items
    BY <1>1, <2>1, TailEffect
  <2>3. pending' = Append(t, item) /\ dropped' = dropped \cup Head(pending).keys
    BY <1>2 DEF Enqueue
  <2> HIDE DEF t
  <2>4. /\ pending' \in Seq(Items) /\ Len(pending') = Len(t) + 1
        /\ \A i \in 1 .. Len(t) : pending'[i] = t[i]
        /\ pending'[Len(t) + 1] = item
    BY <2>2, <2>3
  <2>5. pending[1].keys \subseteq Keys
    BY <2>2 DEF Items
  <2> WITNESS 1 \in 0 .. 1
  <2> QED BY <1>1, <2>1, <2>2, <2>3, <2>4, <2>5
<1>3. CASE ~Full
  <2>1. pending' = Append(pending, item) /\ dropped' = dropped
    BY <1>3 DEF Enqueue
  <2>2. /\ pending' \in Seq(Items) /\ Len(pending') = Len(pending) + 1
        /\ \A i \in 1 .. Len(pending) : pending'[i] = pending[i]
        /\ pending'[Len(pending) + 1] = item
    BY <1>1, <2>1
  <2>3. Len(pending) < MaxPending
    BY <1>1, <1>3 DEF Full
  <2> WITNESS 0 \in 0 .. 1
  <2> QED BY <1>1, <2>1, <2>2, <2>3
<1> QED BY <1>2, <1>3

\* The messages of a poll cover its new keys, each once, and are of one round.
LEMMA MessagesEffect ==
  ASSUME Constants, TypeOK
  PROVE  /\ New \subseteq Keys
         /\ Messages \subseteq Items
         /\ \A item \in Messages : item.round = round + 1 /\ item.keys \subseteq New
         /\ \A k \in New : \E item \in Messages : k \in item.keys
         /\ \A x, y \in Messages : x # y => x.keys \cap y.keys = {}
<1>1. New \subseteq Keys /\ round \in Nat
  BY DEF TypeOK, New
<1>2. CASE Messages = {[keys |-> New, round |-> round + 1]}
  <2>1. [keys |-> New, round |-> round + 1] \in Items
    BY <1>1 DEF Items
  <2> QED BY <1>1, <1>2, <2>1
<1>3. CASE Messages = {[keys |-> {k}, round |-> round + 1] : k \in New}
  <2>1. \A k \in New : [keys |-> {k}, round |-> round + 1] \in Items
    BY <1>1 DEF Items
  <2>2. \A item \in Messages : \E k \in New : item = [keys |-> {k}, round |-> round + 1]
    BY <1>3
  <2>3. \A k \in New : [keys |-> {k}, round |-> round + 1] \in Messages
    BY <1>3
  <2>4. Messages \subseteq Items
    BY <2>1, <2>2
  <2>5. \A item \in Messages : item.round = round + 1 /\ item.keys \subseteq New
    BY <2>2
  <2>6. \A k \in New : \E item \in Messages : k \in item.keys
    <3>1. \A k \in New : k \in [keys |-> {k}, round |-> round + 1].keys
      OBVIOUS
    <3> QED BY <2>3, <3>1
  <2>7. \A x, y \in Messages : x # y => x.keys \cap y.keys = {}
    BY <2>2
  <2> QED BY <1>1, <2>4, <2>5, <2>6, <2>7
<1> QED BY <1>2, <1>3 DEF Messages

-----------------------------------------------------------------------------
(* Types, and the order of the queue *)

Within(q, low, high) == \A i \in 1 .. Len(q) : q[i].round \in low .. high
Sorted(q) == \A i, j \in 1 .. Len(q) : i < j => q[i].round <= q[j].round

\* Messages wait in the queue in the order of their polls, none older than what
\* was delivered; what is being sent is younger than all of them.
OrderInv ==
  /\ pc # "send" => todo = {}
  /\ \A item \in todo : item.round = round
  /\ Within(pending, last, round)
  /\ Sorted(pending)

\* The queue after _enqueue is in order when nothing younger was delivered.
LEMMA EnqueueOrder ==
  ASSUME Constants, TypeOK, OrderInv, NEW item \in todo, Enqueue(item),
         last' \in 0 .. round, Within(pending, last', round)
  PROVE  /\ Within(pending', last', round)
         /\ Sorted(pending')
<1>1. item \in Items /\ item.round = round /\ round \in Nat
  BY DEF TypeOK, OrderInv
<1>2. pending \in Seq(Items) /\ Sorted(pending)
  BY DEF TypeOK, OrderInv
<1>3. PICK d \in 0 .. 1 :
        /\ pending' \in Seq(Items)
        /\ Len(pending') = Len(pending) - d + 1
        /\ \A i \in 1 .. Len(pending) - d : pending'[i] = pending[i + d]
        /\ pending'[Len(pending')] = item
        /\ d = 1 => Len(pending) > 0
  BY <1>1, EnqueueEffect
<1> DEFINE n == Len(pending) - d
<1>4. n \in Nat /\ Len(pending') = n + 1 /\ Len(pending) \in Nat
  BY <1>2, <1>3
<1>5. /\ pending'[n + 1] = item
      /\ \A i \in 1 .. n : pending'[i] = pending[i + d] /\ i + d \in 1 .. Len(pending)
  BY <1>3, <1>4
<1> HIDE DEF n
<1>6. \A i \in 1 .. n : pending'[i].round \in last' .. round
  BY <1>5 DEF Within
<1>7. Within(pending', last', round)
  BY <1>1, <1>4, <1>5, <1>6 DEF Within
<1>8. ASSUME NEW i \in 1 .. n + 1, NEW j \in 1 .. n + 1, i < j
      PROVE  pending'[i].round <= pending'[j].round
  <2>1. i \in 1 .. n
    BY <1>4, <1>8
  <2>2. CASE j = n + 1
    BY <1>1, <1>5, <1>6, <2>1, <2>2
  <2>3. CASE j # n + 1
    <3>1. j \in 1 .. n /\ i + d < j + d
      BY <1>3, <1>4, <1>8, <2>3
    <3> QED BY <1>2, <1>5, <2>1, <3>1 DEF Sorted
  <2> QED BY <2>2, <2>3
<1> QED BY <1>4, <1>7, <1>8 DEF Sorted

\* An attempt of the oldest message is no younger than the rest.
LEMMA HeadAttempt ==
  ASSUME Constants, TypeOK, OrderInv, pending # <<>>, NEW ok \in BOOLEAN,
         Attempt(Head(pending), ok)
  PROVE  /\ Head(pending) \in Items /\ Head(pending).round <= round
         /\ delivered' \in [Keys -> Nat] /\ budget' \in Budgets
         /\ last' \in 0 .. round
         /\ Within(pending, last', round)
         /\ Within(Tail(pending), last', round) /\ Sorted(Tail(pending))
<1>1. /\ Len(pending) \in Nat \ {0} /\ Head(pending) = pending[1] /\ pending[1] \in Items
      /\ Tail(pending) \in Seq(Items) /\ Len(Tail(pending)) = Len(pending) - 1
      /\ \A i \in 1 .. Len(Tail(pending)) : Tail(pending)[i] = pending[i + 1]
  BY TailEffect DEF TypeOK
<1>2. /\ round \in Nat /\ last \in 0 .. round
      /\ \A i \in 1 .. Len(pending) : pending[i] \in Items /\ pending[i].round \in Nat
  <2>1. \A i \in 1 .. Len(pending) : pending[i] \in Items
    BY DEF TypeOK
  <2>2. \A item \in Items : item.round \in Nat
    BY DEF Items
  <2> QED BY <2>1, <2>2 DEF TypeOK
<1>3. /\ \A i \in 1 .. Len(pending) : pending[i].round \in last .. round
      /\ \A i \in 1 .. Len(pending) : pending[1].round <= pending[i].round
  BY <1>1, <1>2 DEF OrderInv, Within, Sorted
<1>4. pending[1].round <= round
  BY <1>1, <1>2, <1>3
<1>5. /\ delivered' \in [Keys -> Nat] /\ budget' \in Budgets /\ last' \in 0 .. round
      /\ last' = last \/ (last' = pending[1].round /\ last < pending[1].round)
  BY <1>1, <1>4, AttemptEffect
<1>6. Within(pending, last', round)
  BY <1>2, <1>3, <1>5 DEF Within
<1>7. \A i \in 1 .. Len(Tail(pending)) : i + 1 \in 1 .. Len(pending)
  BY <1>1
<1>8. Within(Tail(pending), last', round)
  BY <1>1, <1>6, <1>7 DEF Within
<1>9. Sorted(Tail(pending))
  <2> SUFFICES ASSUME NEW i \in 1 .. Len(Tail(pending)),
                      NEW j \in 1 .. Len(Tail(pending)), i < j
               PROVE  Tail(pending)[i].round <= Tail(pending)[j].round
    BY DEF Sorted
  <2>1. i + 1 < j + 1
    BY <1>1
  <2> QED BY <1>1, <1>7, <2>1 DEF OrderInv, Sorted
<1> QED BY <1>1, <1>4, <1>5, <1>6, <1>8, <1>9

LEMMA FailureType ==
  ASSUME Constants, TypeOK, Succeeded \/ Failed
  PROVE  failures' \in 0 .. BreakerThreshold /\ paused' \in BOOLEAN
<1>1. failures \in 0 .. BreakerThreshold /\ BreakerThreshold \in Nat /\ paused \in BOOLEAN
  BY DEF TypeOK, Constants
<1>2. CASE Succeeded
  BY <1>1, <1>2 DEF Succeeded
<1>3. CASE Failed
  <2>1. failures' \in 0 .. BreakerThreshold
    <3>1. CASE Trips
      BY <1>1, <1>3, <3>1 DEF Failed
    <3>2. CASE ~Trips
      <4>1. failures' = failures + 1 /\ failures + 1 < BreakerThreshold
        BY <1>1, <1>3, <3>2 DEF Failed, Trips
      <4> QED BY <1>1, <4>1
    <3> QED BY <3>1, <3>2
  <2>2. paused' \in BOOLEAN
    BY <1>3, Zenon DEF Failed
  <2> QED BY <2>1, <2>2
<1> QED BY <1>2, <1>3

\* A message leaves the dispatch.
LEMMA SentItem ==
  ASSUME TypeOK, OrderInv, NEW item \in todo, todo' = todo \ {item},
         UNCHANGED <<pc, round>>
  PROVE  /\ todo' \subseteq Items
         /\ pc' # "send" => todo' = {}
         /\ \A x \in todo' : x.round = round'
BY DEF TypeOK, OrderInv

\* ReliableChannel and Notifier.dispatch keep types and order.
LEMMA OrderInductive ==
  ASSUME Constants
  PROVE  TypeOK /\ OrderInv /\ [Next \/ Rows]_vars => TypeOK' /\ OrderInv'
<1> SUFFICES ASSUME TypeOK, OrderInv, [Next \/ Rows]_vars
             PROVE  TypeOK' /\ OrderInv'
  OBVIOUS
<1> DEFINE Bs == [failures : 0 .. MaxFailures, replies : 0 .. MaxLostReplies,
                  crashes : 0 .. MaxCrashes]
<1>0. /\ pending \in Seq(Items) /\ round \in Nat /\ last \in 0 .. round
      /\ Bs = Budgets
  BY DEF TypeOK, Budgets
<1>1. CASE Fetch
  BY <1>1 DEF Fetch, TypeOK, OrderInv
<1>2. CASE Flush
  <2>1. pending # <<>>
    BY <1>2 DEF Flush, Flushes
  <2>2. CASE Attempt(Head(pending), TRUE) /\ Succeeded /\ pending' = Tail(pending)
             /\ UNCHANGED pc
    <3>1. Tail(pending) \in Seq(Items) /\ Len(Tail(pending)) <= MaxPending
      <4>1. Len(Tail(pending)) = Len(pending) - 1 /\ Tail(pending) \in Seq(Items)
            /\ Len(pending) \in Nat
        BY <1>0, <2>1, TailEffect
      <4> QED BY <4>1 DEF TypeOK, Constants
    <3> QED BY <1>0, <1>2, <2>1, <2>2, <3>1, HeadAttempt, FailureType
            DEF Flush, TypeOK, OrderInv
  <2>3. CASE Attempt(Head(pending), FALSE) /\ Failed /\ UNCHANGED pending
             /\ pc' = "announce"
    BY <1>0, <1>2, <2>1, <2>3, HeadAttempt, FailureType DEF Flush, TypeOK, OrderInv
  <2> QED BY <1>2, <2>2, <2>3 DEF Flush
<1>3. CASE Announce
  <2>1. todo = {} /\ pc \in {"announce", "flush"}
    BY <1>3 DEF Announce, OrderInv
  <2>2. CASE New = {}
    BY <1>3, <2>1, <2>2 DEF Announce, TypeOK, OrderInv
  <2>3. CASE New # {}
    <3>1. /\ pc' = "send" /\ seen' = seen \cup New /\ todo' = Messages
          /\ round' = round + 1 /\ UNCHANGED <<pending, last>>
      BY <1>3, <2>3 DEF Announce
    <3>2. /\ New \subseteq Keys /\ Messages \subseteq Items
          /\ \A item \in Messages : item.round = round + 1
      BY MessagesEffect
    <3>3. Within(pending, last, round + 1)
      BY <1>0 DEF OrderInv, Within
    <3>4. last \in 0 .. round + 1 /\ round + 1 \in Nat
      BY <1>0
    <3> QED BY <1>3, <3>1, <3>2, <3>3, <3>4 DEF Announce, TypeOK, OrderInv
  <2> QED BY <2>2, <2>3
<1>4. ASSUME NEW item \in todo, SendPaused(item) PROVE TypeOK' /\ OrderInv'
  <2>1. item \in Items
    BY DEF TypeOK
  <2>2. /\ pending' \in Seq(Items) /\ Len(pending') <= MaxPending
        /\ dropped' \subseteq Keys
    BY <1>4, <2>1, EnqueueEffect DEF SendPaused
  <2>3. last' = last /\ Within(pending, last', round)
    BY <1>4 DEF SendPaused, OrderInv
  <2>4. Within(pending', last', round) /\ Sorted(pending')
    BY <1>0, <1>4, <2>3, EnqueueOrder DEF SendPaused
  <2>5. /\ todo' \subseteq Items
        /\ pc' # "send" => todo' = {}
        /\ \A x \in todo' : x.round = round'
    <3>1. todo' = todo \ {item} /\ UNCHANGED <<pc, round>>
      BY <1>4 DEF SendPaused
    <3> QED BY <3>1, SentItem
  <2> QED BY <1>4, <2>2, <2>4, <2>5 DEF SendPaused, TypeOK, OrderInv
<1>5. ASSUME NEW item \in todo, SendFlush(item) PROVE TypeOK' /\ OrderInv'
  <2>1. item \in Items /\ pending # <<>>
    BY <1>5 DEF TypeOK, SendFlush, QueueFirst
  <2>2. CASE Attempt(Head(pending), TRUE) /\ Succeeded /\ pending' = Tail(pending)
             /\ UNCHANGED <<todo, dropped>>
    <3>1. Tail(pending) \in Seq(Items) /\ Len(Tail(pending)) <= MaxPending
      <4>1. Len(Tail(pending)) = Len(pending) - 1 /\ Tail(pending) \in Seq(Items)
            /\ Len(pending) \in Nat
        BY <1>0, <2>1, TailEffect
      <4> QED BY <4>1 DEF TypeOK, Constants
    <3> QED BY <1>0, <1>5, <2>1, <2>2, <3>1, HeadAttempt, FailureType
            DEF SendFlush, TypeOK, OrderInv
  <2>3. CASE Attempt(Head(pending), FALSE) /\ Failed /\ Enqueue(item)
             /\ todo' = todo \ {item}
    <3>1. /\ delivered' \in [Keys -> Nat] /\ budget' \in Budgets
          /\ last' \in 0 .. round /\ Within(pending, last', round)
      BY <2>1, <2>3, HeadAttempt
    <3>2. /\ pending' \in Seq(Items) /\ Len(pending') <= MaxPending
          /\ dropped' \subseteq Keys
      BY <2>1, <2>3, EnqueueEffect
    <3>3. Within(pending', last', round) /\ Sorted(pending')
      BY <2>3, <3>1, EnqueueOrder
    <3>4. /\ todo' \subseteq Items
        /\ pc' # "send" => todo' = {}
          /\ \A x \in todo' : x.round = round'
      BY <1>5, <2>3, SentItem DEF SendFlush
    <3>5. failures' \in 0 .. BreakerThreshold /\ paused' \in BOOLEAN
      BY <2>3, FailureType
    <3> QED BY <1>0, <1>5, <3>1, <3>2, <3>3, <3>4, <3>5 DEF SendFlush, TypeOK, OrderInv
  <2> QED BY <1>5, <2>2, <2>3 DEF SendFlush
<1>6. ASSUME NEW item \in todo, SendNow(item) PROVE TypeOK' /\ OrderInv'
  <2>1. /\ item \in Items /\ item.round = round /\ item.round <= round
        /\ pending = <<>> /\ Len(pending) = 0
    BY <1>0, <1>6 DEF TypeOK, OrderInv, SendNow, QueueFirst
  <2>2. ASSUME NEW ok \in BOOLEAN, Attempt(item, ok)
        PROVE  /\ delivered' \in [Keys -> Nat] /\ budget' \in Budgets
               /\ last' \in 0 .. round /\ Within(pending, last', round)
    BY <2>1, <2>2, AttemptEffect DEF Within
  <2>3. /\ todo' \subseteq Items
        /\ pc' # "send" => todo' = {}
        /\ \A x \in todo' : x.round = round'
    <3>1. todo' = todo \ {item} /\ UNCHANGED <<pc, round>>
      BY <1>6 DEF SendNow
    <3> QED BY <3>1, SentItem
  <2>4. CASE Attempt(item, TRUE) /\ Succeeded /\ UNCHANGED <<pending, dropped>>
    BY <1>0, <1>6, <2>1, <2>2, <2>3, <2>4, FailureType
    DEF SendNow, TypeOK, OrderInv, Within, Sorted
  <2>5. CASE Attempt(item, FALSE) /\ Failed /\ Enqueue(item)
    <3>1. /\ pending' \in Seq(Items) /\ Len(pending') <= MaxPending
          /\ dropped' \subseteq Keys
      BY <2>1, <2>5, EnqueueEffect
    <3>2. Within(pending', last', round) /\ Sorted(pending')
      BY <2>2, <2>5, EnqueueOrder
    <3>3. failures' \in 0 .. BreakerThreshold /\ paused' \in BOOLEAN
      BY <2>5, FailureType
    <3>4. /\ delivered' \in [Keys -> Nat] /\ budget' \in Bs /\ last' \in 0 .. round
      BY <1>0, <2>2, <2>5
    <3>5. UNCHANGED <<alarms, useFile, file, pc, seen, batch, round, loaded>>
      BY <1>6 DEF SendNow
    <3>6. TypeOK'
      <4>1. /\ alarms' \subseteq Keys /\ useFile' \in BOOLEAN
            /\ seen' \subseteq Keys /\ file' \subseteq seen' /\ loaded' \subseteq seen'
            /\ pc' \in {"idle", "flush", "announce", "send"} /\ batch' \subseteq Keys
            /\ round' \in Nat /\ last' \in 0 .. round'
        BY <1>0, <3>4, <3>5 DEF TypeOK
      <4> QED BY <2>3, <3>1, <3>3, <3>4, <4>1 DEF TypeOK
    <3>7. OrderInv'
      BY <2>3, <3>2, <3>5 DEF OrderInv
    <3> QED BY <3>6, <3>7
  <2> QED BY <1>6, <2>4, <2>5 DEF SendNow, KeptFor
<1>7. CASE Save
  BY <1>7 DEF Save, memory, TypeOK, OrderInv
<1>8. CASE PauseOver
  BY <1>8 DEF PauseOver, TypeOK, OrderInv
<1>9. CASE Crash
  <2>1. budget' \in Bs
    <3>1. budget.crashes - 1 \in 0 .. MaxCrashes
      BY <1>9 DEF Crash, TypeOK, Constants
    <3> QED BY <1>9, <3>1 DEF Crash, TypeOK
  <2>2. /\ pending' \in Seq(Items) /\ Len(pending') = 0
        /\ failures' \in 0 .. BreakerThreshold /\ last' \in 0 .. round
    BY <1>0, <1>9 DEF Crash, Constants
  <2>3. /\ file' \subseteq Keys /\ seen' = file' /\ loaded' = file'
        /\ todo' = {} /\ batch' = {} /\ pc' = "idle" /\ paused' = FALSE
        /\ UNCHANGED <<alarms, useFile, round, delivered, dropped>>
    BY <1>9 DEF Crash, TypeOK
  <2>4. TypeOK'
    <3>1. /\ alarms' \subseteq Keys /\ useFile' \in BOOLEAN
          /\ seen' \subseteq Keys /\ file' \subseteq seen' /\ loaded' \subseteq seen'
          /\ pc' \in {"idle", "flush", "announce", "send"}
          /\ batch' \subseteq Keys /\ todo' \subseteq Items
          /\ delivered' \in [Keys -> Nat] /\ dropped' \subseteq Keys
          /\ paused' \in BOOLEAN
      BY <2>3 DEF TypeOK
    <3>2. /\ Len(pending') <= MaxPending /\ round' \in Nat /\ last' \in 0 .. round'
      BY <1>0, <2>2, <2>3 DEF Constants
    <3> QED BY <2>1, <2>2, <3>1, <3>2 DEF TypeOK
  <2>5. OrderInv'
    BY <2>2, <2>3 DEF OrderInv, Within, Sorted
  <2> QED BY <2>4, <2>5
<1>10. CASE Rows
  BY <1>10 DEF Rows, memory, TypeOK, OrderInv
<1>11. CASE UNCHANGED vars
  BY <1>11 DEF vars, memory, TypeOK, OrderInv
<1> QED
  BY <1>1, <1>2, <1>3, <1>4, <1>5, <1>6, <1>7, <1>8, <1>9, <1>10, <1>11
  DEF Next, Step, Send

LEMMA InitOrder ==
  ASSUME Constants, Init
  PROVE  TypeOK /\ OrderInv
<1>1. TypeOK
  <2>1. /\ useFile \in BOOLEAN /\ failures \in 0 .. BreakerThreshold
        /\ Len(pending) <= MaxPending /\ pending \in Seq(Items)
    BY DEF Init, Constants
  <2>2. budget \in [failures : 0 .. MaxFailures, replies : 0 .. MaxLostReplies,
                    crashes : 0 .. MaxCrashes]
    BY DEF Init, Constants
  <2>3. delivered \in [Keys -> Nat] /\ round \in Nat /\ last \in 0 .. round
    BY DEF Init
  <2> QED BY <2>1, <2>2, <2>3 DEF Init, TypeOK
<1>2. OrderInv
  BY DEF Init, OrderInv, Within, Sorted
<1> QED BY <1>1, <1>2

\* Notifier and ReliableChannel keep their types: among others the queue stays
\* within MAX_PENDING.
THEOREM TypeCorrect == ASSUME Constants PROVE Spec => []TypeOK
<1>1. Init => TypeOK /\ OrderInv
  BY InitOrder
<1>2. TypeOK /\ OrderInv /\ [Next \/ Rows]_vars => TypeOK' /\ OrderInv'
  BY OrderInductive
<1> QED BY <1>1, <1>2, PTL DEF Spec

\* The queue preserves order (reliability.py:9), whatever fails and is lost.
THEOREM QueueOrder == ASSUME Constants PROVE Spec => []InOrder
<1>1. Init => TypeOK /\ OrderInv
  BY InitOrder
<1>2. TypeOK /\ OrderInv /\ [Next \/ Rows]_vars => TypeOK' /\ OrderInv'
  BY OrderInductive
<1>3. TypeOK /\ OrderInv => InOrder
  <2> SUFFICES ASSUME TypeOK, OrderInv PROVE InOrder
    OBVIOUS
  <2>1. last \in Nat /\ round \in Nat
    BY DEF TypeOK
  <2> QED BY <2>1 DEF OrderInv, Within, Sorted, InOrder
<1> QED BY <1>1, <1>2, <1>3, PTL DEF Spec

-----------------------------------------------------------------------------
(* What is queued, what was delivered *)

Waiting(q) == UNION {q[i].keys : i \in 1 .. Len(q)}
InHand(t) == UNION {item.keys : item \in t}

\* No key is in two messages, and what is queued was taken in.
Apart ==
  /\ InHand(todo) \subseteq seen /\ Waiting(pending) \subseteq seen
  /\ \A x, y \in todo : x # y => x.keys \cap y.keys = {}
  /\ \A x \in todo : \A i \in 1 .. Len(pending) : x.keys \cap pending[i].keys = {}
  /\ \A i, j \in 1 .. Len(pending) : i # j => pending[i].keys \cap pending[j].keys = {}

\* A key that is not settled was delivered no oftener than crashes and lost
\* answers account for; one that is, once more.
Counted ==
  \A k \in Keys :
    \/ delivered[k] <= Spent
    \/ k \in seen \ Queued /\ delivered[k] <= 1 + Spent

\* The oldest message leaves the queue.
LEMMA QueueTail ==
  ASSUME TypeOK, Apart, pending # <<>>, pending' = Tail(pending),
         UNCHANGED <<todo, seen>>
  PROVE  /\ Apart' /\ Queued' \subseteq Queued
         /\ Head(pending).keys \subseteq Queued
         /\ Head(pending).keys \cap Queued' = {}
         /\ Queued \subseteq Queued' \cup Head(pending).keys
<1>1. /\ Len(pending) \in Nat \ {0} /\ Head(pending) = pending[1]
      /\ Len(pending') = Len(pending) - 1
      /\ \A i \in 1 .. Len(pending') : pending'[i] = pending[i + 1]
  BY TailEffect DEF TypeOK
<1>2. \A i \in 1 .. Len(pending') : i + 1 \in 1 .. Len(pending) /\ i + 1 # 1
  BY <1>1
<1>3. \A i \in 1 .. Len(pending) : i # 1 => i - 1 \in 1 .. Len(pending') /\ (i - 1) + 1 = i
  BY <1>1
<1>4. 1 \in 1 .. Len(pending)
  BY <1>1
<1>5. Waiting(pending') \subseteq Waiting(pending)
  BY <1>1, <1>2 DEF Waiting
<1>6. pending[1].keys \subseteq Waiting(pending)
  BY <1>4 DEF Waiting
<1>7. pending[1].keys \cap Waiting(pending') = {}
  BY <1>1, <1>2, <1>4 DEF Waiting, Apart
<1>8. Waiting(pending) \subseteq Waiting(pending') \cup pending[1].keys
  <2> SUFFICES ASSUME NEW i \in 1 .. Len(pending), i # 1
               PROVE  pending[i].keys \subseteq Waiting(pending')
    BY DEF Waiting
  <2>1. i - 1 \in 1 .. Len(pending') /\ pending'[i - 1] = pending[i]
    BY <1>1, <1>3
  <2> QED BY <2>1 DEF Waiting
<1>9. pending[1].keys \cap InHand(todo) = {}
  BY <1>4 DEF InHand, Apart
<1>10. \A i, j \in 1 .. Len(pending') : i # j => i + 1 # j + 1
  BY <1>1
<1>11. Apart'
  BY <1>1, <1>2, <1>5, <1>10 DEF Apart
<1>12. Queued = InHand(todo) \cup Waiting(pending) /\ Queued' = InHand(todo) \cup Waiting(pending')
  BY DEF Queued, InHand, Waiting
<1> QED BY <1>1, <1>5, <1>6, <1>7, <1>8, <1>9, <1>11, <1>12

\* A message leaves the dispatch, delivered.
LEMMA QueueSent ==
  ASSUME Apart, NEW item \in todo, todo' = todo \ {item}, UNCHANGED <<pending, seen>>
  PROVE  /\ Apart' /\ Queued' \subseteq Queued
         /\ item.keys \subseteq Queued
         /\ item.keys \cap Queued' = {}
         /\ Queued \subseteq Queued' \cup item.keys
<1>1. InHand(todo') \subseteq InHand(todo) /\ item.keys \subseteq InHand(todo)
  BY DEF InHand
<1>2. InHand(todo) \subseteq InHand(todo') \cup item.keys
  BY DEF InHand
<1>3. item.keys \cap InHand(todo') = {} /\ item.keys \cap Waiting(pending) = {}
  BY DEF InHand, Waiting, Apart
<1>4. Apart'
  BY <1>1 DEF Apart
<1>5. Queued = InHand(todo) \cup Waiting(pending) /\ Queued' = InHand(todo') \cup Waiting(pending)
  BY DEF Queued, InHand, Waiting
<1> QED BY <1>1, <1>2, <1>3, <1>4, <1>5

\* A message goes from the dispatch to the queue.
LEMMA QueueMove ==
  ASSUME Constants, TypeOK, Apart, NEW item \in todo, todo' = todo \ {item},
         Enqueue(item), UNCHANGED seen
  PROVE  /\ Apart' /\ Queued' \subseteq Queued
         /\ dropped \subseteq dropped' /\ Queued \subseteq Queued' \cup dropped'
<1>1. item \in Items /\ pending \in Seq(Items)
  BY DEF TypeOK
<1>2. PICK d \in 0 .. 1 :
        /\ pending' \in Seq(Items)
        /\ Len(pending') = Len(pending) - d + 1
        /\ \A i \in 1 .. Len(pending) - d : pending'[i] = pending[i + d]
        /\ pending'[Len(pending')] = item
        /\ d = 0 => dropped' = dropped
        /\ d = 1 => Len(pending) > 0 /\ dropped' = dropped \cup pending[1].keys
  BY <1>1, EnqueueEffect
<1> DEFINE n == Len(pending) - d
<1>3. n \in Nat /\ Len(pending') = n + 1 /\ Len(pending) \in Nat /\ Len(pending) = n + d
  BY <1>1, <1>2
<1>4. /\ pending'[n + 1] = item
      /\ \A i \in 1 .. n : pending'[i] = pending[i + d] /\ i + d \in 1 .. Len(pending)
  BY <1>2, <1>3
<1> HIDE DEF n
<1>5. /\ 1 .. Len(pending') = (1 .. n) \cup {n + 1}
      /\ n + 1 \notin 1 .. n
      /\ \A i, j \in 1 .. n : i # j => i + d # j + d
  BY <1>3
<1>6. Waiting(pending') \subseteq Waiting(pending) \cup item.keys
  BY <1>4, <1>5 DEF Waiting
<1>7. item.keys \subseteq Waiting(pending')
  BY <1>4, <1>5 DEF Waiting
<1>8. dropped \subseteq dropped' /\ Waiting(pending) \subseteq Waiting(pending') \cup dropped'
  <2>1. dropped \subseteq dropped'
    BY <1>2
  <2>2. ASSUME NEW i \in 1 .. Len(pending)
        PROVE  pending[i].keys \subseteq Waiting(pending') \cup dropped'
    <3>1. CASE i - d \in 1 .. n
      <4>1. pending'[i - d] = pending[i] /\ i - d \in 1 .. Len(pending')
        BY <1>2, <1>3, <1>4, <1>5, <3>1
      <4> QED BY <4>1 DEF Waiting
    <3>2. CASE i - d \notin 1 .. n
      <4>1. d = 1 /\ i = 1
        BY <1>3, <3>2
      <4> QED BY <1>2, <4>1
    <3> QED BY <3>1, <3>2
  <2> QED BY <2>1, <2>2 DEF Waiting
<1>9. /\ InHand(todo) = InHand(todo') \cup item.keys
  BY DEF InHand
<1>10. Apart'
  <2>1. InHand(todo') \subseteq seen' /\ Waiting(pending') \subseteq seen'
    BY <1>6, <1>9 DEF Apart
  <2>2. \A x, y \in todo' : x # y => x.keys \cap y.keys = {}
    BY DEF Apart
  <2>3. \A x \in todo' : \A i \in 1 .. Len(pending') : x.keys \cap pending'[i].keys = {}
    BY <1>4, <1>5 DEF Apart
  <2>4. \A i, j \in 1 .. Len(pending') : i # j => pending'[i].keys \cap pending'[j].keys = {}
    <3> SUFFICES ASSUME NEW i \in 1 .. Len(pending'), NEW j \in 1 .. Len(pending'), i # j
                 PROVE  pending'[i].keys \cap pending'[j].keys = {}
      OBVIOUS
    <3>1. CASE i \in 1 .. n /\ j \in 1 .. n
      BY <1>4, <1>5, <3>1 DEF Apart
    <3>2. CASE i = n + 1 /\ j \in 1 .. n
      BY <1>4, <3>2 DEF Apart
    <3>3. CASE i \in 1 .. n /\ j = n + 1
      BY <1>4, <3>3 DEF Apart
    <3> QED BY <1>5, <3>1, <3>2, <3>3
  <2> QED BY <2>1, <2>2, <2>3, <2>4 DEF Apart
<1>11. Queued = InHand(todo) \cup Waiting(pending) /\ Queued' = InHand(todo') \cup Waiting(pending')
  BY DEF Queued, InHand, Waiting
<1> QED BY <1>6, <1>7, <1>8, <1>9, <1>10, <1>11

\* An attempt counts, if what it delivers leaves the queue.
LEMMA CountAttempt ==
  ASSUME Constants, TypeOK, Apart, Counted, NEW item \in Items, item.round <= round,
         NEW ok \in BOOLEAN, Attempt(item, ok),
         item.keys \subseteq Queued, Queued' \subseteq Queued,
         ok => item.keys \cap Queued' = {}, seen' = seen
  PROVE  /\ Counted'
         /\ \A k \in Keys : /\ delivered[k] > 0 => delivered'[k] > 0
                            /\ ok /\ k \in item.keys => delivered'[k] > 0
<1>1. /\ delivered' \in [Keys -> Nat] /\ delivered \in [Keys -> Nat]
      /\ Spent \in Nat /\ Spent' \in Nat
      /\ \A k \in Keys :
           /\ delivered'[k] >= delivered[k]
           /\ ok /\ k \in item.keys => delivered'[k] > 0
           /\ delivered[k] <= Spent => delivered'[k] <= 1 + Spent'
           /\ delivered[k] <= 1 + Spent /\ k \notin item.keys =>
                delivered'[k] <= 1 + Spent'
           /\ delivered[k] <= Spent /\ (~ok \/ k \notin item.keys) =>
                delivered'[k] <= Spent'
  <2>1. delivered \in [Keys -> Nat]
    BY DEF TypeOK
  <2> QED BY <2>1, AttemptEffect, SpentType
<1>2. Queued \subseteq seen
  BY DEF Apart, Queued, InHand, Waiting
<1>3. \A k \in Keys : \/ delivered'[k] <= Spent'
                      \/ k \in seen' \ Queued' /\ delivered'[k] <= 1 + Spent'
  <2> SUFFICES ASSUME NEW k \in Keys
               PROVE  \/ delivered'[k] <= Spent'
                      \/ k \in seen' \ Queued' /\ delivered'[k] <= 1 + Spent'
    OBVIOUS
  <2>1. \/ delivered[k] <= Spent
        \/ k \in seen \ Queued /\ delivered[k] <= 1 + Spent
    BY DEF Counted
  <2>2. CASE k \in item.keys
    BY <1>1, <1>2, <2>1, <2>2
  <2>3. CASE k \notin item.keys
    BY <1>1, <1>2, <2>1, <2>3
  <2> QED BY <2>2, <2>3
<1>4. \A k \in Keys : delivered[k] > 0 => delivered'[k] > 0
  BY <1>1
<1>5. Counted'
  BY <1>3 DEF Counted
<1> QED BY <1>1, <1>4, <1>5

DeliveryInv == Apart /\ Counted /\ NoLoss

\* Nothing is lost in a step that keeps what is queued, delivered or dropped.
LEMMA KeepsAll ==
  ASSUME NoLoss, TypeOK, UNCHANGED <<seen, loaded>>, dropped \subseteq dropped',
         \A k \in Keys : delivered[k] > 0 => delivered'[k] > 0,
         \A k \in Queued : k \in Queued' \cup dropped' \/ delivered'[k] > 0
  PROVE  NoLoss'
BY DEF NoLoss, TypeOK

\* A step that touches no message.
LEMMA QuietStep ==
  ASSUME DeliveryInv, UNCHANGED <<seen, todo, pending, delivered, loaded, dropped, budget>>
  PROVE  DeliveryInv'
BY DEF DeliveryInv, Apart, Counted, NoLoss, Queued, InHand, Waiting, Spent

\* A failed attempt counts; what it tried stays queued or is dropped.
LEMMA CountFailure ==
  ASSUME Constants, TypeOK, Apart, Counted, NEW item \in Items, item.round <= round,
         Attempt(item, FALSE),
         item.keys \subseteq Queued, Queued' \subseteq Queued, seen' = seen
  PROVE  /\ Counted'
         /\ \A k \in Keys : delivered[k] > 0 => delivered'[k] > 0
<1> DEFINE ok == FALSE
<1>1. ok \in BOOLEAN /\ Attempt(item, ok) /\ (ok => item.keys \cap Queued' = {})
  OBVIOUS
<1> HIDE DEF ok
<1> QED BY <1>1, CountAttempt, Zenon

\* The oldest message of the queue was delivered.
LEMMA HeadDelivered ==
  ASSUME Constants, TypeOK, OrderInv, DeliveryInv, pending # <<>>,
         Attempt(Head(pending), TRUE), pending' = Tail(pending),
         UNCHANGED <<seen, todo, loaded, dropped>>
  PROVE  DeliveryInv'
<1>1. Head(pending) \in Items /\ Head(pending).round <= round
  BY HeadAttempt
<1>2. /\ Apart' /\ Queued' \subseteq Queued
      /\ Head(pending).keys \subseteq Queued /\ Head(pending).keys \cap Queued' = {}
      /\ Queued \subseteq Queued' \cup Head(pending).keys
  BY QueueTail DEF DeliveryInv
<1>3. /\ Counted'
      /\ \A k \in Keys : /\ delivered[k] > 0 => delivered'[k] > 0
                         /\ k \in Head(pending).keys => delivered'[k] > 0
  BY <1>1, <1>2, CountAttempt DEF DeliveryInv
<1>4. Head(pending).keys \subseteq Keys
  BY <1>1 DEF Items
<1>5. NoLoss'
  <2>1. dropped \subseteq dropped' /\ UNCHANGED <<seen, loaded>>
    OBVIOUS
  <2>2. \A k \in Queued : k \in Queued' \cup dropped' \/ delivered'[k] > 0
    BY <1>2, <1>3, <1>4
  <2> QED BY <1>3, <2>1, <2>2, KeepsAll DEF DeliveryInv
<1> QED BY <1>2, <1>3, <1>5 DEF DeliveryInv

\* An attempt of the oldest message failed; the new one, if any, is queued.
LEMMA HeadFailed ==
  ASSUME Constants, TypeOK, OrderInv, DeliveryInv, pending # <<>>,
         Attempt(Head(pending), FALSE), UNCHANGED <<seen, loaded>>,
         \/ UNCHANGED <<todo, pending, dropped>>
         \/ \E item \in todo : todo' = todo \ {item} /\ Enqueue(item)
  PROVE  DeliveryInv'
<1>1. /\ Head(pending) \in Items /\ Head(pending).round <= round
      /\ Head(pending) = pending[1] /\ 1 \in 1 .. Len(pending)
  <2>1. pending \in Seq(Items)
    BY DEF TypeOK
  <2>2. Len(pending) \in Nat \ {0} /\ Head(pending) = pending[1]
    BY <2>1, TailEffect
  <2>3. Head(pending) \in Items /\ Head(pending).round <= round
    BY HeadAttempt
  <2> QED BY <2>2, <2>3
<1>2. Head(pending).keys \subseteq Queued
  BY <1>1 DEF Queued
<1>3. /\ Apart' /\ Queued' \subseteq Queued
      /\ dropped \subseteq dropped' /\ Queued \subseteq Queued' \cup dropped'
  <2>1. CASE UNCHANGED <<todo, pending, dropped>>
    BY <2>1 DEF DeliveryInv, Apart, Queued, InHand, Waiting
  <2>2. CASE \E item \in todo : todo' = todo \ {item} /\ Enqueue(item)
    BY <2>2, QueueMove DEF DeliveryInv
  <2> QED BY <2>1, <2>2
<1>4. /\ Counted'
      /\ \A k \in Keys : delivered[k] > 0 => delivered'[k] > 0
  BY <1>1, <1>2, <1>3, CountFailure DEF DeliveryInv
<1>5. NoLoss'
  BY <1>3, <1>4, KeepsAll DEF DeliveryInv
<1> QED BY <1>3, <1>4, <1>5 DEF DeliveryInv

\* A message was handed to the channel with nothing queued.
LEMMA NowSent ==
  ASSUME Constants, TypeOK, OrderInv, DeliveryInv, NEW item \in todo, SendNow(item)
  PROVE  DeliveryInv'
<1>1. /\ item \in Items /\ item.round <= round
      /\ todo' = todo \ {item} /\ UNCHANGED <<seen, loaded>>
  BY DEF TypeOK, OrderInv, SendNow
<1>2. item.keys \subseteq Queued /\ item.keys \subseteq Keys
  BY <1>1 DEF Queued, Items
<1>3. CASE Attempt(item, TRUE) /\ UNCHANGED <<pending, dropped>>
  <2>1. /\ Apart' /\ Queued' \subseteq Queued /\ item.keys \cap Queued' = {}
        /\ Queued \subseteq Queued' \cup item.keys
    BY <1>1, <1>3, QueueSent DEF DeliveryInv
  <2>2. /\ Counted'
        /\ \A k \in Keys : /\ delivered[k] > 0 => delivered'[k] > 0
                           /\ k \in item.keys => delivered'[k] > 0
    BY <1>1, <1>2, <1>3, <2>1, CountAttempt DEF DeliveryInv
  <2>3. NoLoss'
    <3>1. dropped \subseteq dropped' /\ UNCHANGED <<seen, loaded>>
      BY <1>1, <1>3
    <3>2. \A k \in Queued : k \in Queued' \cup dropped' \/ delivered'[k] > 0
      BY <1>2, <2>1, <2>2
    <3> QED BY <2>2, <3>1, <3>2, KeepsAll DEF DeliveryInv
  <2> QED BY <2>1, <2>2, <2>3 DEF DeliveryInv
<1>4. CASE Attempt(item, FALSE) /\ Enqueue(item)
  <2>1. /\ Apart' /\ Queued' \subseteq Queued
        /\ dropped \subseteq dropped' /\ Queued \subseteq Queued' \cup dropped'
    BY <1>1, <1>4, QueueMove DEF DeliveryInv
  <2>2. /\ Counted'
        /\ \A k \in Keys : delivered[k] > 0 => delivered'[k] > 0
    BY <1>1, <1>2, <1>4, <2>1, CountFailure DEF DeliveryInv
  <2>3. NoLoss'
    BY <1>1, <2>1, <2>2, KeepsAll DEF DeliveryInv
  <2> QED BY <2>1, <2>2, <2>3 DEF DeliveryInv
<1> QED BY <1>3, <1>4 DEF SendNow, KeptFor

\* The new keys of a poll become messages.
LEMMA Announced ==
  ASSUME Constants, TypeOK, OrderInv, DeliveryInv, Announce
  PROVE  DeliveryInv'
<1>1. todo = {} /\ UNCHANGED <<pending, delivered, loaded, dropped, budget>>
  BY DEF Announce, OrderInv
<1>2. CASE New = {}
  BY <1>1, <1>2, QuietStep DEF Announce
<1>3. CASE New # {}
  <2>1. todo' = Messages /\ seen' = seen \cup New
    BY <1>3 DEF Announce
  <2>2. /\ New \subseteq Keys /\ New \cap seen = {}
        /\ \A item \in Messages : item.keys \subseteq New
        /\ \A k \in New : \E item \in Messages : k \in item.keys
        /\ \A x, y \in Messages : x # y => x.keys \cap y.keys = {}
    BY MessagesEffect DEF New
  <2>3. InHand(todo') = New
    BY <2>1, <2>2 DEF InHand
  <2>4. /\ Queued = Waiting(pending) /\ Queued' = New \cup Waiting(pending)
        /\ Waiting(pending) \subseteq seen
    <3>1. Queued = InHand(todo) \cup Waiting(pending) /\ InHand(todo) = {}
      BY <1>1 DEF Queued, InHand, Waiting
    <3>2. Queued' = InHand(todo') \cup Waiting(pending)
      BY <1>1 DEF Queued, InHand, Waiting
    <3> QED BY <2>3, <3>1, <3>2 DEF DeliveryInv, Apart
  <2>5. \A i \in 1 .. Len(pending) : pending[i].keys \subseteq seen
    BY <2>4 DEF Waiting
  <2>6. Apart'
    BY <1>1, <2>1, <2>2, <2>3, <2>4, <2>5 DEF DeliveryInv, Apart
  <2>7. Counted'
    <3>1. Spent' = Spent
      BY <1>1 DEF Spent
    <3> QED BY <1>1, <2>1, <2>2, <2>4, <3>1 DEF DeliveryInv, Counted
  <2>8. NoLoss'
    BY <1>1, <2>1, <2>4 DEF DeliveryInv, NoLoss
  <2> QED BY <2>6, <2>7, <2>8 DEF DeliveryInv
<1> QED BY <1>2, <1>3

\* A crash forgets the queue, and may repeat what the file does not hold.
LEMMA Crashed ==
  ASSUME Constants, TypeOK, DeliveryInv, Crash
  PROVE  DeliveryInv'
<1>1. /\ todo' = {} /\ Len(pending') = 0 /\ UNCHANGED <<delivered, dropped>>
      /\ seen' = loaded'
      /\ budget' = [budget EXCEPT !.crashes = @ - 1]
  BY DEF Crash
<1>2. Spent' = Spent + 1 /\ Spent \in Nat /\ delivered \in [Keys -> Nat]
  <2>1. budget'.crashes = budget.crashes - 1 /\ budget'.replies = budget.replies
    BY <1>1 DEF TypeOK
  <2>2. {budget.crashes, budget.replies, MaxCrashes, MaxLostReplies} \subseteq Int
    BY DEF TypeOK, Constants
  <2>3. Spent' = Spent + 1
    BY <2>1, <2>2 DEF Spent
  <2> QED BY <2>3, SpentType DEF TypeOK
<1>3. InHand(todo') = {} /\ Waiting(pending') = {}
  BY <1>1 DEF InHand, Waiting
<1>4. Apart'
  BY <1>1, <1>3 DEF Apart
<1>5. Counted'
  <2> SUFFICES ASSUME NEW k \in Keys PROVE delivered[k] <= Spent'
    BY <1>1 DEF Counted
  <2>1. delivered[k] <= Spent \/ delivered[k] <= 1 + Spent
    BY DEF DeliveryInv, Counted
  <2> QED BY <1>2, <2>1
<1>6. NoLoss'
  BY <1>1 DEF NoLoss
<1> QED BY <1>4, <1>5, <1>6 DEF DeliveryInv

LEMMA DeliveryInductive ==
  ASSUME Constants
  PROVE  TypeOK /\ OrderInv /\ DeliveryInv /\ [Next \/ Rows]_vars => DeliveryInv'
<1> SUFFICES ASSUME TypeOK, OrderInv, DeliveryInv, [Next \/ Rows]_vars
             PROVE  DeliveryInv'
  OBVIOUS
<1>1. CASE Fetch \/ Save \/ PauseOver \/ Rows \/ UNCHANGED vars
  BY <1>1, QuietStep DEF Fetch, Save, PauseOver, Rows, vars, memory
<1>2. CASE Flush
  <2>1. pending # <<>> /\ UNCHANGED <<seen, todo, loaded, dropped>>
    BY <1>2 DEF Flush, Flushes
  <2>2. CASE Attempt(Head(pending), TRUE) /\ pending' = Tail(pending)
    BY <2>1, <2>2, HeadDelivered
  <2>3. CASE Attempt(Head(pending), FALSE) /\ UNCHANGED pending
    BY <2>1, <2>3, HeadFailed
  <2> QED BY <1>2, <2>2, <2>3 DEF Flush
<1>3. CASE Announce
  BY <1>3, Announced
<1>4. ASSUME NEW item \in todo, SendPaused(item) PROVE DeliveryInv'
  <2>1. /\ todo' = todo \ {item} /\ Enqueue(item)
        /\ UNCHANGED <<seen, loaded, delivered, budget>>
    BY <1>4 DEF SendPaused
  <2>2. /\ Apart' /\ Queued' \subseteq Queued
        /\ dropped \subseteq dropped' /\ Queued \subseteq Queued' \cup dropped'
    BY <2>1, QueueMove DEF DeliveryInv
  <2>3. Counted'
    <3>1. Spent' = Spent
      BY <2>1 DEF Spent
    <3> QED BY <2>1, <2>2, <3>1 DEF DeliveryInv, Counted
  <2>4. NoLoss'
    BY <2>1, <2>2, KeepsAll DEF DeliveryInv
  <2> QED BY <2>2, <2>3, <2>4 DEF DeliveryInv
<1>5. ASSUME NEW item \in todo, SendFlush(item) PROVE DeliveryInv'
  <2>1. pending # <<>> /\ UNCHANGED <<seen, loaded>>
    BY <1>5 DEF SendFlush, QueueFirst
  <2>2. CASE Attempt(Head(pending), TRUE) /\ pending' = Tail(pending)
             /\ UNCHANGED <<todo, dropped>>
    BY <2>1, <2>2, HeadDelivered
  <2>3. CASE Attempt(Head(pending), FALSE) /\ Enqueue(item) /\ todo' = todo \ {item}
    BY <2>1, <2>3, HeadFailed
  <2> QED BY <1>5, <2>2, <2>3 DEF SendFlush
<1>6. ASSUME NEW item \in todo, SendNow(item) PROVE DeliveryInv'
  BY <1>6, NowSent
<1>7. CASE Crash
  BY <1>7, Crashed
<1> QED
  BY <1>1, <1>2, <1>3, <1>4, <1>5, <1>6, <1>7 DEF Next, Step, Send

LEMMA InitDelivery ==
  ASSUME Constants, Init
  PROVE  DeliveryInv
<1>1. /\ todo = {} /\ Len(pending) = 0 /\ seen = {}
      /\ \A k \in Keys : delivered[k] = 0
      /\ Spent = 0
  BY DEF Init, Constants, Spent
<1> QED BY <1>1 DEF DeliveryInv, Apart, Counted, NoLoss, InHand, Waiting

\* No loss (reliability.py:7): what a poll took in is delivered, is queued, or
\* was the oldest message of a full queue, whatever fails; only a crash forgets
\* the queue, and then what the next life knows of is what the file held.
THEOREM NothingLost == ASSUME Constants PROVE Spec => []NoLoss
<1>1. Init => TypeOK /\ OrderInv /\ DeliveryInv
  BY InitOrder, InitDelivery
<1>2. TypeOK /\ OrderInv /\ DeliveryInv /\ [Next \/ Rows]_vars =>
        TypeOK' /\ OrderInv' /\ DeliveryInv'
  BY OrderInductive, DeliveryInductive
<1>3. DeliveryInv => NoLoss
  BY DEF DeliveryInv
<1> QED BY <1>1, <1>2, <1>3, PTL DEF Spec

\* The same alert or incident is not announced twice (notifier.py:6), but once
\* more for every crash and for every answer that was lost.
THEOREM NoRepeats == ASSUME Constants PROVE Spec => []AnnouncedOnce
<1>1. Init => TypeOK /\ OrderInv /\ DeliveryInv
  BY InitOrder, InitDelivery
<1>2. TypeOK /\ OrderInv /\ DeliveryInv /\ [Next \/ Rows]_vars =>
        TypeOK' /\ OrderInv' /\ DeliveryInv'
  BY OrderInductive, DeliveryInductive
<1>3. TypeOK /\ DeliveryInv => AnnouncedOnce
  <2> SUFFICES ASSUME TypeOK, DeliveryInv PROVE AnnouncedOnce
    OBVIOUS
  <2>1. /\ budget.crashes \in Int /\ budget.replies \in Int
        /\ MaxCrashes \in Int /\ MaxLostReplies \in Int
    BY DEF TypeOK, Constants
  <2>2. 1 + Spent = 1 + (MaxCrashes - budget.crashes) + (MaxLostReplies - budget.replies)
    BY <2>1 DEF Spent
  <2>3. \A k \in Keys : delivered[k] <= 1 + Spent
    <3>1. Spent \in Nat /\ \A k \in Keys : delivered[k] \in Nat
      BY SpentType DEF TypeOK
    <3> QED BY <3>1 DEF DeliveryInv, Counted
  <2> QED BY <2>2, <2>3 DEF AnnouncedOnce
<1> QED BY <1>1, <1>2, <1>3, PTL DEF Spec

-----------------------------------------------------------------------------
(* What reaches a human was read from the tables *)

\* The keys the notifier has anything to do with.
Touched == seen \cup batch \cup {k \in Keys : delivered[k] > 0}

\* What an attempt delivers is of its message.
LEMMA AttemptTouches ==
  ASSUME Constants, TypeOK, NEW item \in Items, item.round <= round,
         item.keys \subseteq seen, NEW ok \in BOOLEAN, Attempt(item, ok),
         seen' = seen, batch' = batch
  PROVE  Touched' \subseteq Touched
<1>1. \A k \in Keys : k \notin item.keys => delivered'[k] = delivered[k]
  BY DEF Attempt
<1> QED BY <1>1 DEF Touched

\* A step takes up nothing but what the tables showed when it was taken, and
\* only fetch_events takes up anything (source.py:133).
TakesOnlyRead == Touched' \subseteq Touched \cup alarms

LEMMA ReadsFirst ==
  ASSUME Constants, TypeOK, OrderInv, Apart, [Next \/ Rows]_vars
  PROVE  TakesOnlyRead
<1>1. /\ file \subseteq seen /\ round \in Nat /\ pending \in Seq(Items)
      /\ todo \subseteq Items
  BY DEF TypeOK
<1>2. ASSUME pending # <<>>
      PROVE  /\ Head(pending) \in Items /\ Head(pending).round <= round
             /\ Head(pending).keys \subseteq seen
  <2>1. Head(pending) = pending[1] /\ pending[1] \in Items /\ Len(pending) \in Nat \ {0}
    BY <1>1, <1>2, TailEffect
  <2>2. 1 \in 1 .. Len(pending)
    BY <2>1
  <2>3. pending[1].keys \subseteq seen
    BY <2>2 DEF Apart, Waiting
  <2>4. pending[1].round \in Nat /\ last \in 0 .. round
    BY <2>1 DEF Items, TypeOK
  <2>5. pending[1].round \in last .. round
    BY <2>2 DEF OrderInv, Within
  <2> QED BY <2>1, <2>3, <2>4, <2>5
<1>3. ASSUME NEW item \in todo
      PROVE  item \in Items /\ item.round <= round /\ item.keys \subseteq seen
  BY <1>1, <1>3 DEF OrderInv, Apart, InHand
<1>4. CASE Fetch
  BY <1>4 DEF Fetch, Touched, TakesOnlyRead
<1>5. CASE Flush
  <2>1. pending # <<>> /\ seen' = seen /\ batch' = batch
    BY <1>5 DEF Flush, Flushes
  <2>2. \E ok \in BOOLEAN : Attempt(Head(pending), ok)
    BY <1>5 DEF Flush
  <2> QED BY <1>2, <2>1, <2>2, AttemptTouches DEF TakesOnlyRead
<1>6. CASE Announce
  <2>1. New \subseteq batch /\ seen' \subseteq seen \cup New
    BY <1>6 DEF Announce, New
  <2> QED BY <1>6, <2>1 DEF Announce, Touched, TakesOnlyRead
<1>7. ASSUME NEW item \in todo, SendPaused(item) PROVE TakesOnlyRead
  BY <1>7 DEF SendPaused, Touched, TakesOnlyRead
<1>8. ASSUME NEW item \in todo, SendFlush(item) PROVE TakesOnlyRead
  <2>1. pending # <<>> /\ seen' = seen /\ batch' = batch
    BY <1>8 DEF SendFlush, QueueFirst
  <2>2. \E ok \in BOOLEAN : Attempt(Head(pending), ok)
    BY <1>8 DEF SendFlush
  <2> QED BY <1>2, <2>1, <2>2, AttemptTouches DEF TakesOnlyRead
<1>9. ASSUME NEW item \in todo, SendNow(item) PROVE TakesOnlyRead
  <2>1. seen' = seen /\ batch' = batch
    BY <1>9 DEF SendNow
  <2>2. \E ok \in BOOLEAN : Attempt(item, ok)
    BY <1>9 DEF SendNow
  <2> QED BY <1>3, <2>1, <2>2, AttemptTouches DEF TakesOnlyRead
<1>10. CASE Crash
  BY <1>1, <1>10 DEF Crash, Touched, TakesOnlyRead
<1>11. CASE Save \/ PauseOver \/ Rows \/ UNCHANGED vars
  BY <1>11 DEF Save, PauseOver, Rows, vars, memory, Touched, TakesOnlyRead
<1> QED BY <1>4, <1>5, <1>6, <1>7, <1>8, <1>9, <1>10, <1>11 DEF Next, Step, Send

\* The notifier takes up, remembers and announces nothing that a poll of it did
\* not read, through retries, queues, digests and restarts.
THEOREM OnlyWhatWasRead == ASSUME Constants PROVE Spec => [][TakesOnlyRead]_vars
<1>1. Init => TypeOK /\ OrderInv /\ DeliveryInv
  BY InitOrder, InitDelivery
<1>2. TypeOK /\ OrderInv /\ DeliveryInv /\ [Next \/ Rows]_vars =>
        TypeOK' /\ OrderInv' /\ DeliveryInv'
  BY OrderInductive, DeliveryInductive
<1>3. TypeOK /\ OrderInv /\ DeliveryInv /\ [Next \/ Rows]_vars => [TakesOnlyRead]_vars
  BY ReadsFirst DEF DeliveryInv
<1> QED BY <1>1, <1>2, <1>3, PTL DEF Spec
=============================================================================
