------------------------ MODULE ConformanceRunProofs ------------------------
(***************************************************************************)
(* A captured session, graded offline, gives the report of the live run,   *)
(* for any vehicle, any waits and any number of messages.                  *)
(*                                                                         *)
(* The messages of a run are fed one at a time, so what FeedAll does to a  *)
(* sequence of any length is an induction over the sequence. It is carried *)
(* out through InductiveSet, about a set of numbers.                       *)
(***************************************************************************)
EXTENDS ConformanceRun, FiniteSetTheorems, WellFoundedInduction, TLAPS

----------------------------------------------------------------------------
(* Induction over the natural numbers, and sequences of any values *)

Less == { p \in Nat \X Nat : p[1] < p[2] }

\* A set that holds 0 and, with a number, the next one, holds every number:
\* the smallest number it lacked would have a predecessor in it.
LEMMA InductiveSet ==
  ASSUME NEW S \in SUBSET Nat, 0 \in S, \A n \in S : n + 1 \in S
  PROVE  S = Nat
<1> SUFFICES ASSUME Nat \ S # {} PROVE FALSE
  OBVIOUS
<1>1. IsWellFoundedOn(Less, Nat)
  BY NatLessThanWellFounded DEF OpToRel, Less
<1>2. PICK m \in Nat \ S : \A k \in Nat \ S : ~(<<k, m>> \in Less)
  <2>1. Nat \ S \subseteq Nat
    OBVIOUS
  <2> QED BY <1>1, <2>1, WFMin
<1>3. m # 0 /\ m - 1 \in Nat /\ (m - 1) + 1 = m
  OBVIOUS
<1>4. <<m - 1, m>> \in Less
  BY <1>3 DEF Less
<1>5. m - 1 \in S
  BY <1>2, <1>3, <1>4
<1> QED BY <1>3, <1>5

IsSeq(s) == s \in Seq({ s[k] : k \in DOMAIN s })

\* A sequence over some set is one over its own members.
LEMMA SeqIsSeq ==
  ASSUME NEW S, NEW s \in Seq(S)
  PROVE  IsSeq(s)
<1>1. Len(s) \in Nat /\ DOMAIN s = 1..Len(s) /\ s = [k \in 1..Len(s) |-> s[k]]
  OBVIOUS
<1> QED BY <1>1 DEF IsSeq

\* Two sequences one after the other are a sequence.
LEMMA ConcatIsSeq ==
  ASSUME NEW a, NEW b, IsSeq(a), IsSeq(b)
  PROVE  /\ IsSeq(a \o b)
         /\ Len(a \o b) = Len(a) + Len(b)
         /\ \A k \in 1..(Len(a) + Len(b)) :
              (a \o b)[k] = IF k <= Len(a) THEN a[k] ELSE b[k - Len(a)]
<1> DEFINE S == { a[k] : k \in DOMAIN a } \cup { b[k] : k \in DOMAIN b }
<1>1. a \in Seq(S) /\ b \in Seq(S)
  <2>1. a \in Seq({ a[k] : k \in DOMAIN a }) /\ b \in Seq({ b[k] : k \in DOMAIN b })
    BY DEF IsSeq
  <2> QED BY <2>1
<1> HIDE DEF S
<1>2. a \o b \in Seq(S)
  BY <1>1
<1>3. IsSeq(a \o b)
  BY <1>2, SeqIsSeq
<1> QED BY <1>1, <1>3

\* The length of a sequence is a number.
LEMMA SeqLength ==
  ASSUME NEW s, IsSeq(s)
  PROVE  Len(s) \in Nat /\ DOMAIN s = 1..Len(s)
BY DEF IsSeq

\* Picking the members of a sequence that belong to a set gives a sequence.
LEMMA OnlyIsSeq ==
  ASSUME NEW s, IsSeq(s), NEW S
  PROVE  IsSeq(Only(s, S))
<1> DEFINE at == { k \in DOMAIN s : s[k] \in S }
<1>1. IsFiniteSet(at) /\ Cardinality(at) \in Nat
  <2>1. IsFiniteSet(1..Len(s))
    BY SeqLength, FS_Interval
  <2>2. at \subseteq 1..Len(s)
    BY SeqLength
  <2> QED BY <2>1, <2>2, FS_Subset, FS_CardinalityType
<1> DEFINE e(n) == s[CHOOSE k \in at : Cardinality({ j \in at : j <= k }) = n]
           N == Cardinality(at)
           R == { e(n) : n \in 1..N }
<1>2. Only(s, S) = [n \in 1..N |-> e(n)]
  BY DEF Only
<1>3. N \in Nat
  BY <1>1
<1>4. [n \in 1..N |-> e(n)] \in Seq(R)
  <2> HIDE DEF N, e
  <2> QED BY <1>3
<1> QED BY <1>2, <1>4, SeqIsSeq

----------------------------------------------------------------------------
(* Feeding messages to an observation *)

Fed(f, ob, msgs) ==
  f = [n \in 0..Len(msgs) |-> IF n = 0 THEN ob ELSE Feed(f[n - 1], msgs[n])]

\* The evidence after each message is determined by the one before.
LEMMA FedExists ==
  ASSUME NEW ob, NEW msgs, Len(msgs) \in Nat
  PROVE  \E f : Fed(f, ob, msgs)
<1> DEFINE UpTo(f, N) ==
      f = [n \in 0..N |-> IF n = 0 THEN ob ELSE Feed(f[n - 1], msgs[n])]
    S == { N \in Nat : \E f : UpTo(f, N) }
<1>1. 0 \in S
  <2>1. UpTo([n \in 0..0 |-> ob], 0)
    OBVIOUS
  <2> QED BY <2>1
<1>2. ASSUME NEW N \in S PROVE N + 1 \in S
  <2>1. PICK f : UpTo(f, N)
    OBVIOUS
  <2> DEFINE g == [n \in 0..(N + 1) |-> IF n = N + 1 THEN Feed(f[N], msgs[N + 1]) ELSE f[n]]
  <2>2. ASSUME NEW n \in 0..(N + 1)
        PROVE  g[n] = IF n = 0 THEN ob ELSE Feed(g[n - 1], msgs[n])
    <3>1. CASE n = N + 1
      <4>1. g[n - 1] = f[N] /\ n # 0
        BY <3>1
      <4> QED BY <3>1, <4>1
    <3>2. CASE n \in 0..N
      <4>1. g[n] = f[n] /\ (n # 0 => g[n - 1] = f[n - 1])
        BY <3>2
      <4>2. f[n] = IF n = 0 THEN ob ELSE Feed(f[n - 1], msgs[n])
        BY <2>1, <3>2
      <4> QED BY <4>1, <4>2
    <3> QED BY <3>1, <3>2
  <2>3. UpTo(g, N + 1)
    <3> DEFINE h == [n \in 0..(N + 1) |-> IF n = 0 THEN ob ELSE Feed(g[n - 1], msgs[n])]
    <3>1. \A n \in 0..(N + 1) : g[n] = h[n]
      BY <2>2
    <3>2. g = [n \in 0..(N + 1) |-> g[n]] /\ h = [n \in 0..(N + 1) |-> h[n]]
      OBVIOUS
    <3> HIDE DEF g, h
    <3>3. g = h
      BY <3>1, <3>2
    <3> QED BY <3>3 DEF h
  <2> HIDE DEF g
  <2>4. \E h : UpTo(h, N + 1)
    BY <2>3
  <2>5. N + 1 \in Nat
    OBVIOUS
  <2> QED BY <2>4, <2>5
<1> HIDE DEF S
<1>3. S \in SUBSET Nat
  BY DEF S
<1>4. S = Nat
  BY <1>1, <1>2, <1>3, InductiveSet
<1> QED BY <1>4 DEF S, Fed

\* Whatever follows the rule of feeding ends where FeedAll ends.
LEMMA FedIsFeedAll ==
  ASSUME NEW ob, NEW msgs, Len(msgs) \in Nat, NEW f, f[0] = ob,
         \A n \in 1..Len(msgs) : f[n] = Feed(f[n - 1], msgs[n])
  PROVE  FeedAll(ob, msgs) = f[Len(msgs)]
<1> DEFINE g == CHOOSE h : Fed(h, ob, msgs)
<1>1. Fed(g, ob, msgs)
  BY FedExists
<1>2. FeedAll(ob, msgs) = g[Len(msgs)]
  BY DEF FeedAll, Fed
<1> HIDE DEF g
<1> DEFINE S == { n \in Nat : n <= Len(msgs) => f[n] = g[n] }
<1>3. 0 \in S
  BY <1>1 DEF Fed
<1>4. ASSUME NEW n \in S PROVE n + 1 \in S
  <2> SUFFICES ASSUME n + 1 <= Len(msgs) PROVE f[n + 1] = g[n + 1]
    OBVIOUS
  <2>1. n + 1 \in 1..Len(msgs) /\ (n + 1) - 1 = n /\ n + 1 # 0
    OBVIOUS
  <2>2. f[n] = g[n]
    OBVIOUS
  <2>3. g[n + 1] = Feed(g[n], msgs[n + 1])
    BY <1>1, <2>1 DEF Fed
  <2> QED BY <2>1, <2>2, <2>3
<1> HIDE DEF S
<1>5. S \in SUBSET Nat
  BY DEF S
<1>6. S = Nat
  BY <1>3, <1>4, <1>5, InductiveSet
<1> QED BY <1>2, <1>6 DEF S

\* The evidence at every moment of the feeding.
LEMMA FeedSteps ==
  ASSUME NEW ob, NEW msgs, Len(msgs) \in Nat
  PROVE  \E f : /\ f[0] = ob /\ FeedAll(ob, msgs) = f[Len(msgs)]
                /\ \A n \in 1..Len(msgs) : f[n] = Feed(f[n - 1], msgs[n])
<1>1. PICK f : Fed(f, ob, msgs)
  BY FedExists
<1>2. f[0] = ob /\ \A n \in 1..Len(msgs) : f[n] = Feed(f[n - 1], msgs[n])
  BY <1>1 DEF Fed
<1>3. FeedAll(ob, msgs) = f[Len(msgs)]
  BY <1>2, FedIsFeedAll
<1> QED BY <1>2, <1>3

\* No message, no change.
LEMMA FeedNothing ==
  ASSUME NEW ob
  PROVE  FeedAll(ob, <<>>) = ob
BY FeedSteps

\* Feeding two batches one after the other is feeding them as one.
LEMMA FeedBatches ==
  ASSUME NEW ob, NEW a, NEW b, IsSeq(a), IsSeq(b)
  PROVE  FeedAll(ob, a \o b) = FeedAll(FeedAll(ob, a), b)
<1> DEFINE A == Len(a) B == Len(b) ab == a \o b
<1>1. A \in Nat /\ B \in Nat
  BY SeqLength
<1>2. Len(ab) = A + B
  BY ConcatIsSeq
<1>3. \A k \in 1..(A + B) : ab[k] = IF k <= A THEN a[k] ELSE b[k - A]
  BY ConcatIsSeq
<1>4. PICK f : /\ f[0] = ob /\ FeedAll(ob, a) = f[A]
               /\ \A n \in 1..A : f[n] = Feed(f[n - 1], a[n])
  BY <1>1, FeedSteps
<1> DEFINE middle == f[A]
<1>5. PICK g : /\ g[0] = middle /\ FeedAll(middle, b) = g[B]
               /\ \A n \in 1..B : g[n] = Feed(g[n - 1], b[n])
  <2> HIDE DEF middle
  <2> QED BY <1>1, FeedSteps
<1> DEFINE h == [n \in 0..(A + B) |-> IF n <= A THEN f[n] ELSE g[n - A]]
<1> HIDE DEF A, B, ab
<1>6. h[0] = ob /\ h[A + B] = g[B]
  <2>1. CASE B = 0
    BY <1>1, <1>4, <1>5, <2>1
  <2>2. CASE B # 0
    <3>1. A + B \in 0..(A + B) /\ ~(A + B <= A) /\ (A + B) - A = B /\ 0 \in 0..(A + B) /\ 0 <= A
      BY <1>1, <2>2
    <3> QED BY <3>1, <1>4
  <2> QED BY <2>1, <2>2
<1>7. ASSUME NEW n \in 1..(A + B) PROVE h[n] = Feed(h[n - 1], ab[n])
  <2>1. CASE n <= A
    <3>1. h[n] = f[n] /\ h[n - 1] = f[n - 1] /\ ab[n] = a[n] /\ n \in 1..A
      BY <1>1, <1>3, <2>1
    <3> QED BY <3>1, <1>4
  <2>2. CASE n > A
    <3>1. n - A \in 1..B /\ ab[n] = b[n - A] /\ h[n] = g[n - A]
      BY <1>1, <1>3, <2>2
    <3>2. h[n - 1] = g[(n - A) - 1]
      <4>1. CASE n = A + 1
        <5>1. h[n - 1] = f[A] /\ (n - A) - 1 = 0
          BY <1>1, <4>1
        <5> QED BY <5>1, <1>5
      <4>2. CASE n # A + 1
        <5>1. ~(n - 1 <= A) /\ n - 1 \in 0..(A + B) /\ (n - 1) - A = (n - A) - 1
          BY <1>1, <2>2, <4>2
        <5> QED BY <5>1
      <4> QED BY <4>1, <4>2
    <3> QED BY <3>1, <3>2, <1>5
  <2> QED BY <1>1, <2>1, <2>2
<1> HIDE DEF h
<1>8. FeedAll(ob, ab) = h[Len(ab)]
  <2>1. Len(ab) \in Nat /\ h[0] = ob
    BY <1>1, <1>2, <1>6
  <2>2. \A n \in 1..Len(ab) : h[n] = Feed(h[n - 1], ab[n])
    BY <1>2, <1>7
  <2> QED BY <2>1, <2>2, FedIsFeedAll
<1> QED BY <1>2, <1>4, <1>5, <1>6, <1>8 DEF ab

(* What feeding touches: the evidence, and nothing else of an observation *)

Fields == {"states", "connections", "factsheets", "visualizations",
           "malformed", "commands", "others"}

Cleared(ob) ==
  [ob EXCEPT !.states = <<>>, !.connections = <<>>, !.factsheets = <<>>,
             !.visualizations = <<>>, !.malformed = 0, !.commands = 0, !.others = 0]

Noted(ob, k, x) == [ob EXCEPT ![k] = x]

\* One message adds to one field of the evidence, or to none.
LEMMA FeedOne ==
  ASSUME NEW ob, NEW m
  PROVE  \/ Feed(ob, m) = ob
         \/ \E c \in Fields : \E x : Feed(ob, m) = [ob EXCEPT ![c] = x]
<1>1. CASE m.topic \in DOMAIN Bucket
  <2>1. Feed(ob, m) = [ob EXCEPT ![Bucket[m.topic]] = Append(ob[Bucket[m.topic]], m.body)]
    BY <1>1 DEF Feed
  <2>2. Bucket[m.topic] \in Fields
    BY <1>1 DEF Bucket, Fields
  <2> QED BY <2>1, <2>2
<1>2. CASE m.topic \notin DOMAIN Bucket /\ m.topic \in DOMAIN Counter
  <2>1. Feed(ob, m) = [ob EXCEPT ![Counter[m.topic]] = ob[Counter[m.topic]] + 1]
    BY <1>2 DEF Feed
  <2>2. Counter[m.topic] \in Fields
    BY <1>2 DEF Counter, Fields
  <2> QED BY <2>1, <2>2
<1>3. CASE m.topic \notin DOMAIN Bucket /\ m.topic \notin DOMAIN Counter
  BY <1>3 DEF Feed
<1> QED BY <1>1, <1>2, <1>3

\* Feeding commutes with noting anything that is not evidence.
LEMMA FeedOneCommutes ==
  ASSUME NEW ob, NEW m, NEW k, k \notin Fields, NEW x
  PROVE  Feed(Noted(ob, k, x), m) = Noted(Feed(ob, m), k, x)
<1> USE DEF Noted
<1> DEFINE nob == [ob EXCEPT ![k] = x]
<1>1. CASE m.topic \in DOMAIN Bucket
  <2> DEFINE c == Bucket[m.topic]
  <2>1. c \in Fields /\ c # k
    BY <1>1 DEF Bucket, Fields
  <2>2. Feed(ob, m) = [ob EXCEPT ![c] = Append(ob[c], m.body)]
    BY <1>1 DEF Feed
  <2>3. Feed(nob, m) = [nob EXCEPT ![c] = Append(nob[c], m.body)]
    BY <1>1 DEF Feed
  <2> HIDE DEF c
  <2>4. c \in DOMAIN ob => nob[c] = ob[c]
    BY <2>1
  <2> QED BY <2>1, <2>2, <2>3, <2>4
<1>2. CASE m.topic \notin DOMAIN Bucket /\ m.topic \in DOMAIN Counter
  <2> DEFINE c == Counter[m.topic]
  <2>1. c \in Fields /\ c # k
    BY <1>2 DEF Counter, Fields
  <2>2. Feed(ob, m) = [ob EXCEPT ![c] = ob[c] + 1]
    BY <1>2 DEF Feed
  <2>3. Feed(nob, m) = [nob EXCEPT ![c] = nob[c] + 1]
    BY <1>2 DEF Feed
  <2> HIDE DEF c
  <2>4. c \in DOMAIN ob => nob[c] = ob[c]
    BY <2>1
  <2> QED BY <2>1, <2>2, <2>3, <2>4
<1>3. CASE m.topic \notin DOMAIN Bucket /\ m.topic \notin DOMAIN Counter
  BY <1>3 DEF Feed
<1> QED BY <1>1, <1>2, <1>3

LEMMA FeedCommutes ==
  ASSUME NEW ob, NEW msgs, IsSeq(msgs), NEW k, k \notin Fields, NEW x
  PROVE  FeedAll(Noted(ob, k, x), msgs) = Noted(FeedAll(ob, msgs), k, x)
<1>1. Len(msgs) \in Nat
  BY SeqLength
<1>2. PICK f : /\ f[0] = ob /\ FeedAll(ob, msgs) = f[Len(msgs)]
               /\ \A n \in 1..Len(msgs) : f[n] = Feed(f[n - 1], msgs[n])
  BY <1>1, FeedSteps
<1> DEFINE N == Len(msgs)
           g == [n \in 0..N |-> Noted(f[n], k, x)]
           nob == Noted(ob, k, x)
<1>3. g[0] = nob
  BY <1>1, <1>2
<1>4. ASSUME NEW n \in 1..N PROVE g[n] = Feed(g[n - 1], msgs[n])
  <2>1. g[n] = Noted(f[n], k, x) /\ g[n - 1] = Noted(f[n - 1], k, x)
    BY <1>1
  <2>2. f[n] = Feed(f[n - 1], msgs[n])
    BY <1>2
  <2> HIDE DEF g
  <2> QED BY <2>1, <2>2, FeedOneCommutes
<1>5. g[N] = Noted(f[N], k, x)
  BY <1>1
<1> HIDE DEF g, nob
<1>6. FeedAll(nob, msgs) = g[N]
  BY <1>1, <1>3, <1>4, FedIsFeedAll
<1> QED BY <1>2, <1>5, <1>6 DEF nob

\* Without its evidence, an observation is the same before and after.
LEMMA FeedClears ==
  ASSUME NEW ob, NEW msgs, IsSeq(msgs)
  PROVE  Cleared(FeedAll(ob, msgs)) = Cleared(ob)
<1>1. Len(msgs) \in Nat
  BY SeqLength
<1>2. PICK f : /\ f[0] = ob /\ FeedAll(ob, msgs) = f[Len(msgs)]
               /\ \A n \in 1..Len(msgs) : f[n] = Feed(f[n - 1], msgs[n])
  BY <1>1, FeedSteps
<1> DEFINE N == Len(msgs)
           S == { n \in Nat : n <= N => Cleared(f[n]) = Cleared(ob) }
<1>3. 0 \in S
  BY <1>2
<1>4. ASSUME NEW n \in S PROVE n + 1 \in S
  <2> SUFFICES ASSUME n + 1 <= N PROVE Cleared(f[n + 1]) = Cleared(ob)
    OBVIOUS
  <2>1. n + 1 \in 1..N /\ (n + 1) - 1 = n /\ Cleared(f[n]) = Cleared(ob)
    BY <1>1
  <2>2. f[n + 1] = Feed(f[n], msgs[n + 1])
    BY <1>2, <2>1
  <2>3. ASSUME NEW c \in Fields, NEW y, NEW z PROVE Cleared([y EXCEPT ![c] = z]) = Cleared(y)
    BY DEF Cleared, Fields
  <2>4. \A p, m : Cleared(Feed(p, m)) = Cleared(p)
    <3> SUFFICES ASSUME NEW p, NEW m PROVE Cleared(Feed(p, m)) = Cleared(p)
      OBVIOUS
    <3>1. CASE Feed(p, m) = p
      BY <3>1
    <3>2. CASE \E c \in Fields : \E y : Feed(p, m) = [p EXCEPT ![c] = y]
      BY <2>3, <3>2
    <3> QED BY <3>1, <3>2, FeedOne
  <2> QED BY <2>1, <2>2, <2>4
<1> HIDE DEF S
<1>5. S \in SUBSET Nat
  BY DEF S
<1>6. S = Nat
  BY <1>3, <1>4, <1>5, InductiveSet
<1> QED BY <1>1, <1>2, <1>6 DEF S

\* Clearing the evidence leaves a note of anything else in place.
LEMMA ClearedNoted ==
  ASSUME NEW ob, NEW k, k \notin Fields, NEW x
  PROVE  Cleared(Noted(ob, k, x)) = Noted(Cleared(ob), k, x)
BY DEF Cleared, Fields, Noted

----------------------------------------------------------------------------
(* The run *)

(* What a replay relies on: the tester has kept, in their order, all the   *)
(* messages its evidence was built from, so that feeding them to a cleared *)
(* observation rebuilds it; and nothing is added after the scoring.        *)
Captured ==
  /\ IsSeq(t.inbox) /\ IsSeq(t.consumed)
  /\ Replay(o, t.consumed) = o
  /\ t = [step |-> t.step, left |-> t.left, inbox |-> t.inbox, consumed |-> t.consumed]
  /\ t.step \in 1..14 /\ (t.step = 1 => t.consumed = <<>>)
  /\ Scored => t.step = 14 /\ report = RunChecks(o)

\* The steps of a run, with their places.
LEMMA StepsAre ==
  /\ Steps[1] = "off" /\ Steps[2] = "discover" /\ Steps[3] = "observe"
  /\ \A k \in 4..12 : Steps[k] \in ToSet(Probes)
  /\ Steps[13] = "retain" /\ Steps[14] = "scored" /\ DOMAIN Steps = 1..14
  /\ {"off", "discover", "observe", "retain", "scored"} \cap ToSet(Probes) = {}
<1>1. Steps[1] = "off" /\ Steps[2] = "discover" /\ Steps[3] = "observe"
  BY DEF Steps, Probes
<1>2. Steps[13] = "retain" /\ Steps[14] = "scored" /\ DOMAIN Steps = 1..14
  BY DEF Steps, Probes
<1>3. DOMAIN Probes = 1..9 /\ \A k \in 4..12 : Steps[k] = Probes[k - 3]
  BY DEF Steps, Probes
<1>4. \A k \in 4..12 : Steps[k] \in ToSet(Probes)
  BY <1>3 DEF ToSet
<1>5. {"off", "discover", "observe", "retain", "scored"} \cap ToSet(Probes) = {}
  BY DEF Probes, ToSet
<1> QED BY <1>1, <1>2, <1>4, <1>5

\* The place of a step is where it stands.
LEMMA PlacesAre ==
  /\ IndexOf("discover") = 2 /\ IndexOf("observe") = 3
  /\ IndexOf("retain") = 13 /\ IndexOf("scored") = 14
  /\ IndexOf("instant_cancelOrder") \in 2..12
<1>1. ASSUME NEW k \in 1..14 PROVE
         /\ Steps[k] = "discover" <=> k = 2
         /\ Steps[k] = "observe" <=> k = 3
         /\ Steps[k] = "retain" <=> k = 13
         /\ Steps[k] = "scored" <=> k = 14
  BY StepsAre
<1>2. Steps[11] = "instant_cancelOrder"
  BY DEF Steps, Probes
<1> QED BY <1>1, <1>2, StepsAre DEF IndexOf

\* What is published is a sequence.
LEMMA PublishedIsSeq ==
  /\ IsSeq(Announce) /\ IsSeq(Factsheet) /\ IsSeq(<<>>)
  /\ \A w : IsSeq(StateOut(w))
  /\ \A w, m : IsSeq(Instant(w, m)[2])
<1>1. IsSeq(<<>>) /\ \A x : IsSeq(<<x>>)
  BY DEF IsSeq
<1>2. IsSeq(Announce) /\ IsSeq(Factsheet) /\ IsSeq(Visualization)
  BY <1>1, Zenon DEF Announce, Factsheet, Visualization
<1>3. ASSUME NEW w PROVE IsSeq(StateOut(w))
  <2> DEFINE a == <<Published(IF defect = "bad_topic_scheme" THEN "offtopic" ELSE "state",
                      defect = "retained_state", StateBody(NextHeader(w)))>>
             b == IF defect = "malformed_json" THEN <<Published("junk", FALSE, "junk")>> ELSE <<>>
             c == IF defect = "extra_subtopic" THEN <<Published("telemetry", FALSE, "any")>>
                  ELSE <<>>
  <2>1. IsSeq(a) /\ IsSeq(b) /\ IsSeq(c)
    BY <1>1, Zenon
  <2>2. StateOut(w) = <<>> \/ StateOut(w) = a \o b \o c \o Visualization
    BY DEF StateOut
  <2> HIDE DEF a, b, c
  <2>3. IsSeq(a \o b)
    BY <2>1, ConcatIsSeq
  <2>4. IsSeq(a \o b \o c)
    BY <2>1, <2>3, ConcatIsSeq
  <2>5. IsSeq(a \o b \o c \o Visualization)
    BY <1>2, <2>4, ConcatIsSeq
  <2> QED BY <1>1, <2>2, <2>5
<1>4. ASSUME NEW w, NEW m PROVE IsSeq(Instant(w, m)[2])
  <2>1. Instant(w, m)[2] \in {<<>>, Factsheet}
        \/ \E x : Instant(w, m)[2] = StateOut(x)
    BY DEF Instant
  <2> QED BY <1>1, <1>2, <1>3, <2>1
<1> QED BY <1>1, <1>2, <1>3, <1>4

\* What a subscription brings back is a sequence.
LEMMA ReplayedIsSeq == \A filter : IsSeq(Replayed(filter))
<1> TAKE filter
<1> DEFINE kept == <<retained["connection"], retained["state"], retained["factsheet"]>>
           S == { m \in ToSet(kept) : m.topic # "none" /\ filter \in {"#", m.topic} }
<1>1. kept \in Seq({retained["connection"], retained["state"], retained["factsheet"]})
  OBVIOUS
<1>2. IsSeq(kept)
  BY <1>1, SeqIsSeq
<1>3. Replayed(filter) = Only(kept, S)
  BY DEF Replayed
<1> HIDE DEF kept, S
<1> QED BY <1>2, <1>3, OnlyIsSeq

----------------------------------------------------------------------------
(* What a replay rebuilds *)

\* A replay that has rebuilt the evidence rebuilds it with more messages.
LEMMA ReplayExtends ==
  ASSUME NEW ob, NEW c, NEW i, IsSeq(c), IsSeq(i), Replay(ob, c) = ob
  PROVE  Replay(FeedAll(ob, i), c \o i) = FeedAll(ob, i)
<1>1. \A y, msgs : Replay(y, msgs) = FeedAll(Cleared(y), msgs)
  BY DEF Replay, Cleared
<1>2. Replay(FeedAll(ob, i), c \o i) = FeedAll(Cleared(ob), c \o i)
  BY <1>1, FeedClears
<1>3. FeedAll(Cleared(ob), c \o i) = FeedAll(FeedAll(Cleared(ob), c), i)
  BY FeedBatches
<1> QED BY <1>1, <1>2, <1>3

\* What is noted beside the evidence is there after the replay.
LEMMA ReplayNoted ==
  ASSUME NEW ob, NEW c, IsSeq(c), Replay(ob, c) = ob, NEW k, k \notin Fields, NEW x
  PROVE  Replay(Noted(ob, k, x), c) = Noted(ob, k, x)
<1>1. \A y, msgs : Replay(y, msgs) = FeedAll(Cleared(y), msgs)
  BY DEF Replay, Cleared
<1>2. Cleared(Noted(ob, k, x)) = Noted(Cleared(ob), k, x)
  BY ClearedNoted
<1>3. FeedAll(Noted(Cleared(ob), k, x), c) = Noted(FeedAll(Cleared(ob), c), k, x)
  BY FeedCommutes
<1> QED BY <1>1, <1>2, <1>3

\* A new observation has nothing to rebuild.
LEMMA CapturedInit == RunInit => Captured
<1> SUFFICES ASSUME RunInit PROVE Captured
  OBVIOUS
<1>1. PICK p \in Vehicles :
        /\ t = [step |-> 1, left |-> IF p[2] THEN 1 ELSE 0, inbox |-> <<>>, consumed |-> <<>>]
        /\ o = NewObservation(p[3]) /\ report = NoReport
  BY DEF RunInit
<1>2. Cleared(o) = o
  <2>1. /\ o.states = <<>> /\ o.connections = <<>> /\ o.factsheets = <<>>
        /\ o.visualizations = <<>> /\ o.malformed = 0 /\ o.commands = 0 /\ o.others = 0
        /\ o = [k \in DOMAIN o |-> o[k]]
    BY <1>1 DEF NewObservation
  <2>2. \A k : Noted(o, k, o[k]) = o
    BY <2>1 DEF Noted
  <2>3. /\ [o EXCEPT !.states = <<>>] = o /\ [o EXCEPT !.connections = <<>>] = o
        /\ [o EXCEPT !.factsheets = <<>>] = o /\ [o EXCEPT !.visualizations = <<>>] = o
        /\ [o EXCEPT !.malformed = 0] = o /\ [o EXCEPT !.commands = 0] = o
        /\ [o EXCEPT !.others = 0] = o
    BY <2>1, <2>2 DEF Noted
  <2> QED BY <2>3 DEF Cleared
<1>3. Replay(o, <<>>) = o
  BY <1>2, FeedNothing DEF Replay, Cleared
<1>4. IsSeq(<<>>)
  BY PublishedIsSeq
<1> QED BY <1>1, <1>3, <1>4 DEF Captured, Scored

\* A delivery adds to what is received, not to what is consumed.
LEMMA DeliverKeeps ==
  ASSUME Captured, NEW out, IsSeq(out), NEW left, Deliver(out, left), UNCHANGED <<o, report>>
  PROVE  Captured'
<1> DEFINE got == [k \in DOMAIN out |-> [out[k] EXCEPT !.retain = FALSE]]
           inbox == IF Phase = "off" THEN <<>> ELSE t.inbox \o got
<1>1. t' = [t EXCEPT !.left = left, !.inbox = inbox]
  BY DEF Deliver
<1>2. IsSeq(got)
  <2>1. DOMAIN out = 1..Len(out) /\ Len(out) \in Nat
    BY SeqLength
  <2> DEFINE e(k) == [out[k] EXCEPT !.retain = FALSE]
             S == { e(k) : k \in 1..Len(out) }
  <2>2. got = [k \in 1..Len(out) |-> e(k)]
    BY <2>1
  <2>3. [k \in 1..Len(out) |-> e(k)] \in Seq(S)
    <3> HIDE DEF e
    <3> QED BY <2>1
  <2> QED BY <2>2, <2>3, SeqIsSeq
<1> HIDE DEF got
<1>3. IsSeq(inbox)
  BY <1>2, ConcatIsSeq, PublishedIsSeq DEF Captured
<1> HIDE DEF inbox
<1>4. t' = [step |-> t.step, left |-> left, inbox |-> inbox, consumed |-> t.consumed]
  BY <1>1 DEF Captured
<1> QED BY <1>3, <1>4 DEF Captured, Scored

LEMMA TickCaptured == Captured /\ Tick => Captured'
<1> SUFFICES ASSUME Captured, Tick PROVE Captured'
  OBVIOUS
<1>1. PICK w : /\ Deliver((IF v.ticks = 0 THEN Announce ELSE <<>>) \o StateOut(w), t.left - 1)
               /\ UNCHANGED <<o, report>>
  BY DEF Tick
<1>2. IsSeq((IF v.ticks = 0 THEN Announce ELSE <<>>) \o StateOut(w))
  BY PublishedIsSeq, ConcatIsSeq
<1> QED BY <1>1, <1>2, DeliverKeeps

LEMMA HandleCaptured == Captured /\ Handle => Captured'
<1> SUFFICES ASSUME Captured, Handle PROVE Captured'
  OBVIOUS
<1>1. CASE UNCHANGED <<t, o, report>>
  BY <1>1 DEF Captured, Scored
<1>2. CASE \E w, m : Deliver(Instant(w, m)[2], t.left) /\ UNCHANGED <<o, report>>
  BY <1>2, PublishedIsSeq, DeliverKeeps
<1> QED BY <1>1, <1>2 DEF Handle

LEMMA RedispatchCaptured == Captured /\ Redispatch => Captured'
<1> SUFFICES ASSUME Captured, Redispatch PROVE Captured'
  OBVIOUS
<1>1. PICK c : t' = [t EXCEPT !.inbox = Append(t.inbox, c)] /\ UNCHANGED <<o, report>>
  BY DEF Redispatch
<1>2. IsSeq(Append(t.inbox, c))
  <2> DEFINE S == { t.inbox[k] : k \in DOMAIN t.inbox } \cup {c}
  <2>1. t.inbox \in Seq(S)
    BY DEF Captured, IsSeq
  <2> HIDE DEF S
  <2>2. c \in S
    BY DEF S
  <2>3. Append(t.inbox, c) \in Seq(S)
    BY <2>1, <2>2
  <2> QED BY <2>3, SeqIsSeq
<1>3. t' = [step |-> t.step, left |-> t.left, inbox |-> Append(t.inbox, c),
            consumed |-> t.consumed]
  BY <1>1 DEF Captured
<1> QED BY <1>1, <1>2, <1>3 DEF Captured, Scored

\* A step that is not the last one has no report yet.
LEMMA NoReportYet ==
  ASSUME Captured, Phase # "scored"
  PROVE  ~Scored /\ t.step # 14
BY StepsAre DEF Captured, Phase

LEMMA DiscoverCaptured == Captured /\ Discover => Captured'
<1> SUFFICES ASSUME Captured, Discover PROVE Captured'
  OBVIOUS
<1>1. ~Scored /\ t.step = 1
  <2>1. Phase = "off"
    BY DEF Discover
  <2> QED BY <2>1, NoReportYet, StepsAre DEF Captured, Phase
<1> DEFINE r == Replayed("connection") \o Replayed("state") \o Replayed("factsheet")
                \o Replayed("visualization") \o Replayed("#")
<1>2. IsSeq(r)
  BY ReplayedIsSeq, ConcatIsSeq
<1>3. \E left : t' = [step |-> 2, left |-> left, inbox |-> r, consumed |-> <<>>]
  BY PlacesAre DEF Discover, Wait
<1> HIDE DEF r
<1>4. IsSeq(<<>>)
  BY PublishedIsSeq
<1> QED BY <1>1, <1>2, <1>3, <1>4 DEF Captured, Scored, Discover

\* When a wait is over, what was received is evidence and is consumed.
LEMMA DrainCaptures ==
  ASSUME Captured
  PROVE  IsSeq(Consumed) /\ Replay(Evidence, Consumed) = Evidence
BY ConcatIsSeq, ReplayExtends DEF Captured, Consumed, Evidence

\* A wait that consumes what it drained and notes something beside it.
LEMMA WaitCaptures ==
  ASSUME NEW step \in 2..13, NEW inbox, NEW consumed, IsSeq(inbox), IsSeq(consumed),
         Wait(step, inbox, consumed), Replay(o', consumed) = o', ~Scored, report' = report
  PROVE  Captured'
<1>1. \E left : t' = [step |-> step, left |-> left, inbox |-> inbox, consumed |-> consumed]
  BY DEF Wait
<1> QED BY <1>1 DEF Captured, Scored

LEMMA ObserveCaptured == Captured /\ Observe => Captured'
<1> SUFFICES ASSUME Captured, Observe PROVE Captured'
  OBVIOUS
<1>1. Phase # "scored" /\ o' = Evidence /\ Wait(3, <<>>, Consumed) /\ report' = report
  BY PlacesAre DEF Observe
<1>2. ~Scored /\ IsSeq(<<>>)
  BY <1>1, NoReportYet, PublishedIsSeq
<1> QED BY <1>1, <1>2, DrainCaptures, WaitCaptures

\* A probe is sent in a step of its own, before the retain probe.
LEMMA ProbeStep ==
  ASSUME Captured, Phase \in {"observe"} \cup ToSet(Probes)
  PROVE  ~Scored /\ NextProbe(Evidence) \in 2..13
<1>1. t.step \in 3..12 /\ Phase # "scored"
  BY StepsAre DEF Captured, Phase
<1> QED BY <1>1, NoReportYet, PlacesAre DEF NextProbe

LEMMA ProbeCaptured == Captured /\ Probe => Captured'
<1> SUFFICES ASSUME Captured, Probe PROVE Captured'
  OBVIOUS
<1> DEFINE next == NextProbe(Evidence)
           c == Command(ProbeMessage(Steps[next]))
<1>1. PICK x : /\ o' = [Evidence EXCEPT !.probes = x]
               /\ Wait(next, <<c>>, Consumed) /\ report' = report
  BY DEF Probe
<1>2. ~Scored /\ next \in 2..13
  BY ProbeStep DEF Probe
<1>3. IsSeq(<<c>>)
  <2> HIDE DEF c
  <2> QED BY DEF IsSeq
<1>4. o' = Noted(Evidence, "probes", x)
  BY <1>1 DEF Noted
<1>5. Replay(o', Consumed) = o'
  BY <1>4, DrainCaptures, ReplayNoted DEF Fields
<1> HIDE DEF next, c
<1> QED BY <1>1, <1>2, <1>3, <1>5, DrainCaptures, WaitCaptures

LEMMA RetainProbeCaptured == Captured /\ RetainProbe => Captured'
<1> SUFFICES ASSUME Captured, RetainProbe PROVE Captured'
  OBVIOUS
<1> DEFINE r == IF Heard(Evidence)
                THEN Replayed("connection") \o Replayed("factsheet") \o Replayed("state")
                ELSE <<>>
           x == Heard(Evidence)
<1>1. /\ o' = Noted(Evidence, "retainProbed", x)
      /\ Wait(13, r, Consumed) /\ report' = report
  BY PlacesAre DEF RetainProbe, Noted
<1>2. ~Scored
  BY ProbeStep DEF RetainProbe
<1>3. IsSeq(r)
  BY ReplayedIsSeq, ConcatIsSeq, PublishedIsSeq
<1> HIDE DEF r, x
<1>4. Replay(o', Consumed) = o'
  BY <1>1, DrainCaptures, ReplayNoted DEF Fields
<1> QED BY <1>1, <1>2, <1>3, <1>4, DrainCaptures, WaitCaptures

LEMMA ScoreRunCaptured == Captured /\ ScoreRun => Captured'
<1> SUFFICES ASSUME Captured, ScoreRun PROVE Captured'
  OBVIOUS
<1> DEFINE live == Live(t.inbox)
           consumed == t.consumed \o live
           ob == FeedAll(o, live)
<1>1. PICK x : \E y :
        /\ o' = [ob EXCEPT !.retain = x, !.offtopic = y]
        /\ t' = [step |-> 14, left |-> 0, inbox |-> <<>>, consumed |-> consumed]
        /\ report' \in {RunChecks(o'), NoReport}
  BY PlacesAre DEF ScoreRun
<1>2. IsSeq(live)
  BY OnlyIsSeq DEF Live, Captured
<1>3. IsSeq(consumed)
  BY <1>2, ConcatIsSeq DEF Captured
<1>4. Replay(ob, consumed) = ob
  BY <1>2, ReplayExtends DEF Captured
<1> HIDE DEF live, consumed, ob
<1>5. PICK y : o' = Noted(Noted(ob, "retain", x), "offtopic", y)
  BY <1>1 DEF Noted
<1>6. Replay(o', consumed) = o'
  <2>1. Replay(Noted(ob, "retain", x), consumed) = Noted(ob, "retain", x)
    BY <1>3, <1>4, ReplayNoted DEF Fields
  <2> DEFINE z == Noted(ob, "retain", x)
  <2> HIDE DEF z
  <2>2. Replay(z, consumed) = z /\ o' = Noted(z, "offtopic", y)
    BY <1>5, <2>1 DEF z
  <2> QED BY <1>3, <2>2, ReplayNoted DEF Fields
<1>7. IsSeq(<<>>)
  BY PublishedIsSeq
<1> QED BY <1>1, <1>3, <1>6, <1>7 DEF Captured, Scored

\* At every moment of a run, feeding what the tester has consumed to an
\* observation without evidence gives the observation it has, whatever the
\* vehicle publishes, answers late or repeats.
\* src: capture.build, capture.replay, Collector.feed_all
THEOREM RunIsCaptured == RunSpec => []Captured
<1>1. Captured /\ [RunNext]_runVars => Captured'
  <2> SUFFICES ASSUME Captured, [RunNext]_runVars PROVE Captured'
    OBVIOUS
  <2>1. CASE UNCHANGED runVars
    BY <2>1 DEF runVars, Captured, Scored
  <2>2. CASE RunNext
    BY <2>2, TickCaptured, HandleCaptured, RedispatchCaptured, DiscoverCaptured,
       ObserveCaptured, ProbeCaptured, RetainProbeCaptured, ScoreRunCaptured DEF RunNext
  <2> QED BY <2>1, <2>2
<1> QED BY <1>1, CapturedInit, PTL DEF RunSpec

\* A captured session graded offline gives the report of the live run, for
\* every vehicle and every length of its waits.
\* src: capture.build, capture.replay, score_checks
THEOREM ReplayGivesTheReport == RunSpec => []ReplayReproducesReport
<1>1. Captured => ReplayReproducesReport
  BY DEF Captured, ReplayReproducesReport
<1> QED BY <1>1, RunIsCaptured, PTL

=============================================================================
