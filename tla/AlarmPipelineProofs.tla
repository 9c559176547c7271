------------------------- MODULE AlarmPipelineProofs -------------------------
(* Theorems about IncidentDetector, for any number of robots, any settings   *)
(* and any number of restarts, failed requests and changes of the settings;  *)
(* then about the pipeline: its detector implements IncidentDetector, and    *)
(* its notifier, among the rows that detector, bridge and operators write,   *)
(* implements Notifier, so that what is proved of the two holds of it.       *)
EXTENDS AlarmPipeline, FiniteSetTheorems, TLAPS

\* What the engine keeps of a robot.
Records == [open : Nat, recent : Nat, age : 0 .. Cap, bad : 0 .. Cap,
            cond : Bad \cup {"none"}, clear : 0 .. Cap, missing : 0 .. Cap]

LEMMA CapPositive == Cap \in Nat /\ Cap >= 1
BY DetectorAssumption

LEMMA SetOpen ==
  ASSUME NEW e \in Records, NEW open \in Nat
  PROVE  [e EXCEPT !.open = open] \in Records
BY DEF Records

LEMMA SetRecent ==
  ASSUME NEW e \in Records, NEW recent \in Nat, NEW age \in 0 .. Cap
  PROVE  [e EXCEPT !.recent = recent, !.age = age] \in Records
BY DEF Records

\* A record whose rows and counters are set to values of their type.
LEMMA SetRows ==
  ASSUME NEW e \in Records, NEW open \in Nat, NEW recent \in Nat,
         NEW age \in 0 .. Cap, NEW clear \in 0 .. Cap
  PROVE  /\ [e EXCEPT !.open = open, !.recent = recent, !.age = age] \in Records
         /\ [e EXCEPT !.recent = recent, !.open = open, !.age = age,
                      !.clear = clear] \in Records
BY DEF Records

LEMMA UpType ==
  ASSUME NEW n \in 0 .. Cap
  PROVE  Up(n) \in 0 .. Cap
BY CapPositive DEF Up

LEMMA BlankType == Blank \in Records
BY CapPositive DEF Blank, Records

\* The counters keep their type, and the rows the record names stay.
LEMMA CountedType ==
  ASSUME NEW e \in Records, NEW s \in Statuses
  PROVE  /\ Counted(Older(e), s) \in Records
         /\ Counted(Older(e), s).open = e.open
         /\ Counted(Older(e), s).recent = e.recent
<1> DEFINE o == Older(e)
<1>1. o \in Records /\ o.open = e.open /\ o.recent = e.recent
  BY UpType DEF Older, Records
<1>2. 0 \in 0 .. Cap /\ 1 \in 0 .. Cap
  BY CapPositive
<1>3. Up(o.bad) \in 0 .. Cap /\ Up(o.clear) \in 0 .. Cap /\ Up(o.missing) \in 0 .. Cap
  BY <1>1, UpType DEF Records
<1> HIDE DEF o
<1>4. /\ Counted(o, s) \in Records
      /\ Counted(o, s).open = o.open
      /\ Counted(o, s).recent = o.recent
  <2>1. CASE s \in Bad
    BY <2>1, <1>1, <1>2, <1>3 DEF Counted, Records, MissingWhenSeen, Bad
  <2>2. CASE s = "ok"
    BY <2>2, <1>1, <1>2, <1>3 DEF Counted, Records, MissingWhenSeen, Bad
  <2>3. CASE s = "absent"
    BY <2>3, <1>1, <1>2, <1>3 DEF Counted, Records, MissingWhenSeen, Bad
  <2> QED BY <2>1, <2>2, <2>3 DEF Statuses
<1> QED BY <1>1, <1>4 DEF o

\* One request of the sink.
Request(r, id, op, state) == [src |-> r, id |-> id, op |-> op, state |-> state]

\* What one poll does to a robot's record, and the request it causes.
LEMMA PollCases ==
  ASSUME TypeOK, NEW r \in Robots
  PROVE  /\ After(r) \in Records
         /\ After(r).recent \in {0, eng[r].recent, eng[r].open}
         /\ \/ /\ eng[r].open = 0 /\ eng[r].recent # 0 /\ ~Fresh(r)
               /\ After(r).open = eng[r].recent
               /\ Emitted(r) = {Request(r, eng[r].recent, "patch", "Open")}
            \/ /\ eng[r].open = 0 /\ Fresh(r)
               /\ After(r).open = Len(incidents[r]) + 1
               /\ Emitted(r) = {Request(r, Len(incidents[r]) + 1, "open", "Open")}
            \/ /\ eng[r].open # 0 /\ ~Fresh(r)
               /\ After(r).open = 0
               /\ Emitted(r) = {Request(r, eng[r].open, "patch", "Resolved")}
            \/ /\ ~Fresh(r)
               /\ After(r).open = eng[r].open
               /\ Emitted(r) = {}
<1> DEFINE e == Now(r)
           s == robot[r]
<1>1. e \in Records /\ e.open = eng[r].open /\ e.recent = eng[r].recent
  BY CountedType DEF TypeOK, Now, Records
<1>2. s \in Statuses /\ Len(incidents[r]) \in Nat
  BY DEF TypeOK
<1>3. ASSUME NEW x \in Records
      PROVE  /\ Expired(x) \in Records
             /\ Expired(x).open = x.open
             /\ Expired(x).recent \in {0, x.recent}
  <2>1. 0 \in 0 .. Cap /\ 0 \in Nat
    BY CapPositive
  <2>2. CASE Expired(x) = x
    BY <1>3, <2>2
  <2>3. CASE Expired(x) = [x EXCEPT !.recent = 0, !.age = 0]
    <3>1. Expired(x) \in Records
      BY <2>1, <2>3, SetRecent
    <3>2. Expired(x).open = x.open /\ Expired(x).recent = 0
      BY <2>3 DEF Records
    <3> QED BY <3>1, <3>2
  <2> QED BY <2>2, <2>3 DEF Expired
<1> DEFINE y == CASE Reopens(e, s) ->
                       [e EXCEPT !.open = e.recent, !.recent = 0, !.age = 0]
                  [] Opens(e, s) /\ ~Reopens(e, s) ->
                       [e EXCEPT !.open = Len(incidents[r]) + 1]
                  [] Resolves(e, s) ->
                       [e EXCEPT !.recent = e.open, !.open = 0, !.age = 0, !.clear = 0]
                  [] OTHER -> e
<1>4. After(r) = Expired(y)
  BY DEF After
<1>5. Fresh(r) <=> Opens(e, s) /\ ~Reopens(e, s)
  BY DEF Fresh
<1>6. Emitted(r) = CASE Reopens(e, s) -> {Request(r, e.recent, "patch", "Open")}
                     [] Fresh(r) -> {Request(r, Len(incidents[r]) + 1, "open", "Open")}
                     [] Resolves(e, s) -> {Request(r, e.open, "patch", "Resolved")}
                     [] OTHER -> {}
  BY DEF Emitted, Request
<1> HIDE DEF e, s, y
<1>7. CASE Reopens(e, s)
  <2>1. e.open = 0 /\ e.recent # 0 /\ Opens(e, s)
    BY <1>7 DEF Reopens, Opens
  <2>2. ~Resolves(e, s) /\ ~Fresh(r)
    BY <1>5, <1>7, <2>1 DEF Resolves
  <2>3. y = [e EXCEPT !.open = e.recent, !.recent = 0, !.age = 0]
    BY <1>7, <2>2 DEF y
  <2>4. y \in Records /\ y.open = e.recent /\ y.recent = 0
    <3>1. 0 \in 0 .. Cap /\ 0 \in Nat /\ e.recent \in Nat
      BY <1>1, CapPositive DEF Records
    <3>2. y \in Records
      BY <1>1, <2>3, <3>1, SetRows
    <3>3. y.open = e.recent /\ y.recent = 0
      BY <1>1, <2>3 DEF Records
    <3> QED BY <3>2, <3>3
  <2>5. Emitted(r) = {Request(r, e.recent, "patch", "Open")}
    BY <1>6, <1>7, <2>2
  <2> QED BY <1>1, <1>3, <1>4, <2>1, <2>2, <2>4, <2>5
<1>8. CASE Fresh(r)
  <2>1. e.open = 0 /\ Opens(e, s) /\ ~Reopens(e, s)
    BY <1>5, <1>8 DEF Opens
  <2>2. ~Resolves(e, s)
    BY <2>1 DEF Resolves
  <2>3. y = [e EXCEPT !.open = Len(incidents[r]) + 1]
    BY <2>1, <2>2 DEF y
  <2>4. y \in Records /\ y.open = Len(incidents[r]) + 1 /\ y.recent = e.recent
    BY <1>1, <1>2, <2>3 DEF Records
  <2>5. Emitted(r) = {Request(r, Len(incidents[r]) + 1, "open", "Open")}
    BY <1>6, <1>8, <2>1, <2>2
  <2> QED BY <1>1, <1>3, <1>4, <1>8, <2>1, <2>4, <2>5
<1>9. CASE Resolves(e, s)
  <2>1. e.open # 0 /\ ~Opens(e, s) /\ ~Reopens(e, s)
    BY <1>9 DEF Resolves, Opens, Reopens
  <2>2. y = [e EXCEPT !.recent = e.open, !.open = 0, !.age = 0, !.clear = 0]
    BY <1>9, <2>1 DEF y
  <2>3. y \in Records /\ y.open = 0 /\ y.recent = e.open
    <3>1. 0 \in 0 .. Cap /\ 0 \in Nat /\ e.open \in Nat
      BY <1>1, CapPositive DEF Records
    <3>2. y \in Records
      BY <1>1, <2>2, <3>1, SetRows
    <3>3. y.open = 0 /\ y.recent = e.open
      BY <1>1, <2>2 DEF Records
    <3> QED BY <3>2, <3>3
  <2>4. ~Fresh(r) /\ Emitted(r) = {Request(r, e.open, "patch", "Resolved")}
    BY <1>5, <1>6, <1>9, <2>1
  <2> QED BY <1>1, <1>3, <1>4, <2>1, <2>3, <2>4
<1>10. CASE ~Reopens(e, s) /\ ~Fresh(r) /\ ~Resolves(e, s)
  <2>1. y = e
    BY <1>5, <1>10 DEF y
  <2>2. Emitted(r) = {}
    BY <1>6, <1>10
  <2> QED BY <1>1, <1>3, <1>4, <1>10, <2>1, <2>2
<1> QED BY <1>7, <1>8, <1>9, <1>10

\* What a poll or a request emits names a row of its robot.
LEMMA EmittedType ==
  ASSUME TypeOK, NEW r \in Robots
  PROVE  \A a \in Emitted(r) :
           /\ a \in ActionRecords /\ a.src = r
           /\ Fresh(r) => a.id \in 1 .. Len(incidents[r]) + 1
           /\ ~Fresh(r) => a.id \in 1 .. Len(incidents[r])
<1>1. /\ Len(incidents[r]) \in Nat
      /\ eng[r].open \in 0 .. Len(incidents[r])
      /\ eng[r].recent \in 0 .. Len(incidents[r])
  BY DEF TypeOK
<1> DEFINE rows == Len(incidents[r]) + (IF Fresh(r) THEN 1 ELSE 0)
<1>2. ASSUME NEW id \in 1 .. rows, NEW op \in {"open", "patch"},
             NEW state \in {"Open", "Resolved"},
             Emitted(r) = {Request(r, id, op, state)}
      PROVE  \A a \in Emitted(r) :
               a \in ActionRecords /\ a.src = r /\ a.id \in 1 .. rows
  <2>1. id \in Nat
    BY <1>1
  <2>2. Request(r, id, op, state) \in ActionRecords
    BY <2>1 DEF Request, ActionRecords
  <2>3. Request(r, id, op, state).src = r /\ Request(r, id, op, state).id = id
    BY DEF Request
  <2> HIDE DEF rows
  <2> QED BY <1>2, <2>2, <2>3
<1>3. CASE Fresh(r)
  <2>1. Len(incidents[r]) + 1 \in 1 .. rows
    BY <1>1, <1>3
  <2> QED BY <1>2, <1>3, <2>1, PollCases
<1>4. CASE ~Fresh(r)
  <2>1. /\ eng[r].open # 0 => eng[r].open \in 1 .. rows
        /\ eng[r].recent # 0 => eng[r].recent \in 1 .. rows
    BY <1>1, <1>4
  <2> HIDE DEF rows
  <2> QED BY <1>2, <1>4, <2>1, PollCases DEF rows
<1> QED
  <2>1. CASE Fresh(r)
    BY <1>3, <2>1
  <2>2. CASE ~Fresh(r)
    BY <1>1, <1>4, <2>2
  <2> QED BY <2>1, <2>2

LEMMA NewestType ==
  ASSUME NEW S, NEW q \in Seq(S)
  PROVE  Newest(q) \in Seq(S)
<1>1. SubSeq(q, 1, Len(q)) \in Seq(S)
  OBVIOUS
<1>2. CASE Len(q) > Cap
  <2>1. Len(q) - Cap + 1 \in 1 .. Len(q) + 1
    BY <1>2, CapPositive
  <2> QED BY <1>2, <2>1, CapPositive DEF Newest
<1> QED BY <1>1, <1>2 DEF Newest

LEMMA SpendType ==
  ASSUME budget \in Budgets,
         NEW kind \in {"changes", "polls", "writes", "seeds", "restarts", "retunes"},
         Spend(kind)
  PROVE  budget' \in Budgets
BY DetectorAssumption DEF Spend, Budgets

\* Every state of the detector and its table is well typed, and the engine names
\* only rows it has opened (IncidentEngine, PostgRESTSink).
THEOREM TypeCorrect == Spec => []TypeOK
<1>1. Init => TypeOK
  <2> SUFFICES ASSUME Init PROVE TypeOK
    OBVIOUS
  <2>1. budget \in Budgets
    BY DetectorAssumption DEF Init, Budgets
  <2>2. eng \in [Robots -> Records] /\ gone \in [Robots -> 0 .. Cap]
    BY BlankType, CapPositive DEF Init
  <2>3. \A r \in Robots : eng[r].open = 0 /\ eng[r].recent = 0
    BY DEF Init, Blank
  <2>4. /\ incidents \in [Robots -> Seq(States)]
        /\ shown \in [Robots -> Seq(Statuses)]
        /\ \A r \in Robots : Len(incidents[r]) = 0
    BY DEF Init
  <2> QED BY <2>1, <2>2, <2>3, <2>4 DEF Init, TypeOK, Records, Statuses
<1>2. TypeOK /\ [Next]_vars => TypeOK'
  <2> SUFFICES ASSUME TypeOK, [Next]_vars PROVE TypeOK'
    OBVIOUS
  <2>1. CASE Poll
    <3>1. eng' \in [Robots -> Records]
      BY <2>1, PollCases DEF Poll
    <3>2. incidents' \in [Robots -> Seq(States)]
      BY <2>1 DEF Poll, TypeOK, States
    <3>3. ASSUME NEW r \in Robots
          PROVE  /\ Fresh(r) => Len(incidents'[r]) = Len(incidents[r]) + 1
                 /\ ~Fresh(r) => Len(incidents'[r]) = Len(incidents[r])
      BY <2>1 DEF Poll, TypeOK
    <3>4. ASSUME NEW r \in Robots
          PROVE  {eng'[r].open, eng'[r].recent} \subseteq 0 .. Len(incidents'[r])
      <4>1. eng'[r] = After(r)
        BY <2>1 DEF Poll
      <4>2. /\ Len(incidents[r]) \in Nat
            /\ eng[r].open \in 0 .. Len(incidents[r])
            /\ eng[r].recent \in 0 .. Len(incidents[r])
        BY DEF TypeOK
      <4>3. /\ eng'[r].recent \in {0, eng[r].recent, eng[r].open}
            /\ \/ Fresh(r) /\ eng'[r].open = Len(incidents[r]) + 1
               \/ ~Fresh(r) /\ eng'[r].open \in {0, eng[r].recent, eng[r].open}
        BY <4>1, PollCases
      <4>4. CASE Fresh(r)
        <5>1. Len(incidents'[r]) = Len(incidents[r]) + 1
          BY <3>3, <4>4
        <5>2. eng'[r].open \in 0 .. Len(incidents'[r])
          BY <4>2, <4>3, <4>4, <5>1
        <5>3. eng'[r].recent \in 0 .. Len(incidents'[r])
          BY <4>2, <4>3, <5>1
        <5> QED BY <5>2, <5>3
      <4>5. CASE ~Fresh(r)
        <5>1. Len(incidents'[r]) = Len(incidents[r])
          BY <3>3, <4>2, <4>5
        <5>2. eng'[r].open \in 0 .. Len(incidents'[r])
          BY <4>2, <4>3, <4>5, <5>1
        <5>3. eng'[r].recent \in 0 .. Len(incidents'[r])
          BY <4>2, <4>3, <5>1
        <5> QED BY <5>2, <5>3
      <4> QED BY <4>4, <4>5
    <3>5. /\ todo' \subseteq ActionRecords
          /\ \A a \in todo' : a.id \in 1 .. Len(incidents'[a.src])
      <4>1. todo' = UNION {Emitted(r) : r \in Robots}
        BY <2>1 DEF Poll
      <4>2. \A r \in Robots : \A a \in Emitted(r) :
              a \in ActionRecords /\ a.id \in 1 .. Len(incidents'[a.src])
        BY <3>3, EmittedType
      <4> QED BY <4>1, <4>2
    <3>6. shown' \in [Robots -> Seq(Statuses)]
      <4>1. \A r \in Robots : Newest(Append(shown[r], robot[r])) \in Seq(Statuses)
        <5>1. \A r \in Robots : Append(shown[r], robot[r]) \in Seq(Statuses)
          BY DEF TypeOK
        <5> QED BY <5>1, NewestType
      <4> QED BY <2>1, <4>1 DEF Poll, TypeOK
    <3>7. gone' \in [Robots -> 0 .. Cap]
      BY <2>1, UpType, CapPositive DEF Poll, TypeOK
    <3> QED BY <2>1, <3>1, <3>2, <3>4, <3>5, <3>6, <3>7 DEF Poll, TypeOK, Records
  <2>2. CASE FailedPoll
    <3>1. budget' \in Budgets
      BY <2>2, SpendType DEF FailedPoll, TypeOK
    <3>2. \A r \in Robots : /\ Older(eng[r]) \in Records
                            /\ Older(eng[r]).open = eng[r].open
                            /\ Older(eng[r]).recent = eng[r].recent
      BY UpType DEF Older, TypeOK, Records
    <3>3. /\ eng' \in [Robots -> Records]
          /\ \A r \in Robots : eng'[r].open = eng[r].open /\ eng'[r].recent = eng[r].recent
      BY <2>2, <3>2 DEF FailedPoll
    <3> QED BY <2>2, <3>1, <3>3 DEF FailedPoll, TypeOK, Records
  <2>3. ASSUME NEW a \in todo, Write(a) PROVE TypeOK'
    <3>1. budget' \in Budgets
      BY <2>3, SpendType DEF Write, TypeOK
    <3>2. a.src \in Robots /\ a.id \in 1 .. Len(incidents[a.src]) /\ a.state \in States
      BY DEF TypeOK, ActionRecords, States
    <3>3. /\ incidents' \in [Robots -> Seq(States)]
          /\ \A r \in Robots : Len(incidents'[r]) = Len(incidents[r])
      <4>1. CASE incidents' = incidents
        BY <4>1 DEF TypeOK
      <4>2. CASE incidents' = [incidents EXCEPT ![a.src][a.id] = a.state]
        BY <3>2, <4>2 DEF TypeOK
      <4> QED BY <2>3, <4>1, <4>2 DEF Write
    <3>4. todo' \subseteq todo
      BY <2>3 DEF Write
    <3> QED BY <2>3, <3>1, <3>3, <3>4 DEF Write, TypeOK, ActionRecords
  <2>4. ASSUME NEW t \in Tunings, Retune(t) PROVE TypeOK'
    <3>1. budget' \in Budgets
      BY <2>4, SpendType DEF Retune, TypeOK
    <3> QED BY <2>4, <3>1 DEF Retune, TypeOK
  <2>5. CASE Restart
    <3>1. budget' \in Budgets
      <4>1. budget.restarts > 0 => budget.restarts - 1 \in 0 .. MaxRestarts
        BY DetectorAssumption DEF TypeOK, Budgets
      <4>2. budget.seeds > 0 => budget.seeds - 1 \in 0 .. MaxFailedSeeds
        BY DetectorAssumption DEF TypeOK, Budgets
      <4> QED BY <2>5, <4>1, <4>2 DEF Restart, TypeOK, Budgets
    <3>2. ASSUME NEW r \in Robots
          PROVE  /\ eng'[r] \in Records
                 /\ eng'[r].open \in 0 .. Len(incidents[r])
                 /\ eng'[r].recent = 0
      <4>1. /\ Blank.open = 0 /\ Blank.recent = 0
            /\ Len(incidents[r]) \in Nat
        BY DEF Blank, TypeOK
      <4>2. CASE eng'[r] = Blank
        BY <4>1, <4>2, BlankType
      <4>3. ASSUME NEW i \in OpenRows(r), eng'[r] = [Blank EXCEPT !.open = i]
            PROVE  /\ eng'[r] \in Records
                   /\ eng'[r].open \in 0 .. Len(incidents[r])
                   /\ eng'[r].recent = 0
        <5>1. i \in 1 .. Len(incidents[r])
          BY DEF OpenRows
        <5>2. eng'[r] \in Records
          <6>1. i \in Nat
            BY <4>1, <5>1
          <6> QED BY <4>3, <6>1, BlankType, SetOpen
        <5> QED BY <4>1, <4>3, <5>1, <5>2 DEF Blank
      <4>4. \/ eng'[r] = Blank
            \/ \E i \in OpenRows(r) : eng'[r] = [Blank EXCEPT !.open = i]
        BY <2>5 DEF Restart, Seeded
      <4> QED BY <4>2, <4>3, <4>4
    <3>3. eng' = [r \in Robots |-> eng'[r]]
      <4>1. CASE eng' \in [Robots -> SeedRecords]
        BY <4>1
      <4>2. CASE eng' = [r \in Robots |-> Blank]
        BY <4>2
      <4> QED BY <2>5, <4>1, <4>2 DEF Restart
    <3>4. eng' \in [Robots -> Records]
      BY <3>2, <3>3
    <3> QED BY <2>5, <3>1, <3>2, <3>4 DEF Restart, TypeOK, Records
  <2>6. ASSUME NEW r \in Robots, NEW s \in Statuses, Change(r, s) PROVE TypeOK'
    <3>1. budget' \in Budgets
      BY <2>6, SpendType DEF Change, TypeOK
    <3> QED BY <2>6, <3>1 DEF Change, TypeOK
  <2>7. CASE UNCHANGED vars
    BY <2>7 DEF vars, TypeOK
  <2> QED BY <2>1, <2>2, <2>3, <2>4, <2>5, <2>6, <2>7 DEF Next
<1> QED BY <1>1, <1>2, PTL DEF Spec

-----------------------------------------------------------------------------
(* One open incident per robot *)

\* A poll causes one request per robot. The row it opens is the one the engine
\* holds open, and after one that resolves the engine holds none. As long as
\* nothing was lost, an open row is the engine's, or is about to be resolved.
OpenInv ==
  /\ \A a, b \in todo : a.src = b.src => a = b
  /\ \A a \in todo : /\ a.state = "Open" => eng[a.src].open = a.id
                     /\ a.state = "Resolved" => eng[a.src].open = 0
  /\ NothingLost =>
       \A r \in Robots : \A i \in OpenRows(r) :
         \/ i = eng[r].open
         \/ \E a \in todo : a.src = r /\ a.id = i /\ a.state = "Resolved"

\* Two open rows of a robot are one.
LEMMA OpenUnique ==
  ASSUME TypeOK, OpenInv, NothingLost, NEW r \in Robots,
         NEW i \in OpenRows(r), NEW j \in OpenRows(r)
  PROVE  i = j
<1>1. i # 0 /\ j # 0
  BY DEF OpenRows, TypeOK
<1>2. CASE i = eng[r].open
  BY <1>1, <1>2 DEF OpenInv
<1>3. CASE j = eng[r].open
  BY <1>1, <1>3 DEF OpenInv
<1>4. CASE i # eng[r].open /\ j # eng[r].open
  <2>1. PICK a \in todo : a.src = r /\ a.id = i
    BY <1>4 DEF OpenInv
  <2>2. PICK b \in todo : b.src = r /\ b.id = j
    BY <1>4 DEF OpenInv
  <2> QED BY <2>1, <2>2 DEF OpenInv
<1> QED BY <1>2, <1>3, <1>4

\* What was lost stays lost.
LEMMA LostForGood ==
  ASSUME budget \in Budgets,
         NEW kind \in {"changes", "polls", "writes", "seeds", "restarts", "retunes"},
         Spend(kind), NothingLost'
  PROVE  NothingLost /\ kind # "writes"
<1>1. /\ budget.writes \in 0 .. MaxLostWrites /\ budget.seeds \in 0 .. MaxFailedSeeds
      /\ MaxLostWrites \in Nat /\ MaxFailedSeeds \in Nat
  BY DetectorAssumption DEF Budgets
<1>2. CASE kind = "writes"
  BY <1>1, <1>2 DEF Spend, NothingLost, Budgets
<1>3. CASE kind = "seeds"
  BY <1>1, <1>3 DEF Spend, NothingLost, Budgets
<1>4. CASE kind \notin {"writes", "seeds"}
  BY <1>1, <1>4 DEF Spend, NothingLost, Budgets
<1> QED BY <1>2, <1>3, <1>4

\* IncidentEngine.observe, PostgRESTSink.apply and IncidentEngine.seed keep the
\* engine and the table in step.
LEMMA OpenInductive == TypeOK /\ OpenInv /\ [Next]_vars => OpenInv'
<1> SUFFICES ASSUME TypeOK, OpenInv, [Next]_vars PROVE OpenInv'
  OBVIOUS
<1>1. CASE Poll
  <2>1. /\ todo = {} /\ UNCHANGED budget
        /\ todo' = UNION {Emitted(r) : r \in Robots}
        /\ \A r \in Robots : eng'[r] = After(r)
    BY <1>1 DEF Poll
  <2>2. \A a \in todo' : a.src \in Robots /\ a \in Emitted(a.src)
    BY <2>1, EmittedType
  <2>3. \A r \in Robots : \A a, b \in Emitted(r) : a = b
    BY PollCases
  <2>4. \A r \in Robots : \A a \in Emitted(r) :
          /\ a.state = "Open" => After(r).open = a.id
          /\ a.state = "Resolved" => After(r).open = 0
    BY PollCases DEF Request
  <2>5. ASSUME NothingLost', NEW r \in Robots, NEW i \in OpenRows(r)'
        PROVE  \/ i = eng'[r].open
               \/ \E a \in todo' : a.src = r /\ a.id = i /\ a.state = "Resolved"
    <3>1. NothingLost
      BY <2>1, <2>5 DEF NothingLost
    <3>2. i \in OpenRows(r)
      <4>1. CASE Fresh(r)
        <5>1. incidents'[r] = Append(incidents[r], "unborn")
          BY <1>1, <4>1 DEF Poll
        <5> QED BY <2>5, <5>1 DEF OpenRows, TypeOK
      <4>2. CASE ~Fresh(r)
        BY <1>1, <2>5, <4>2 DEF Poll, OpenRows
      <4> QED BY <4>1, <4>2
    <3>3. i = eng[r].open /\ i # 0
      BY <2>1, <3>1, <3>2 DEF OpenInv, OpenRows, TypeOK
    <3>4. \/ After(r).open = eng[r].open
          \/ Emitted(r) = {Request(r, eng[r].open, "patch", "Resolved")}
      BY <3>3, PollCases
    <3>5. CASE After(r).open = eng[r].open
      BY <2>1, <3>3, <3>5
    <3>6. CASE Emitted(r) = {Request(r, eng[r].open, "patch", "Resolved")}
      <4>1. Request(r, i, "patch", "Resolved") \in todo'
        BY <2>1, <3>3, <3>6
      <4>2. /\ Request(r, i, "patch", "Resolved").src = r
            /\ Request(r, i, "patch", "Resolved").id = i
            /\ Request(r, i, "patch", "Resolved").state = "Resolved"
        BY DEF Request
      <4> QED BY <4>1, <4>2
    <3> QED BY <3>4, <3>5, <3>6
  <2> QED BY <2>1, <2>2, <2>3, <2>4, <2>5 DEF OpenInv
<1>2. CASE FailedPoll
  <2>1. \A r \in Robots : eng'[r].open = eng[r].open
    <3>1. \A r \in Robots : Older(eng[r]).open = eng[r].open
      BY UpType DEF Older, TypeOK
    <3> QED BY <1>2, <3>1 DEF FailedPoll
  <2>2. NothingLost' => NothingLost
    BY <1>2, LostForGood DEF FailedPoll, TypeOK
  <2> QED BY <1>2, <2>1, <2>2 DEF FailedPoll, OpenInv, OpenRows, TypeOK, ActionRecords
<1>3. ASSUME NEW a \in todo, Write(a) PROVE OpenInv'
  <2>1. /\ todo' = todo \ {a} /\ UNCHANGED eng
        /\ a.src \in Robots /\ a.id \in 1 .. Len(incidents[a.src])
    BY <1>3 DEF Write, TypeOK, ActionRecords
  <2>2. ASSUME NothingLost', NEW r \in Robots, NEW i \in OpenRows(r)'
        PROVE  \/ i = eng'[r].open
               \/ \E b \in todo' : b.src = r /\ b.id = i /\ b.state = "Resolved"
    <3>1. NothingLost /\ ~Spend("writes")
      BY <1>3, <2>2, LostForGood DEF Write, TypeOK, NothingLost
    <3>2. CASE i \in OpenRows(r) /\ ~(a.src = r /\ a.id = i /\ a.state = "Resolved")
      BY <2>1, <3>1, <3>2 DEF OpenInv
    <3>3. CASE a.src = r /\ a.id = i /\ a.state = "Resolved"
      <4>1. incidents[r][i] = "unborn" \/ incidents'[r][i] = "Resolved"
        BY <1>3, <2>1, <3>1, <3>3 DEF Write, TypeOK
      <4>2. incidents'[r][i] = "Open" /\ (incidents'[r][i] = incidents[r][i]
              \/ incidents'[r][i] = "Resolved")
        BY <1>3, <2>1, <2>2, <3>1, <3>3 DEF Write, TypeOK, OpenRows
      <4> QED BY <4>1, <4>2
    <3>4. CASE i \notin OpenRows(r)
      <4>1. a.src = r /\ a.id = i /\ a.state = "Open"
        <5>1. /\ incidents'[r][i] = "Open" /\ i \in 1 .. Len(incidents'[r])
              /\ incidents[r] \in Seq(States)
          BY <2>2 DEF OpenRows, TypeOK
        <5>2. incidents' = [incidents EXCEPT ![a.src][a.id] = a.state]
          <6>1. incidents' # incidents
            BY <2>2, <3>4 DEF OpenRows
          <6> QED BY <1>3, <6>1 DEF Write
        <5>3. a.src = r
          BY <2>1, <2>2, <3>4, <5>2 DEF OpenRows, TypeOK
        <5>4. incidents'[r] = [incidents[r] EXCEPT ![a.id] = a.state]
          BY <5>2, <5>3 DEF TypeOK
        <5>5. Len(incidents'[r]) = Len(incidents[r])
          BY <5>1, <5>4
        <5>6. a.id = i
          BY <3>4, <5>1, <5>4, <5>5 DEF OpenRows
        <5> QED BY <5>1, <5>3, <5>4, <5>5, <5>6
      <4> QED BY <2>1, <4>1 DEF OpenInv
    <3> QED BY <3>2, <3>3, <3>4
  <2> QED BY <2>1, <2>2 DEF OpenInv
<1>4. ASSUME NEW t \in Tunings, Retune(t) PROVE OpenInv'
  <2>1. NothingLost' => NothingLost
    BY <1>4, LostForGood DEF Retune, TypeOK
  <2> QED BY <1>4, <2>1 DEF Retune, OpenInv, OpenRows
<1>5. CASE Restart
  <2>1. todo' = {} /\ UNCHANGED incidents
    BY <1>5 DEF Restart
  <2>2. ASSUME NothingLost', NEW r \in Robots, NEW i \in OpenRows(r)'
        PROVE  i = eng'[r].open
    <3>1. NothingLost /\ Seeded(eng')
      <4>1. /\ budget.writes \in 0 .. MaxLostWrites
            /\ budget.seeds \in 0 .. MaxFailedSeeds
            /\ MaxFailedSeeds \in Nat /\ MaxLostWrites \in Nat
        BY DetectorAssumption DEF TypeOK, Budgets
      <4>2. CASE Seeded(eng') /\ budget' = [budget EXCEPT !.restarts = @ - 1]
        BY <2>2, <4>2 DEF NothingLost, TypeOK, Budgets
      <4>3. CASE budget' = [budget EXCEPT !.restarts = @ - 1, !.seeds = @ - 1]
        <5>1. budget'.seeds = budget.seeds - 1
          BY <4>3 DEF TypeOK, Budgets
        <5> QED BY <2>2, <4>1, <5>1 DEF NothingLost
      <4> QED BY <1>5, <4>2, <4>3 DEF Restart
    <3>2. i \in OpenRows(r)
      BY <2>1, <2>2 DEF OpenRows
    <3>3. PICK j \in OpenRows(r) : eng'[r] = [Blank EXCEPT !.open = j]
      BY <3>1, <3>2 DEF Seeded
    <3>4. i = j
      BY <3>1, <3>2, OpenUnique
    <3> QED BY <3>3, <3>4 DEF Blank
  <2> QED BY <2>1, <2>2 DEF OpenInv
<1>6. ASSUME NEW r \in Robots, NEW s \in Statuses, Change(r, s) PROVE OpenInv'
  <2>1. NothingLost' => NothingLost
    BY <1>6, LostForGood DEF Change, TypeOK
  <2> QED BY <1>6, <2>1 DEF Change, OpenInv, OpenRows
<1>7. CASE UNCHANGED vars
  BY <1>7 DEF vars, OpenInv, OpenRows, NothingLost
<1> QED BY <1>1, <1>2, <1>3, <1>4, <1>5, <1>6, <1>7 DEF Next

\* The engine and its sink never leave two open incidents of one robot in the
\* table (engine.py:12), whatever is restarted in between.
THEOREM OneOpen == Spec => []OneOpenPerRobot
<1>1. Init => OpenInv
  BY DEF Init, OpenInv, OpenRows
<1>2. TypeOK /\ OpenInv => OneOpenPerRobot
  <2> SUFFICES ASSUME TypeOK, OpenInv, NothingLost, NEW r \in Robots
               PROVE  Cardinality(OpenRows(r)) <= 1
    BY DEF OneOpenPerRobot
  <2>1. CASE OpenRows(r) = {}
    BY <2>1, FS_EmptySet
  <2>2. ASSUME NEW i \in OpenRows(r) PROVE Cardinality(OpenRows(r)) <= 1
    <3>1. OpenRows(r) = {i}
      BY OpenUnique
    <3> QED BY <3>1, FS_Singleton
  <2> QED BY <2>1, <2>2
<1> QED BY <1>1, <1>2, OpenInductive, TypeCorrect, PTL DEF Spec

-----------------------------------------------------------------------------
(* Incidents open and close on confirmed evidence *)

\* The last n statuses of a history are in S.
Confirms(q, n, S) ==
  /\ Len(q) >= n
  /\ \A i \in Len(q) - n + 1 .. Len(q) : q[i] \in S

\* The streaks never exceed what the robot was seen to do.
EvidenceInv ==
  \A r \in Robots :
    /\ Len(shown[r]) <= Cap
    /\ eng[r].bad > 0 => /\ eng[r].cond \in Bad
                         /\ Confirms(shown[r], eng[r].bad, {eng[r].cond})
    /\ Confirms(shown[r], eng[r].clear, {"ok"})
    /\ eng[r].missing <= gone[r]
    /\ eng[r].open = 0 => eng[r].clear = 0

LEMMA NewestAppend ==
  ASSUME NEW q \in Seq(Statuses), Len(q) <= Cap, NEW s \in Statuses
  PROVE  LET m == Newest(Append(q, s)) IN
         /\ Len(q) < Cap => m = Append(q, s)
         /\ Len(q) = Cap =>
              /\ Len(m) = Cap
              /\ \A i \in 1 .. Cap : m[i] = Append(q, s)[i + 1]
<1> DEFINE p == Append(q, s)
<1>1. p \in Seq(Statuses) /\ Len(p) = Len(q) + 1
  OBVIOUS
<1> HIDE DEF p
<1>2. CASE Len(q) < Cap
  <2>1. Newest(p) = SubSeq(p, 1, Len(p))
    <3>1. ~(Len(p) > Cap)
      BY <1>1, <1>2, CapPositive
    <3> QED BY <3>1 DEF Newest
  <2> QED BY <1>1, <1>2, <2>1 DEF p
<1>3. CASE Len(q) = Cap
  <2>1. Newest(p) = SubSeq(p, 2, Cap + 1)
    BY <1>1, <1>3, CapPositive DEF Newest
  <2>2. /\ Len(SubSeq(p, 2, Cap + 1)) = Cap
        /\ \A i \in 1 .. Cap : SubSeq(p, 2, Cap + 1)[i] = p[i + 1]
    BY <1>1, <1>3, CapPositive
  <2> QED BY <1>3, <2>1, <2>2 DEF p
<1> QED BY <1>2, <1>3, CapPositive

\* One more status of the same kind makes the streak longer.
LEMMA Prolongs ==
  ASSUME NEW q \in Seq(Statuses), Len(q) <= Cap, NEW n \in 0 .. Cap, NEW S,
         NEW s \in Statuses, s \in S, Confirms(q, n, S)
  PROVE  Confirms(Newest(Append(q, s)), Up(n), S)
<1>1. /\ \A i \in 1 .. Len(q) : Append(q, s)[i] = q[i]
      /\ Append(q, s)[Len(q) + 1] = s /\ Len(Append(q, s)) = Len(q) + 1
  OBVIOUS
<1>2. n <= Len(q) /\ Len(q) \in Nat /\ n \in Nat
  BY CapPositive DEF Confirms
<1>3. \A i \in Len(q) - n + 1 .. Len(q) + 1 : Append(q, s)[i] \in S
  <2> TAKE i \in Len(q) - n + 1 .. Len(q) + 1
  <2>1. i \in Int /\ i >= 1
    BY <1>2
  <2>2. CASE i = Len(q) + 1
    BY <1>1, <2>2
  <2>3. CASE i # Len(q) + 1
    <3>1. i \in 1 .. Len(q) /\ i \in Len(q) - n + 1 .. Len(q)
      BY <1>2, <2>1, <2>3
    <3> QED BY <1>1, <3>1 DEF Confirms
  <2> QED BY <2>2, <2>3
<1>4. CASE Len(q) < Cap
  <2>1. Up(n) = n + 1
    BY <1>2, <1>4, CapPositive DEF Up
  <2>2. Newest(Append(q, s)) = Append(q, s)
    BY <1>4, NewestAppend
  <2> QED BY <1>1, <1>2, <1>3, <2>1, <2>2 DEF Confirms
<1>5. CASE Len(q) = Cap
  <2>1. Up(n) \in 0 .. Cap /\ Up(n) <= n + 1
    BY <1>2, CapPositive DEF Up
  <2> DEFINE m == Newest(Append(q, s))
  <2>2. /\ Len(m) = Cap
        /\ \A i \in 1 .. Cap : m[i] = Append(q, s)[i + 1]
    BY <1>5, NewestAppend
  <2> HIDE DEF m
  <2>3. ASSUME NEW i \in Cap - Up(n) + 1 .. Cap
        PROVE  m[i] \in S
    <3>1. i \in 1 .. Cap /\ i + 1 \in Len(q) - n + 1 .. Len(q) + 1
      BY <1>2, <1>5, <2>1, CapPositive
    <3> QED BY <1>3, <2>2, <3>1
  <2>4. Confirms(m, Up(n), S)
    BY <2>1, <2>2, <2>3 DEF Confirms
  <2> QED BY <2>4 DEF m
<1> QED BY <1>4, <1>5, <1>2, CapPositive

\* A streak holds shorter ones.
LEMMA Shorter ==
  ASSUME NEW q \in Seq(Statuses), NEW S, NEW n \in Nat, NEW k \in 0 .. n,
         Confirms(q, n, S)
  PROVE  Confirms(q, k, S)
<1>1. Len(q) \in Nat
  OBVIOUS
<1> QED BY <1>1 DEF Confirms

\* What a poll counts is what the robot was seen to do.
LEMMA CountedEvidence ==
  ASSUME TypeOK, EvidenceInv, Poll, NEW r \in Robots
  PROVE  LET e == Now(r) IN
         /\ Len(shown'[r]) <= Cap
         /\ e.bad > 0 => /\ e.cond \in Bad
                         /\ Confirms(shown'[r], e.bad, {e.cond})
         /\ Confirms(shown'[r], e.clear, {"ok"})
         /\ e.missing <= gone'[r]
         /\ e.open = 0 => e.clear = 0
         /\ robot[r] \in Bad => e.cond = robot[r] /\ e.clear = 0
<1> DEFINE o == Older(eng[r])
           s == robot[r]
           q == shown[r]
<1>1. /\ o \in Records /\ o.open = eng[r].open /\ o.bad = eng[r].bad
      /\ o.cond = eng[r].cond /\ o.clear = eng[r].clear /\ o.missing = eng[r].missing
  BY UpType DEF TypeOK, Older, Records
<1>2. /\ o.bad \in 0 .. Cap /\ o.clear \in 0 .. Cap /\ o.missing \in 0 .. Cap
      /\ gone[r] \in 0 .. Cap
  BY <1>1 DEF Records, TypeOK
<1>3. s \in Statuses /\ q \in Seq(Statuses)
  BY DEF TypeOK
<1>4. /\ Len(q) <= Cap
      /\ o.bad > 0 => o.cond \in Bad /\ Confirms(q, o.bad, {o.cond})
      /\ Confirms(q, o.clear, {"ok"})
      /\ o.missing <= gone[r]
      /\ o.open = 0 => o.clear = 0
  BY <1>1 DEF EvidenceInv
<1>5. Now(r) = Counted(o, s)
  BY DEF Now
<1>6. /\ shown'[r] = IF s = "absent" THEN q ELSE Newest(Append(q, s))
      /\ gone'[r] = IF s = "absent" THEN Up(gone[r]) ELSE 0
  BY DEF Poll, TypeOK
<1>7. \A S : Confirms(q, 0, S)
  BY <1>3 DEF Confirms
<1>8. \A S : Confirms(Newest(Append(q, s)), 0, S)
  <2>1. Newest(Append(q, s)) \in Seq(Statuses)
    <3>1. Append(q, s) \in Seq(Statuses)
      BY <1>3
    <3> QED BY <3>1, NewestType
  <2> QED BY <2>1 DEF Confirms
<1>9. Up(0) = 1
  BY CapPositive DEF Up
<1>10. s # "absent" => Len(Newest(Append(q, s))) <= Cap
  BY <1>3, <1>4, NewestAppend, CapPositive
<1> HIDE DEF o, s, q
<1>11. CASE s \in Bad
  <2>1. s # "absent" /\ s # "ok"
    BY <1>11 DEF Bad
  <2>2. Counted(o, s) = [o EXCEPT !.clear = 0, !.missing = MissingWhenSeen(o),
                                  !.cond = s, !.bad = IF SameCondition(o, s)
                                                      THEN Up(@) ELSE 1]
    BY <1>11, <2>1 DEF Counted
  <2>3. /\ Counted(o, s).clear = 0 /\ Counted(o, s).missing = 0
        /\ Counted(o, s).cond = s /\ Counted(o, s).open = o.open
        /\ Counted(o, s).bad = IF o.cond = s THEN Up(o.bad) ELSE 1
    BY <1>1, <2>2 DEF Records, MissingWhenSeen, SameCondition
  <2>4. Confirms(Newest(Append(q, s)), 1, {s})
    <3>1. 0 \in 0 .. Cap /\ s \in {s}
      BY CapPositive
    <3> QED BY <1>3, <1>4, <1>7, <1>9, <3>1, Prolongs
  <2>5. ASSUME o.cond = s
        PROVE  Confirms(Newest(Append(q, s)), Up(o.bad), {s})
    <3>1. Confirms(q, o.bad, {s})
      BY <1>2, <1>4, <1>7, <2>5
    <3>2. s \in {s}
      OBVIOUS
    <3> QED BY <1>2, <1>3, <1>4, <3>1, <3>2, Prolongs
  <2> QED BY <1>5, <1>6, <1>8, <1>10, <1>11, <2>1, <2>3, <2>4, <2>5 DEF s
<1>12. CASE s = "ok"
  <2>1. s \notin Bad /\ s # "absent"
    BY <1>12 DEF Bad
  <2>2. Counted(o, s) = [o EXCEPT !.bad = 0, !.cond = "none",
                                  !.missing = MissingWhenSeen(o),
                                  !.clear = IF o.open = 0 THEN @ ELSE Up(@)]
    BY <1>12, <2>1 DEF Counted
  <2>3. /\ Counted(o, s).bad = 0 /\ Counted(o, s).missing = 0
        /\ Counted(o, s).open = o.open
        /\ Counted(o, s).clear = IF o.open = 0 THEN o.clear ELSE Up(o.clear)
    BY <1>1, <2>2 DEF Records, MissingWhenSeen
  <2>4. Confirms(Newest(Append(q, s)), Up(o.clear), {"ok"})
    <3>1. s \in {"ok"}
      BY <1>12
    <3> QED BY <1>2, <1>3, <1>4, <3>1, Prolongs
  <2> QED BY <1>4, <1>5, <1>6, <1>8, <1>10, <2>1, <2>3, <2>4 DEF s
<1>13. CASE s = "absent"
  <2>1. s \notin Bad /\ s # "ok"
    BY <1>13 DEF Bad
  <2>2. Counted(o, s) = [o EXCEPT !.missing = IF o.open = 0 THEN @ ELSE Up(@)]
    BY <1>13, <2>1 DEF Counted
  <2>3. /\ Counted(o, s).bad = o.bad /\ Counted(o, s).cond = o.cond
        /\ Counted(o, s).open = o.open /\ Counted(o, s).clear = o.clear
        /\ Counted(o, s).missing = IF o.open = 0 THEN o.missing ELSE Up(o.missing)
    BY <1>1, <2>2 DEF Records
  <2>4. Up(o.missing) <= Up(gone[r]) /\ o.missing <= Up(gone[r])
    BY <1>2, <1>4, CapPositive DEF Up
  <2> QED BY <1>4, <1>5, <1>6, <1>13, <2>1, <2>3, <2>4 DEF s
<1> QED BY <1>3, <1>11, <1>12, <1>13 DEF Statuses

\* The poll leaves the counters as it counted them, but for the clear streak of
\* an incident that it resolves; and it says why it writes.
LEMMA AfterCounters ==
  ASSUME TypeOK, NEW r \in Robots
  PROVE  LET e == Now(r) IN
         /\ After(r).bad = e.bad /\ After(r).cond = e.cond
         /\ After(r).missing = e.missing
         /\ After(r).clear \in {e.clear, 0}
         /\ After(r).open = 0 => After(r).clear = 0 \/ e.open = 0
         /\ \A a \in Emitted(r) :
              /\ a.state = "Open" => Opens(e, robot[r])
              /\ a.state = "Resolved" => Resolves(e, robot[r])
<1> DEFINE e == Now(r)
           s == robot[r]
<1>1. e \in Records
  BY CountedType DEF TypeOK, Now, Records
<1>2. ASSUME NEW x \in Records
      PROVE  /\ Expired(x).bad = x.bad /\ Expired(x).cond = x.cond
             /\ Expired(x).missing = x.missing /\ Expired(x).clear = x.clear
             /\ Expired(x).open = x.open
  BY <1>2 DEF Expired, Records
<1> DEFINE y == CASE Reopens(e, s) ->
                       [e EXCEPT !.open = e.recent, !.recent = 0, !.age = 0]
                  [] Opens(e, s) /\ ~Reopens(e, s) ->
                       [e EXCEPT !.open = Len(incidents[r]) + 1]
                  [] Resolves(e, s) ->
                       [e EXCEPT !.recent = e.open, !.open = 0, !.age = 0, !.clear = 0]
                  [] OTHER -> e
<1>3. After(r) = Expired(y)
  BY DEF After
<1>4. Fresh(r) <=> Opens(e, s) /\ ~Reopens(e, s)
  BY DEF Fresh
<1>5. Emitted(r) = CASE Reopens(e, s) -> {Request(r, e.recent, "patch", "Open")}
                     [] Fresh(r) -> {Request(r, Len(incidents[r]) + 1, "open", "Open")}
                     [] Resolves(e, s) -> {Request(r, e.open, "patch", "Resolved")}
                     [] OTHER -> {}
  BY DEF Emitted, Request
<1>6. \A id, op, state : Request(r, id, op, state).state = state
  BY DEF Request
<1>7. /\ e.open \in Nat /\ e.recent \in Nat /\ Len(incidents[r]) + 1 \in Nat
      /\ 0 \in Nat /\ 0 \in 0 .. Cap
  BY <1>1, CapPositive DEF Records, TypeOK
<1> HIDE DEF e, s, y
<1>8. CASE Reopens(e, s)
  <2>1. e.open = 0 /\ Opens(e, s) /\ ~Resolves(e, s)
    BY <1>8 DEF Reopens, Opens, Resolves
  <2>2. y = [e EXCEPT !.open = e.recent, !.recent = 0, !.age = 0]
    BY <1>8, <2>1 DEF y
  <2>3. y \in Records
    BY <1>1, <1>7, <2>2, SetRows
  <2>4. y.bad = e.bad /\ y.cond = e.cond /\ y.missing = e.missing /\ y.clear = e.clear
    BY <1>1, <2>2 DEF Records
  <2>5. Emitted(r) = {Request(r, e.recent, "patch", "Open")}
    BY <1>5, <1>8, <2>1, <1>4
  <2> QED BY <1>2, <1>3, <1>6, <2>1, <2>3, <2>4, <2>5 DEF e, s
<1>9. CASE Fresh(r)
  <2>1. e.open = 0 /\ Opens(e, s) /\ ~Reopens(e, s) /\ ~Resolves(e, s)
    BY <1>4, <1>9 DEF Opens, Resolves
  <2>2. y = [e EXCEPT !.open = Len(incidents[r]) + 1]
    BY <2>1 DEF y
  <2>3. y \in Records
    BY <1>1, <1>7, <2>2, SetOpen
  <2>4. y.bad = e.bad /\ y.cond = e.cond /\ y.missing = e.missing /\ y.clear = e.clear
    BY <1>1, <2>2 DEF Records
  <2>5. Emitted(r) = {Request(r, Len(incidents[r]) + 1, "open", "Open")}
    BY <1>5, <1>9, <2>1
  <2> QED BY <1>2, <1>3, <1>6, <2>1, <2>3, <2>4, <2>5 DEF e, s
<1>10. CASE Resolves(e, s)
  <2>1. ~Opens(e, s) /\ ~Reopens(e, s) /\ ~Fresh(r)
    BY <1>4, <1>10 DEF Resolves, Opens, Reopens
  <2>2. y = [e EXCEPT !.recent = e.open, !.open = 0, !.age = 0, !.clear = 0]
    BY <1>10, <2>1 DEF y
  <2>3. y \in Records
    BY <1>1, <1>7, <2>2, SetRows
  <2>4. y.bad = e.bad /\ y.cond = e.cond /\ y.missing = e.missing /\ y.clear = 0
    BY <1>1, <2>2 DEF Records
  <2>5. Emitted(r) = {Request(r, e.open, "patch", "Resolved")}
    BY <1>5, <1>10, <2>1
  <2> QED BY <1>2, <1>3, <1>6, <1>10, <2>3, <2>4, <2>5 DEF e, s
<1>11. CASE ~Reopens(e, s) /\ ~Fresh(r) /\ ~Resolves(e, s)
  <2>1. y = e
    BY <1>4, <1>11 DEF y
  <2>2. Emitted(r) = {}
    BY <1>5, <1>11
  <2> QED BY <1>1, <1>2, <1>3, <2>1, <2>2 DEF e
<1> QED BY <1>8, <1>9, <1>10, <1>11

\* IncidentEngine's streaks survive polls, gaps, restarts and changes of the
\* settings as lower bounds of what was seen.
LEMMA EvidenceInductive == TypeOK /\ EvidenceInv /\ [Next]_vars => EvidenceInv'
<1> SUFFICES ASSUME TypeOK, EvidenceInv, [Next]_vars PROVE EvidenceInv'
  OBVIOUS
<1>1. CASE Poll
  <2> SUFFICES ASSUME NEW r \in Robots
      PROVE  /\ Len(shown'[r]) <= Cap
             /\ eng'[r].bad > 0 => /\ eng'[r].cond \in Bad
                                   /\ Confirms(shown'[r], eng'[r].bad, {eng'[r].cond})
             /\ Confirms(shown'[r], eng'[r].clear, {"ok"})
             /\ eng'[r].missing <= gone'[r]
             /\ eng'[r].open = 0 => eng'[r].clear = 0
    BY DEF EvidenceInv
  <2>1. eng'[r] = After(r)
    BY <1>1 DEF Poll
  <2>2. Confirms(shown'[r], 0, {"ok"})
    <3>1. shown'[r] \in Seq(Statuses)
      <4>1. shown'[r] = IF robot[r] = "absent" THEN shown[r]
                        ELSE Newest(Append(shown[r], robot[r]))
        BY <1>1 DEF Poll
      <4>2. shown[r] \in Seq(Statuses) /\ Append(shown[r], robot[r]) \in Seq(Statuses)
        BY DEF TypeOK
      <4> QED BY <4>1, <4>2, NewestType
    <3> QED BY <3>1 DEF Confirms
  <2>3. After(r).clear = 0 => Confirms(shown'[r], After(r).clear, {"ok"})
    BY <2>2
  <2> QED BY <1>1, <2>1, <2>3, CountedEvidence, AfterCounters
<1>2. CASE FailedPoll
  <2>1. \A r \in Robots :
          /\ eng'[r].open = eng[r].open /\ eng'[r].bad = eng[r].bad
          /\ eng'[r].cond = eng[r].cond /\ eng'[r].clear = eng[r].clear
          /\ eng'[r].missing = eng[r].missing
    <3>1. \A r \in Robots :
            /\ Older(eng[r]).open = eng[r].open /\ Older(eng[r]).bad = eng[r].bad
            /\ Older(eng[r]).cond = eng[r].cond /\ Older(eng[r]).clear = eng[r].clear
            /\ Older(eng[r]).missing = eng[r].missing
      BY DEF Older, TypeOK
    <3> QED BY <1>2, <3>1 DEF FailedPoll
  <2> QED BY <1>2, <2>1 DEF FailedPoll, EvidenceInv
<1>3. ASSUME NEW a \in todo, Write(a) PROVE EvidenceInv'
  BY <1>3 DEF Write, EvidenceInv
<1>4. ASSUME NEW t \in Tunings, Retune(t) PROVE EvidenceInv'
  BY <1>4 DEF Retune, EvidenceInv
<1>5. CASE Restart
  <2>1. \A r \in Robots :
          eng'[r].bad = 0 /\ eng'[r].clear = 0 /\ eng'[r].missing = 0
    <3>1. ASSUME NEW r \in Robots
          PROVE  \/ eng'[r] = Blank
                 \/ \E i \in OpenRows(r) : eng'[r] = [Blank EXCEPT !.open = i]
      BY <1>5 DEF Restart, Seeded
    <3>2. \A i : LET b == [Blank EXCEPT !.open = i] IN
                 b.bad = 0 /\ b.clear = 0 /\ b.missing = 0
      BY DEF Blank
    <3>3. Blank.bad = 0 /\ Blank.clear = 0 /\ Blank.missing = 0
      BY DEF Blank
    <3> QED BY <3>1, <3>2, <3>3
  <2>2. shown' = shown /\ gone' = gone
    BY <1>5 DEF Restart
  <2>3. ASSUME NEW r \in Robots
        PROVE  /\ Len(shown[r]) <= Cap
               /\ Confirms(shown[r], 0, {"ok"}) /\ 0 <= gone[r] /\ ~(0 > 0)
    BY CapPositive DEF Confirms, TypeOK, EvidenceInv
  <2> QED BY <2>1, <2>2, <2>3 DEF EvidenceInv
<1>6. ASSUME NEW r \in Robots, NEW s \in Statuses, Change(r, s) PROVE EvidenceInv'
  BY <1>6 DEF Change, EvidenceInv
<1>7. CASE UNCHANGED vars
  BY <1>7 DEF vars, EvidenceInv
<1> QED BY <1>1, <1>2, <1>3, <1>4, <1>5, <1>6, <1>7 DEF Next

LEMMA EvidenceHolds == Spec => [](TypeOK /\ EvidenceInv)
<1>1. Init => EvidenceInv
  BY CapPositive DEF Init, EvidenceInv, Blank, Confirms
<1> QED BY <1>1, EvidenceInductive, TypeCorrect, PTL DEF Spec

\* Requests are only added by a poll.
LEMMA OnlyPollWrites ==
  ASSUME [Next]_vars, NEW a \in todo', a \notin todo
  PROVE  Poll /\ \E r \in Robots : a \in Emitted(r)
<1>1. Poll => todo' = UNION {Emitted(r) : r \in Robots}
  BY DEF Poll
<1>2. Poll \/ todo' \subseteq todo
  BY DEF Next, vars, FailedPoll, Write, Retune, Restart, Change
<1> QED BY <1>1, <1>2

\* IncidentEngine opens or re-opens an incident only on pending_polls sightings
\* of one bad condition in a row (engine.py:14).
THEOREM FlapGuard == Spec => OpensConfirmed
<1> DEFINE A == \A a \in todo' \ todo : a.state = "Open" =>
                  \E c \in Bad : LastSeen(a.src, tuning.pending, {c})'
<1>1. TypeOK /\ TypeOK' /\ EvidenceInv /\ [Next]_vars => A
  <2> SUFFICES ASSUME TypeOK, TypeOK', EvidenceInv, [Next]_vars,
                      NEW a \in todo' \ todo, a.state = "Open"
               PROVE  \E c \in Bad : LastSeen(a.src, tuning.pending, {c})'
    OBVIOUS
  <2>1. Poll /\ a.src \in Robots /\ a \in Emitted(a.src)
    BY OnlyPollWrites, EmittedType
  <2> DEFINE r == a.src
             e == Now(r)
  <2>2. Opens(e, robot[r])
    BY <2>1, AfterCounters
  <2>3. robot[r] \in Bad /\ e.bad >= tuning.pending
    BY <2>2 DEF Opens
  <2>4. tuning.pending \in 0 .. e.bad /\ e.bad \in Nat /\ e.bad > 0
    <3>1. tuning.pending \in 1 .. Cap
      BY DetectorAssumption DEF TypeOK
    <3>2. e.bad \in 0 .. Cap
      BY <2>1, CountedType DEF TypeOK, Now, Records
    <3> QED BY <2>3, <3>1, <3>2, CapPositive
  <2>5. Confirms(shown'[r], e.bad, {robot[r]})
    BY <2>1, <2>3, <2>4, CountedEvidence
  <2>6. shown'[r] \in Seq(Statuses) /\ tuning' = tuning
    BY <2>1 DEF TypeOK, Poll
  <2>7. Confirms(shown'[r], tuning.pending, {robot[r]})
    BY <2>4, <2>5, <2>6, Shorter
  <2> QED BY <2>3, <2>6, <2>7 DEF Confirms, LastSeen
<1> QED BY <1>1, EvidenceHolds, PTL DEF Spec, OpensConfirmed

\* IncidentEngine resolves an incident only after clear_polls clear sightings in
\* a row, or more than stale_polls polls without the robot (engine.py:17, 24).
THEOREM ClearHold == Spec => ResolvesConfirmed
<1> DEFINE A == \A a \in todo' \ todo : a.state = "Resolved" =>
                  \/ LastSeen(a.src, tuning.clear, {"ok"})'
                  \/ gone'[a.src] > tuning.stale
<1>1. TypeOK /\ TypeOK' /\ EvidenceInv /\ [Next]_vars => A
  <2> SUFFICES ASSUME TypeOK, TypeOK', EvidenceInv, [Next]_vars,
                      NEW a \in todo' \ todo, a.state = "Resolved"
               PROVE  \/ LastSeen(a.src, tuning.clear, {"ok"})'
                      \/ gone'[a.src] > tuning.stale
    OBVIOUS
  <2>1. Poll /\ a.src \in Robots /\ a \in Emitted(a.src)
    BY OnlyPollWrites, EmittedType
  <2> DEFINE r == a.src
             e == Now(r)
  <2>2. Resolves(e, robot[r])
    BY <2>1, AfterCounters
  <2>3. /\ e.clear \in 0 .. Cap /\ e.missing \in 0 .. Cap
        /\ gone'[r] \in 0 .. Cap
        /\ tuning.clear \in 1 .. Cap /\ tuning.stale \in 0 .. Cap - 1
    BY <2>1, CountedType, DetectorAssumption DEF TypeOK, Now, Records
  <2>4. CASE robot[r] = "ok" /\ e.clear >= tuning.clear
    <3>1. Confirms(shown'[r], e.clear, {"ok"})
      BY <2>1, CountedEvidence
    <3>2. tuning.clear \in 0 .. e.clear /\ e.clear \in Nat
      BY <2>3, <2>4, CapPositive
    <3>3. shown'[r] \in Seq(Statuses) /\ tuning' = tuning
      BY <2>1 DEF TypeOK, Poll
    <3>4. Confirms(shown'[r], tuning.clear, {"ok"})
      BY <3>1, <3>2, <3>3, Shorter
    <3> QED BY <3>3, <3>4 DEF Confirms, LastSeen
  <2>5. CASE Stale(e, robot[r])
    <3>1. e.missing > tuning.stale /\ e.missing <= gone'[r]
      BY <2>1, <2>5, CountedEvidence DEF Stale
    <3> QED BY <2>3, <3>1, CapPositive
  <2> QED BY <2>2, <2>4, <2>5 DEF Resolves
<1> QED BY <1>1, EvidenceHolds, PTL DEF Spec, ResolvesConfirmed

-----------------------------------------------------------------------------
(* The pipeline *)

\* Whoever raises, acknowledges, opens and resolves rows and whenever, also
\* within a dispatch, the notifier takes only steps of Notifier and the others
\* only change what its next fetch finds (AlertSource.fetch_events).
P == INSTANCE NotifierProofs WITH alarms <- Notifiable, todo <- outbox, budget <- luck

THEOREM ImplementsNotifier == PipelineSpec => N!Spec
<1>1. PipelineInit => N!Init
  BY DEF PipelineInit
<1>2. [PipelineNext]_pipelineVars => [N!Next \/ N!Rows]_(N!vars)
  <2> SUFFICES ASSUME [PipelineNext]_pipelineVars
               PROVE  [N!Next \/ N!Rows]_(N!vars)
    OBVIOUS
  <2>1. CASE Notifies
    BY <2>1 DEF Notifies
  <2>2. CASE UNCHANGED notifierVars
    <3>1. Notifiable' \in SUBSET Keys'
      BY DEF Notifiable, Keys
    <3>2. Keys' = Keys
      BY DEF Keys, AlertKey, IncidentKey
    <3> QED BY <2>2, <3>1, <3>2 DEF notifierVars, N!Rows, N!memory
  <2> QED BY <2>1, <2>2 DEF PipelineNext, Detects, Raise, Acknowledge, pipelineVars
<1> QED BY <1>1, <1>2, PTL DEF PipelineSpec, N!Spec

\* The instances of Notifier in AlarmPipeline and in its proofs are one.
LEMMA SameNext == N!Next <=> P!Next
BY Zenon DEF
  N!Next, P!Next, N!memory, P!memory, N!Step, P!Step, N!PauseOver, P!PauseOver,
  N!Crash, P!Crash, N!Fetch, P!Fetch, N!Flush, P!Flush, N!Flushes, P!Flushes,
  N!Announce, P!Announce, N!New, P!New, N!Messages, P!Messages, N!Cardinality,
  P!Cardinality, N!Send, P!Send, N!SendPaused, P!SendPaused, N!SendFlush,
  P!SendFlush, N!SendNow, P!SendNow, N!KeptFor, P!KeptFor, N!QueueFirst,
  P!QueueFirst, N!Enqueue, P!Enqueue, N!Full, P!Full, N!Attempt, P!Attempt, N!Trips,
  P!Trips, N!Succeeded, P!Succeeded, N!Failed, P!Failed, N!Save, P!Save

LEMMA SameSpec ==
  /\ (N!Constants => P!Constants)
  /\ (N!Init => P!Init)
  /\ ([N!Next \/ N!Rows]_(N!vars) => [P!Next \/ P!Rows]_(P!vars))
<1>1. N!Constants => P!Constants
  BY DEF N!Constants, P!Constants
<1>2. N!Init => P!Init
  BY DEF N!Init, P!Init
<1>3. [N!Next \/ N!Rows]_(N!vars) => [P!Next \/ P!Rows]_(P!vars)
  BY SameNext, Zenon DEF N!Rows, P!Rows, N!vars, P!vars, N!memory, P!memory
<1> QED BY <1>1, <1>2, <1>3

LEMMA SameProperties ==
  /\ (P!NoLoss => NoLoss)
  /\ (P!AnnouncedOnce => AnnouncedOnce)
  /\ (P!InOrder => InOrder)
<1>1. P!NoLoss => NoLoss
  BY DEF NoLoss, N!NoLoss, P!NoLoss, N!Queued, P!Queued
<1>2. P!AnnouncedOnce => AnnouncedOnce
  BY DEF AnnouncedOnce, N!AnnouncedOnce, P!AnnouncedOnce
<1>3. P!InOrder => InOrder
  BY DEF InOrder, N!InOrder, P!InOrder
<1> QED BY <1>1, <1>2, <1>3

LEMMA SpecOfProofs == P!Constants /\ (PipelineSpec => P!Spec)
<1>1. P!Constants
  BY PipelineAssumption, SameSpec
<1>2. N!Spec => P!Spec
  BY SameSpec, PTL DEF N!Spec, P!Spec
<1> QED BY <1>1, <1>2, ImplementsNotifier

\* Of all a poll reads from the tables, while detector and operators go on
\* changing them, nothing is lost (reliability.py:7).
THEOREM NoAlarmLost == PipelineSpec => []NoLoss
<1>1. P!Spec => []P!NoLoss
  BY SpecOfProofs, P!NothingLost
<1>2. P!NoLoss => NoLoss
  BY SameProperties
<1> QED BY <1>1, <1>2, SpecOfProofs, PTL

\* Rows that come and go do not make an alert or an incident be announced
\* again (notifier.py:6).
THEOREM NoAlarmTwice == PipelineSpec => []AnnouncedOnce
<1>1. P!Spec => []P!AnnouncedOnce
  BY SpecOfProofs, P!NoRepeats
<1>2. P!AnnouncedOnce => AnnouncedOnce
  BY SameProperties
<1> QED BY <1>1, <1>2, SpecOfProofs, PTL

\* The queue preserves order in the pipeline (reliability.py:9).
THEOREM AlarmsInOrder == PipelineSpec => []InOrder
<1>1. P!Spec => []P!InOrder
  BY SpecOfProofs, P!QueueOrder
<1>2. P!InOrder => InOrder
  BY SameProperties
<1> QED BY <1>1, <1>2, SpecOfProofs, PTL

-----------------------------------------------------------------------------
(* From the evidence to the announcement *)

\* The notifier and whoever raises alerts leave the detector alone, so that the
\* theorems above hold in the pipeline.
THEOREM ImplementsDetector == PipelineSpec => Spec
<1>1. PipelineInit => Init
  BY DEF PipelineInit
<1>2. [PipelineNext]_pipelineVars => [Next]_vars
  BY DEF PipelineNext, pipelineVars, Detects, Notifies, Raise, Acknowledge
<1> QED BY <1>1, <1>2, PTL DEF PipelineSpec, Spec

\* The keys of what was raised, acknowledged or not, and of the rows of
\* incidents, open or resolved.
Written(r) == {i \in 1 .. Len(incidents[r]) : incidents[r][i] # "unborn"}
Known ==
  {AlertKey(a) : a \in {b \in Alerts : alerts[b] # "none"}}
    \cup {IncidentKey(p[1], p[2]) : p \in
            {q \in Robots \X (1 .. MaxRows) : q[2] \in Written(q[1])}}

\* The detector deletes no row and makes none unwritten.
LEMMA RowsStay ==
  ASSUME TypeOK, [Next]_vars, NEW r \in Robots
  PROVE  Written(r) \subseteq Written(r)'
<1>1. incidents[r] \in Seq(States) /\ Len(incidents[r]) \in Nat
  BY DEF TypeOK
<1>2. CASE Poll
  <2>1. \/ incidents'[r] = incidents[r]
        \/ incidents'[r] = Append(incidents[r], "unborn")
    BY <1>2 DEF Poll
  <2>2. /\ Len(incidents'[r]) >= Len(incidents[r]) /\ Len(incidents'[r]) \in Nat
        /\ \A i \in 1 .. Len(incidents[r]) : incidents'[r][i] = incidents[r][i]
    BY <1>1, <2>1
  <2> QED BY <1>1, <2>2 DEF Written
<1>3. ASSUME NEW a \in todo, Write(a) PROVE Written(r) \subseteq Written(r)'
  <2>1. a \in ActionRecords /\ incidents \in [Robots -> Seq(States)]
    BY DEF TypeOK
  <2>2. a.src \in Robots /\ a.state # "unborn"
    BY <2>1 DEF ActionRecords
  <2>3. CASE incidents' = incidents
    BY <2>3 DEF Written
  <2>4. CASE incidents' = [incidents EXCEPT ![a.src][a.id] = a.state]
    <3>1. CASE a.src # r
      BY <2>1, <2>4, <3>1 DEF Written
    <3>2. CASE a.src = r
      <4>1. incidents'[r] = [incidents[r] EXCEPT ![a.id] = a.state]
        BY <2>1, <2>4, <3>2
      <4>2. /\ Len(incidents'[r]) = Len(incidents[r])
            /\ \A i \in 1 .. Len(incidents[r]) :
                 incidents'[r][i] = IF i = a.id THEN a.state ELSE incidents[r][i]
        BY <1>1, <4>1
      <4> QED BY <2>2, <4>2 DEF Written
    <3> QED BY <3>1, <3>2
  <2> QED BY <1>3, <2>3, <2>4 DEF Write
<1>4. CASE UNCHANGED incidents
  BY <1>4 DEF Written
<1> QED BY <1>2, <1>3, <1>4 DEF Next, vars, FailedPoll, Retune, Restart, Change

AlertsTyped == alerts \in [Alerts -> {"none", "raised", "acked"}]

\* What was known stays known, and what a poll of the notifier finds is known.
LEMMA KnownGrows ==
  ASSUME TypeOK, AlertsTyped, [PipelineNext]_pipelineVars
  PROVE  AlertsTyped' /\ Known \subseteq Known' /\ Notifiable \subseteq Known
<1>1. \A r \in Robots : Written(r) \subseteq Written(r)'
  <2>1. [Next]_vars
    BY DEF PipelineNext, pipelineVars, Detects, Notifies, Raise, Acknowledge
  <2> QED BY <2>1, RowsStay
<1>2. AlertsTyped' /\ \A a \in Alerts : alerts[a] # "none" => alerts'[a] # "none"
  <2>1. CASE UNCHANGED alerts
    BY <2>1 DEF AlertsTyped
  <2>2. ASSUME NEW b \in Alerts, Raise(b) \/ Acknowledge(b)
        PROVE  AlertsTyped' /\ \A a \in Alerts : alerts[a] # "none" => alerts'[a] # "none"
    BY <2>2 DEF Raise, Acknowledge, AlertsTyped
  <2> QED BY <2>1, <2>2 DEF PipelineNext, pipelineVars, Detects, Notifies
<1>3. Known \subseteq Known'
  BY <1>1, <1>2 DEF Known, AlertKey, IncidentKey
<1>4. \A r \in Robots : OpenRows(r) \subseteq Written(r)
  BY DEF OpenRows, Written
<1>5. Notifiable \subseteq Known
  BY <1>4 DEF Notifiable, Known
<1> QED BY <1>2, <1>3, <1>5

\* Nobody is woken for nothing (source.py:133): through polls, queues, digests,
\* retries and restarts, and while the rows come and go, what reaches a human is
\* an alert that was raised or an incident that the detector wrote.
THEOREM NobodyWokenForNothing == PipelineSpec => []NoFalseAlarm
<1> DEFINE I == AlertsTyped /\ P!Touched \subseteq Known
<1>1. PipelineInit => I
  <2>1. PipelineInit => seen = {} /\ batch = {} /\ \A k \in Keys : delivered[k] = 0
    BY DEF PipelineInit, N!Init
  <2> QED BY <2>1 DEF PipelineInit, AlertsTyped, P!Touched
<1>2. TypeOK /\ I /\ [PipelineNext]_pipelineVars /\ [P!TakesOnlyRead]_(P!vars) => I'
  <2> SUFFICES ASSUME TypeOK, I, [PipelineNext]_pipelineVars,
                      [P!TakesOnlyRead]_(P!vars)
               PROVE  I'
    OBVIOUS
  <2>1. P!Touched' \subseteq P!Touched \cup Notifiable
    BY DEF P!TakesOnlyRead, P!Touched, P!vars, P!memory
  <2> QED BY <2>1, KnownGrows
<1>3. I => NoFalseAlarm
  <2> SUFFICES ASSUME I PROVE NoFalseAlarm
    OBVIOUS
  <2>1. \A k \in Keys : delivered[k] > 0 => k \in Known
    BY DEF P!Touched
  <2>2. ASSUME NEW a \in Alerts, delivered[AlertKey(a)] > 0 PROVE alerts[a] # "none"
    <3>1. AlertKey(a) \in Known
      BY <2>1, <2>2 DEF Keys
    <3> QED BY <3>1 DEF Known, AlertKey, IncidentKey
  <2>3. ASSUME NEW r \in Robots, NEW i \in 1 .. MaxRows,
               delivered[IncidentKey(r, i)] > 0
        PROVE  i \in Written(r)
    <3>1. IncidentKey(r, i) \in Known
      BY <2>1, <2>3 DEF Keys
    <3> QED BY <3>1 DEF Known, AlertKey, IncidentKey
  <2> QED BY <2>2, <2>3 DEF NoFalseAlarm, Written
<1>4. Spec => []TypeOK
  BY TypeCorrect
<1>5. P!Spec => [][P!TakesOnlyRead]_(P!vars)
  BY SpecOfProofs, P!OnlyWhatWasRead
<1> QED
  BY <1>1, <1>2, <1>3, <1>4, <1>5, ImplementsDetector, SpecOfProofs, PTL
  DEF PipelineSpec

\* The way from a robot to a human: an incident opens and closes on confirmed
\* evidence only, a robot has at most one of them open, and whoever is woken is
\* woken for one, or for an alert, that was there, each announced once and none
\* lost but for the causes NoLoss and AnnouncedOnce name.
COROLLARY PipelineKeepsPromises ==
  PipelineSpec => /\ OpensConfirmed /\ ResolvesConfirmed
                  /\ [](OneOpenPerRobot /\ NoFalseAlarm /\ NoLoss /\ AnnouncedOnce)
BY ImplementsDetector, OneOpen, FlapGuard, ClearHold, NobodyWokenForNothing,
   NoAlarmLost, NoAlarmTwice, PTL
=============================================================================
