--------------------------- MODULE SimulatorProofs ---------------------------
(***************************************************************************)
(* What the simulator keeps as its own executor and in its missions, for   *)
(* any number of rows, robots and missions, any site and any number of     *)
(* failures.                                                               *)
(*                                                                         *)
(* Of the command gate nothing is inductive by itself: one needs to know   *)
(* that the rows still to apply are open, approved and listed once         *)
(* (Listed), and that what was applied is either in the table, under way,  *)
(* or lost (Counted).                                                      *)
(***************************************************************************)
EXTENDS SimulatorProcess, FiniteSetTheorems, TLAPS

Statuses == {"absent", "pending", "approved", "rejected", "executed", "failed"}
Closed == {"executed", "failed"}

TypeOK ==
  /\ row \in [Commands -> Statuses]
  /\ batch \in Seq(Commands)
  /\ verdict \in Verdicts \cup {"none"}
  /\ everApproved \subseteq Commands
  /\ outcomes \in [Commands -> Seq(Verdicts)]
  /\ unacked \in [Commands -> Nat]

\* The row whose command was applied last and is not PATCHed yet.
UnderWay(c) == verdict # "none" /\ batch # <<>> /\ c = batch[1]

\* The rows still to apply are approved, admissible, and each listed once.
Listed ==
  /\ \A i \in 1..Len(batch) :
       batch[i] \in everApproved /\ batch[i] \in Admissible /\ row[batch[i]] = "approved"
  /\ \A i, j \in 1..Len(batch) : i # j => batch[i] # batch[j]
  /\ verdict # "none" => batch # <<>>

\* Whatever is approved or closed was approved by a manager.
Approved == \A c \in Commands : row[c] = "approved" => c \in everApproved

\* A command was applied once for each outcome that was lost, and once more if
\* its row is closed or its PATCH under way; the last outcome is the one of the
\* PATCH.
Counted ==
  \A c \in Commands :
    /\ outcomes[c] # <<>> => c \in everApproved /\ c \in Admissible
    /\ Len(outcomes[c]) <= unacked[c] + (IF row[c] \in Closed \/ UnderWay(c) THEN 1 ELSE 0)
    /\ UnderWay(c) => outcomes[c] # <<>> /\ outcomes[c][Len(outcomes[c])] = verdict

Inv == TypeOK /\ Listed /\ Approved /\ Counted

LEMMA InitInv == Init => Inv
  BY DEF Init, Inv, TypeOK, Listed, Approved, Counted, UnderWay, Statuses, Closed

----------------------------------------------------------------------------
(* The console touches only rows that are not approved yet.                *)

LEMMA RequestKeeps ==
  ASSUME Inv, NEW c \in Commands, Request(c)
  PROVE  Inv'
<1>1. TypeOK'
  BY DEF Inv, TypeOK, Request, history, Statuses
<1>2. \A d \in Commands : row'[d] = row[d] \/ (d = c /\ row[d] = "absent" /\ row'[d] = "pending")
  BY DEF Inv, TypeOK, Request
<1>3. /\ batch' = batch /\ verdict' = verdict /\ everApproved' = everApproved
      /\ outcomes' = outcomes /\ unacked' = unacked /\ Admissible' = Admissible
  BY DEF Request, history, backend, Admissible
<1>4. \A i \in 1..Len(batch) : batch[i] \in Commands
  BY DEF Inv, TypeOK
<1>5. Listed'
  BY <1>2, <1>3, <1>4 DEF Inv, Listed
<1>6. Approved'
  BY <1>2, <1>3 DEF Inv, Approved
<1>7. Counted'
  <2> SUFFICES ASSUME NEW d \in Commands
      PROVE  /\ outcomes[d] # <<>> => d \in everApproved /\ d \in Admissible
             /\ Len(outcomes[d]) <= unacked[d] + (IF row'[d] \in Closed \/ UnderWay(d) THEN 1 ELSE 0)
             /\ UnderWay(d) => outcomes[d] # <<>> /\ outcomes[d][Len(outcomes[d])] = verdict
      BY <1>3 DEF Counted, UnderWay
  <2>1. row'[d] \in Closed <=> row[d] \in Closed
    BY <1>2 DEF Closed
  <2> QED BY <2>1 DEF Inv, Counted
<1> QED BY <1>1, <1>5, <1>6, <1>7 DEF Inv

LEMMA DecideKeeps ==
  ASSUME Inv, NEW c \in Commands, NEW decision \in {"approved", "rejected"},
         Decide(c, decision)
  PROVE  Inv'
<1>1. TypeOK'
  BY DEF Inv, TypeOK, Decide, Statuses
<1>2. \A d \in Commands :
        \/ row'[d] = row[d]
        \/ d = c /\ row[d] = "pending" /\ row'[d] = decision
  BY DEF Inv, TypeOK, Decide
<1>3. /\ batch' = batch /\ verdict' = verdict
      /\ outcomes' = outcomes /\ unacked' = unacked /\ Admissible' = Admissible
  BY DEF Decide, backend, Admissible
<1>4. everApproved \subseteq everApproved'
      /\ (decision = "approved" => c \in everApproved')
  BY DEF Decide
<1>5. \A i \in 1..Len(batch) : batch[i] \in Commands
  BY DEF Inv, TypeOK
<1>6. Listed'
  BY <1>2, <1>3, <1>4, <1>5 DEF Inv, Listed
<1>7. Approved'
  BY <1>2, <1>4 DEF Inv, Approved
<1>8. Counted'
  <2> SUFFICES ASSUME NEW d \in Commands
      PROVE  /\ outcomes[d] # <<>> => d \in everApproved' /\ d \in Admissible
             /\ Len(outcomes[d]) <= unacked[d] + (IF row'[d] \in Closed \/ UnderWay(d) THEN 1 ELSE 0)
             /\ UnderWay(d) => outcomes[d] # <<>> /\ outcomes[d][Len(outcomes[d])] = verdict
      BY <1>3 DEF Counted, UnderWay
  <2>1. row'[d] \in Closed <=> row[d] \in Closed
    BY <1>2 DEF Closed
  <2> QED BY <2>1, <1>4 DEF Inv, Counted
<1> QED BY <1>1, <1>6, <1>7, <1>8 DEF Inv

----------------------------------------------------------------------------
(* The executor.                                                           *)

LEMMA OldestIsSubset ==
  ASSUME NEW rows
  PROVE  Oldest(rows) \subseteq rows
  BY DEF Oldest

LEMMA ListOfSet ==
  ASSUME NEW rows \in SUBSET Commands, Constants, NEW list \in InOrder(rows)
  PROVE  /\ list \in Seq(Commands)
         /\ \A i \in 1..Len(list) : list[i] \in rows
         /\ \A i, j \in 1..Len(list) : i # j => list[i] # list[j]
<1>1. IsFiniteSet(Commands)
  BY FS_Interval DEF Commands, Constants
<1>2. Cardinality(rows) \in Nat
  BY <1>1, FS_Subset, FS_CardinalityType
<1>3. list \in [1..Cardinality(rows) -> rows]
  BY DEF InOrder
<1>4. list \in Seq(Commands) /\ Len(list) = Cardinality(rows)
  BY <1>2, <1>3
<1>5. \A i \in 1..Len(list) : list[i] \in rows
  BY <1>3, <1>4
<1>6. ASSUME NEW i \in 1..Len(list), NEW j \in 1..Len(list), i # j
      PROVE  list[i] # list[j]
  <2>1. i \in Int /\ j \in Int
    BY <1>2, <1>4
  <2>2. list[i] \in Int /\ list[j] \in Int
    <3>1. list[i] \in Commands /\ list[j] \in Commands
      BY <1>5
    <3>2. NCommands \in Nat
      BY DEF Constants
    <3> QED BY <3>1, <3>2 DEF Commands
  <2>3. CASE i < j
    BY <2>2, <2>3, <1>4 DEF InOrder
  <2>4. CASE j < i
    BY <2>2, <2>4, <1>4 DEF InOrder
  <2> QED BY <1>6, <2>1, <2>3, <2>4
<1> QED BY <1>4, <1>5, <1>6

LEMMA PollKeeps ==
  ASSUME Constants, Inv, Poll
  PROVE  Inv'
<1> DEFINE asked == {c \in Commands : row[c] = "approved" /\ (filters => c \in Home)}
<1> DEFINE rows == {c \in Oldest(asked) : SiteOk(c)}
<1>1. batch' \in InOrder(rows) /\ Admissible' = Admissible
  BY DEF Poll, Admit, Admissible, backend
<1>2. /\ rows \subseteq Commands
      /\ \A c \in rows : row[c] = "approved" /\ c \in Admissible
  BY OldestIsSubset DEF SiteOk, Admissible
<1>3. /\ row' = row /\ verdict' = verdict /\ everApproved' = everApproved
      /\ outcomes' = outcomes /\ unacked' = unacked /\ batch' \in InOrder(rows)
  BY <1>1 DEF Poll, Admit, history
<1> HIDE DEF rows
<1>4. /\ batch' \in Seq(Commands)
      /\ \A i \in 1..Len(batch') : batch'[i] \in rows
      /\ \A i, j \in 1..Len(batch') : i # j => batch'[i] # batch'[j]
  BY <1>2, <1>3, ListOfSet
<1>5. TypeOK'
  BY <1>3, <1>4 DEF Inv, TypeOK
<1>6. verdict' = "none" /\ verdict = "none"
  BY <1>3 DEF Poll, Idle, Inv, Listed
<1>7. Listed'
  <2>1. \A c \in rows : c \in everApproved
    BY <1>2 DEF Inv, Approved
  <2> QED BY <1>1, <1>2, <1>3, <1>4, <1>6, <2>1 DEF Listed
<1>8. Approved'
  BY <1>3 DEF Inv, Approved
<1>9. Counted'
  BY <1>1, <1>3, <1>6 DEF Inv, Counted, UnderWay
<1> QED BY <1>5, <1>7, <1>8, <1>9 DEF Inv

\* The command at the head of the list is open, and nothing of it is under way.
LEMMA ApplyKeeps ==
  ASSUME Inv, NEW v \in Verdicts, Apply(v)
  PROVE  Inv'
<1> DEFINE c == batch[1]
<1>1. batch # <<>> /\ Head(batch) = c /\ c \in Commands /\ 1 \in 1..Len(batch)
  BY DEF Apply, Idle, Inv, TypeOK
<1>2. /\ c \in everApproved /\ c \in Admissible /\ row[c] = "approved"
  BY <1>1 DEF Inv, Listed
<1>3. /\ row' = row /\ batch' = batch /\ everApproved' = everApproved
      /\ unacked' = unacked /\ Admissible' = Admissible /\ verdict = "none" /\ verdict' = v
      /\ outcomes' = [outcomes EXCEPT ![c] = Append(outcomes[c], v)]
  BY <1>1 DEF Apply, backend, Admissible
<1>4. v # "none" /\ v \in Verdicts
  BY DEF Verdicts
<1> HIDE DEF c
<1>5. TypeOK'
  BY <1>1, <1>3, <1>4 DEF Inv, TypeOK
<1>6. Listed' /\ Approved'
  BY <1>1, <1>3 DEF Inv, Listed, Approved
<1>7. Counted'
  <2> SUFFICES ASSUME NEW d \in Commands
      PROVE  /\ outcomes'[d] # <<>> => d \in everApproved /\ d \in Admissible
             /\ Len(outcomes'[d]) <=
                  unacked[d] + (IF row[d] \in Closed \/ UnderWay(d)' THEN 1 ELSE 0)
             /\ UnderWay(d)' =>
                  outcomes'[d] # <<>> /\ outcomes'[d][Len(outcomes'[d])] = v
      BY <1>3 DEF Counted
  <2>1. UnderWay(d)' <=> d = c
    BY <1>1, <1>3, <1>4 DEF UnderWay, c
  <2>2. ~UnderWay(d)
    BY <1>3 DEF UnderWay
  <2>3. CASE d # c
    <3>1. outcomes'[d] = outcomes[d]
      BY <1>3, <2>3 DEF Inv, TypeOK
    <3> QED BY <2>1, <2>2, <2>3, <3>1 DEF Inv, Counted
  <2>4. CASE d = c
    <3>1. outcomes[d] \in Seq(Verdicts) /\ outcomes'[d] = Append(outcomes[d], v)
      BY <1>3 , <2>4 DEF Inv, TypeOK
    <3>2. /\ Len(outcomes'[d]) = Len(outcomes[d]) + 1
          /\ outcomes'[d] # <<>> /\ outcomes'[d][Len(outcomes'[d])] = v
      BY <3>1
    <3>3. row[d] \notin Closed
      BY <1>2, <2>4 DEF Closed
    <3>4. Len(outcomes[d]) <= unacked[d] /\ unacked[d] \in Nat
      BY <2>2, <3>3 DEF Inv, Counted, TypeOK
    <3> QED BY <1>2, <2>1, <2>4, <3>1, <3>2, <3>4
  <2> QED BY <2>3, <2>4
<1> QED BY <1>5, <1>6, <1>7 DEF Inv

\* The list after its head is done with.
LEMMA TailOfBatch ==
  ASSUME Inv, Done
  PROVE  /\ batch # <<>> /\ Head(batch) = batch[1] /\ batch[1] \in Commands
         /\ row[batch[1]] = "approved" /\ verdict \in Verdicts /\ UnderWay(batch[1])
         /\ batch' \in Seq(Commands) /\ verdict' = "none"
         /\ \A i \in 1..Len(batch') :
              /\ batch'[i] \in everApproved /\ batch'[i] \in Admissible
              /\ row[batch'[i]] = "approved" /\ batch'[i] # batch[1]
         /\ \A i, j \in 1..Len(batch') : i # j => batch'[i] # batch'[j]
<1>1. batch \in Seq(Commands) /\ batch # <<>> /\ batch' = Tail(batch)
  BY DEF Done, Idle, Inv, TypeOK
<1>2. /\ Len(batch) \in Nat \ {0} /\ Len(batch') = Len(batch) - 1
      /\ \A i \in 1..Len(batch') : i + 1 \in 1..Len(batch) /\ batch'[i] = batch[i + 1]
  BY <1>1
<1>3. /\ Head(batch) = batch[1] /\ batch[1] \in Commands /\ 1 \in 1..Len(batch)
      /\ batch' \in Seq(Commands)
  BY <1>1
<1>4. row[batch[1]] = "approved"
  BY <1>3 DEF Inv, Listed
<1>5. verdict \in Verdicts /\ verdict # "none" /\ verdict' = "none"
  BY DEF Done, Inv, TypeOK
<1>6. ASSUME NEW i \in 1..Len(batch')
      PROVE  /\ batch'[i] \in everApproved /\ batch'[i] \in Admissible
             /\ row[batch'[i]] = "approved" /\ batch'[i] # batch[1]
  <2>1. i + 1 \in 1..Len(batch) /\ i + 1 # 1 /\ batch'[i] = batch[i + 1]
    BY <1>2
  <2> QED BY <1>3, <2>1 DEF Inv, Listed
<1>7. ASSUME NEW i \in 1..Len(batch'), NEW j \in 1..Len(batch'), i # j
      PROVE  batch'[i] # batch'[j]
  <2>1. /\ i + 1 \in 1..Len(batch) /\ j + 1 \in 1..Len(batch) /\ i + 1 # j + 1
        /\ batch'[i] = batch[i + 1] /\ batch'[j] = batch[j + 1]
    BY <1>2, <1>7
  <2> QED BY <2>1 DEF Inv, Listed
<1>8. UnderWay(batch[1])
  BY <1>1, <1>5 DEF UnderWay
<1> QED BY <1>1, <1>3, <1>4, <1>5, <1>6, <1>7, <1>8

LEMMA PatchKeeps ==
  ASSUME Inv, Patch
  PROVE  Inv'
<1> DEFINE c == batch[1]
<1>1. Done
  BY DEF Patch
<1>2. /\ row' = [row EXCEPT ![c] = StatusOf(verdict)]
      /\ everApproved' = everApproved /\ outcomes' = outcomes /\ unacked' = unacked
      /\ Admissible' = Admissible
  BY <1>1, TailOfBatch DEF Patch, history, backend, Admissible
<1>3. StatusOf(verdict) \in Closed /\ StatusOf(verdict) \in Statuses
      /\ StatusOf(verdict) # "approved"
  BY DEF StatusOf, Closed, Statuses
<1>4. c \in Commands /\ row[c] = "approved" /\ verdict' = "none" /\ UnderWay(c)
  BY <1>1, TailOfBatch
<1> HIDE DEF c
<1>5. /\ row'[c] \in Closed /\ row'[c] # "approved"
      /\ \A d \in Commands \ {c} : row'[d] = row[d]
  BY <1>2, <1>3, <1>4 DEF Inv, TypeOK
<1>6. TypeOK'
  BY <1>1, <1>2, <1>3, <1>4, TailOfBatch DEF Inv, TypeOK
<1>7. Listed'
  <2>1. \A i \in 1..Len(batch') : batch'[i] \in Commands \ {c}
    BY <1>1, TailOfBatch DEF c
  <2> QED BY <1>1, <1>2, <1>4, <1>5, <2>1, TailOfBatch DEF Listed
<1>8. Approved'
  BY <1>2, <1>5 DEF Inv, Approved
<1>9. Counted'
  <2> SUFFICES ASSUME NEW d \in Commands
      PROVE  /\ outcomes[d] # <<>> => d \in everApproved /\ d \in Admissible
             /\ Len(outcomes[d]) <= unacked[d] + (IF row'[d] \in Closed THEN 1 ELSE 0)
      BY <1>2, <1>4 DEF Counted, UnderWay
  <2>1. row[d] \in Closed \/ UnderWay(d) => row'[d] \in Closed
    BY <1>1, <1>4, <1>5 DEF UnderWay, c
  <2>2. Len(outcomes[d]) \in Nat /\ unacked[d] \in Nat
    BY DEF Inv, TypeOK
  <2> QED BY <2>1, <2>2 DEF Inv, Counted
<1> QED BY <1>6, <1>7, <1>8, <1>9 DEF Inv

\* A lost outcome, whether its PATCH failed or the simulator died.
LEMMA LossKeeps ==
  ASSUME Inv, PatchFails \/ Dies
  PROVE  Inv'
<1> DEFINE c == batch[1]
<1>1. /\ row' = row /\ everApproved' = everApproved /\ outcomes' = outcomes
      /\ Admissible' = Admissible /\ verdict' = "none"
  BY DEF PatchFails, Dies, Done, backend, Admissible
<1>2. batch # <<>> /\ Head(batch) = c /\ c \in Commands
  BY DEF PatchFails, Dies, Done, Idle, Inv, TypeOK, Listed
<1>3. unacked' = [unacked EXCEPT ![c] = @ + 1]
  BY <1>2 DEF PatchFails, Dies, Fail
<1>4. batch' \in Seq(Commands) /\ Listed'
  <2>1. CASE PatchFails
    BY <1>1, <2>1, TailOfBatch DEF PatchFails, Listed
  <2>2. CASE Dies
    BY <1>1, <2>2 DEF Dies, Listed
  <2> QED BY <2>1, <2>2
<1> HIDE DEF c
<1>5. TypeOK'
  BY <1>1, <1>2, <1>3, <1>4 DEF Inv, TypeOK
<1>6. Approved'
  BY <1>1 DEF Inv, Approved
<1>7. Counted'
  <2> SUFFICES ASSUME NEW d \in Commands
      PROVE  /\ outcomes[d] # <<>> => d \in everApproved /\ d \in Admissible
             /\ Len(outcomes[d]) <= unacked'[d] + (IF row[d] \in Closed THEN 1 ELSE 0)
      BY <1>1 DEF Counted, UnderWay
  <2>1. Len(outcomes[d]) \in Nat /\ unacked[d] \in Nat
    BY DEF Inv, TypeOK
  <2>2. CASE d = c
    <3>1. unacked'[d] = unacked[d] + 1
      BY <1>2, <1>3, <2>2 DEF Inv, TypeOK
    <3> QED BY <2>1, <3>1 DEF Inv, Counted
  <2>3. CASE d # c
    <3>1. unacked'[d] = unacked[d] /\ ~UnderWay(d)
      BY <1>3, <2>3 DEF Inv, TypeOK, UnderWay, c
    <3> QED BY <2>1, <3>1 DEF Inv, Counted
  <2> QED BY <2>2, <2>3
<1> QED BY <1>4, <1>5, <1>6, <1>7 DEF Inv, TypeOK

LEMMA NextKeeps == ASSUME Constants, Inv, [Next]_vars PROVE Inv'
<1>1. CASE UNCHANGED vars
  BY <1>1 DEF vars, backend, history, Admissible, Inv, TypeOK, Listed, Approved,
                  Counted, UnderWay
<1>2. ASSUME NEW c \in Commands,
             Request(c) \/ \E d \in {"approved", "rejected"} : Decide(c, d)
      PROVE  Inv'
  BY <1>2, RequestKeeps, DecideKeeps
<1>3. CASE Executor
  BY <1>3, PollKeeps, ApplyKeeps, PatchKeeps DEF Executor
<1>4. CASE PatchFails \/ Dies
  BY <1>4, LossKeeps
<1> QED BY <1>1, <1>2, <1>3, <1>4 DEF Next

LEMMA InvAlways == ASSUME Constants PROVE Spec => []Inv
<1>1. Init => Inv
  BY InitInv
<1>2. Inv /\ [Next]_vars => Inv'
  BY NextKeeps
<1> QED BY <1>1, <1>2, PTL DEF Spec

----------------------------------------------------------------------------
(* Results.                                                                *)

\* A robot carries out only what a manager approved, and nothing of another site
\* where the backend honours the filter or returns the site_id column that
\* _site_ok compares; and a command again only after an outcome of it was lost.
THEOREM ApprovedOnly == ASSUME Constants PROVE Spec => []AppliedAsApproved
<1>1. Inv => AppliedAsApproved
  <2> SUFFICES ASSUME Inv, NEW c \in Commands
      PROVE  /\ outcomes[c] # <<>> => c \in everApproved /\ c \in Admissible
             /\ Len(outcomes[c]) <= 1 + unacked[c]
      BY DEF AppliedAsApproved
  <2>1. Len(outcomes[c]) \in Nat /\ unacked[c] \in Nat
    BY DEF Inv, TypeOK
  <2> QED BY <2>1 DEF Inv, Counted
<1> QED BY <1>1, InvAlways, PTL

\* What CommandGate sees of the outcomes.
Answers(c) == {outcomes[c][i] : i \in 1..Len(outcomes[c])}

LEMMA GateStep ==
  ASSUME Inv, Next, \A c \in Commands : unacked'[c] = 0
  PROVE  Gate!Next \/ UNCHANGED gvars
<1>1. ASSUME NEW c \in Commands, Request(c) PROVE Gate!Next
  <2>1. Gate!Request(c)
    BY <1>1 DEF Request, Gate!Request, history
  <2> QED BY <2>1 DEF Gate!Next
<1>2. ASSUME NEW c \in Commands, NEW d \in {"approved", "rejected"}, Decide(c, d)
      PROVE  Gate!Next
  <2>1. Gate!Decide(c, d)
    BY <1>2 DEF Decide, Gate!Decide
  <2> QED BY <2>1 DEF Gate!Next
<1>3. CASE Poll
  BY <1>3 DEF Poll, Admit, history, gvars
<1>4. ASSUME NEW v \in Verdicts, Apply(v) PROVE Gate!Next
  <2>1. PICK c \in Commands :
          Head(batch) = c /\ row[c] = "approved" /\ verdict = "none"
    BY <1>4 DEF Apply, Idle, Inv, TypeOK, Listed
  <2>2. outcomes' = [outcomes EXCEPT ![c] = Append(outcomes[c], v)]
        /\ row' = row /\ unacked' = unacked
    BY <1>4, <2>1 DEF Apply
  <2>3. outcomes[c] \in Seq(Verdicts) /\ Len(outcomes[c]) <= 0
    <3>1. row[c] \notin Closed /\ ~UnderWay(c) /\ unacked[c] = 0
      BY <2>1, <2>2 DEF UnderWay, Closed
    <3> QED BY <2>1, <3>1 DEF Inv, TypeOK, Counted
  <2>4. outcomes[c] = <<>>
    BY <2>3
  <2>5. Answers(c) = {}
    BY <2>4 DEF Answers
  <2>6. outcomes'[c] = <<v>>
    BY <2>1, <2>2, <2>4 DEF Inv, TypeOK
  <2>7. Answers(c)' = {v}
    BY <2>6 DEF Answers
  <2>8. \A d \in Commands \ {c} : Answers(d)' = Answers(d)
    BY <2>2 DEF Inv, TypeOK, Answers
  <2>9. [d \in Commands |-> Answers(d)]'
          = [[d \in Commands |-> Answers(d)] EXCEPT ![c] = {v}]
    BY <2>1, <2>7, <2>8
  <2>10. Gate!Carry(c, v)
    BY <2>1, <2>2, <2>5, <2>9 DEF Gate!Carry, Answers
  <2> QED BY <2>1, <2>10 DEF Gate!Next, Gate!Verdicts, Verdicts
<1>5. CASE Patch
  <2> DEFINE c == batch[1]
  <2>1. c \in Commands /\ Head(batch) = c /\ row[c] = "approved" /\ UnderWay(c)
    BY <1>5, TailOfBatch DEF Patch
  <2>2. verdict \in Answers(c)
    <3>1. outcomes[c] \in Seq(Verdicts) /\ outcomes[c] # <<>>
          /\ outcomes[c][Len(outcomes[c])] = verdict
      BY <2>1 DEF Inv, TypeOK, Counted
    <3> QED BY <3>1 DEF Answers
  <2>3. row' = [row EXCEPT ![c] = Gate!StatusOf(verdict)] /\ outcomes' = outcomes
    BY <1>5, <2>1 DEF Patch, StatusOf, Gate!StatusOf, history
  <2>4. Gate!Close(c)
    BY <2>1, <2>2, <2>3 DEF Gate!Close, Answers
  <2> QED BY <2>1, <2>4 DEF Gate!Next
<1>6. CASE PatchFails \/ Dies
  BY <1>6 DEF PatchFails, Dies, gvars
<1> QED BY <1>1, <1>2, <1>3, <1>4, <1>5, <1>6 DEF Next, Executor

\* Until an outcome is lost, every step of the executor is one that the command
\* gate allows.
THEOREM ImplementsGate == ASSUME Constants PROVE Spec => KeepsGate
<1>1. Init => Gate!Init
  BY DEF Init, Gate!Init
<1>2. Inv /\ [Next]_vars => [(\A c \in Commands : unacked'[c] = 0) => Gate!Next]_gvars
  <2>1. CASE UNCHANGED vars
    BY <2>1 DEF vars, history, gvars
  <2> QED BY <2>1, GateStep
<1> QED BY <1>1, <1>2, InvAlways, PTL DEF Spec, KeepsGate

----------------------------------------------------------------------------
(* The missions.                                                           *)

MissionStates == {"absent", "Queued", "Running", "Done", "dropped"}

Mission == [planned : Nat, done : Nat, state : MissionStates, age : Nat]

MissionsOK ==
  /\ missions \in [Missions!Ids -> Mission]
  /\ seq \in 0..MaxMissions
  /\ owner \in [Missions!Fleet -> 0..MaxMissions]
  /\ doing \in [Missions!Fleet -> {"free", "task", "order"}]
  /\ tag \in [Missions!Fleet -> 0..MaxMissions]
  /\ work \in [Missions!Fleet -> 0..MaxMissions]
  /\ table \in [Missions!Ids -> MissionStates]
  /\ failedPosts \in 0..MaxFailedPosts

\* The tag of a robot at work is the mission it was assigned for. A tag that an
\* abandoned task left behind is on a robot that is free.
Tagged ==
  \A r \in Missions!Fleet :
    doing[r] # "free" /\ tag[r] # 0 => doing[r] = "task" /\ tag[r] = work[r]

\* A mission that is done, and whose row does not say so, has not been done for
\* longer than posts have failed.
Posted ==
  \A m \in Missions!Ids :
    /\ missions[m].state # "Done" => missions[m].age = 0
    /\ missions[m].state = "Done" /\ table[m] # "Done" => missions[m].age <= failedPosts
    /\ missions[m].state = "dropped" /\ MaxFailedPosts <= Linger => table[m] = "Done"

LEMMA MissionNumbers ==
  ASSUME Missions!Constants
  PROVE  /\ MaxMissions \in Nat /\ MaxFailedPosts \in Nat /\ Linger \in Nat
         /\ Tasks \subseteq Nat
         /\ Missions!Unborn \in Mission
         /\ Missions!Unborn.done = 0 /\ Missions!Unborn.age = 0
         /\ Missions!Unborn.state = "absent"
  BY DEF Missions!Constants, Missions!Unborn, Mission, MissionStates

LEMMA MissionsInit ==
  ASSUME Missions!Constants, Missions!Init
  PROVE  MissionsOK /\ Tagged /\ Posted
<1>1. MissionsOK
  BY MissionNumbers DEF Missions!Init, MissionsOK, MissionStates
<1> QED BY <1>1, MissionNumbers DEF Missions!Init, Tagged, Posted

\* What a robot gets tagged with, and what its work is credited to.
LEMMA TagIsMission ==
  ASSUME Missions!Constants, MissionsOK, NEW r \in Missions!Fleet
  PROVE  Missions!Tag(r) \in 0..MaxMissions
  BY MissionNumbers DEF MissionsOK, Missions!Tag

LEMMA CreditIsOwn ==
  ASSUME Missions!Constants, MissionsOK, NEW r \in Missions!Fleet
  PROVE  /\ Missions!Credit(r) \in [Missions!Ids -> Mission]
         /\ \A m \in Missions!Ids :
              /\ Missions!Credit(r)[m].state = missions[m].state
              /\ Missions!Credit(r)[m].age = missions[m].age
              /\ Missions!Credit(r)[m].done # missions[m].done => tag[r] = m
<1>1. CASE tag[r] # 0 /\ Missions!Active(tag[r])
  <2>1. tag[r] \in Missions!Ids
    BY <1>1, MissionNumbers DEF MissionsOK, Missions!Ids
  <2>2. Missions!Credit(r) = [missions EXCEPT ![tag[r]].done = @ + 1]
    BY <1>1 DEF Missions!Credit
  <2> QED BY <2>1, <2>2 DEF MissionsOK, Mission
<1>2. CASE ~(tag[r] # 0 /\ Missions!Active(tag[r]))
  <2>1. Missions!Credit(r) = missions
    BY <1>2 DEF Missions!Credit
  <2> QED BY <2>1 DEF MissionsOK
<1> QED BY <1>1, <1>2

----------------------------------------------------------------------------
(* What each step of the fleet does to the missions.                       *)

\* Only work that is finished adds to what a mission has done.
OwnWork ==
  \A m \in Missions!Ids : missions'[m].done > missions[m].done =>
    \E r \in Missions!Fleet : doing[r] = "task" /\ doing'[r] = "free" /\ work[r] = m

MissionsKept == MissionsOK' /\ Tagged' /\ Posted' /\ OwnWork

LEMMA UpsetKeeps ==
  ASSUME Missions!Constants, MissionsOK, Tagged, Posted, NEW r \in Missions!Fleet,
         Missions!Order(r) \/ \E untag \in BOOLEAN : Missions!Abandon(r, untag)
  PROVE  MissionsKept
<1>1. missions' = missions /\ table' = table /\ failedPosts' = failedPosts /\ seq' = seq
  BY DEF Missions!Order, Missions!Abandon, Missions!pool
<1>2. MissionsOK'
  BY <1>1, MissionNumbers
     DEF MissionsOK, Missions!Order, Missions!Abandon, Missions!pool
<1>3. Tagged'
  BY DEF MissionsOK, Tagged, Missions!Order, Missions!Abandon
<1>4. Posted' /\ OwnWork
  BY <1>1 DEF Posted, OwnWork, MissionsOK, Mission
<1> QED BY <1>2, <1>3, <1>4 DEF MissionsKept

LEMMA TurnKeeps ==
  ASSUME Missions!Constants, MissionsOK, Tagged, Posted, NEW r \in Missions!Fleet,
         Missions!Stay(r) \/ Missions!Assign(r) \/ Missions!Finish(r)
  PROVE  MissionsKept
<1>1. table' = table /\ failedPosts' = failedPosts /\ seq' = seq /\ owner' = owner
  BY DEF Missions!Stay, Missions!Assign, Missions!Finish, Missions!Turn
<1>2. CASE Missions!Stay(r)
  <2>1. missions' = missions /\ doing' = doing /\ tag' = tag /\ work' = work
    BY <1>2 DEF Missions!Stay, Missions!hands
  <2> QED BY <1>1, <2>1 DEF MissionsKept, MissionsOK, Mission, Tagged, Posted, OwnWork
<1>3. CASE Missions!Assign(r)
  <2>1. \A m \in Missions!Ids :
          missions'[m] = IF m = Missions!Tag(r)
                         THEN [missions[m] EXCEPT !.state = "Running"] ELSE missions[m]
    BY <1>3 DEF Missions!Assign
  <2>2. missions' \in [Missions!Ids -> Mission]
    BY <1>3, <2>1 DEF Missions!Assign, MissionsOK, Mission, MissionStates
  <2>3. MissionsOK'
    BY <1>1, <1>3, <2>2, TagIsMission, MissionNumbers DEF Missions!Assign, MissionsOK
  <2>4. Tagged'
    BY <1>3 DEF Missions!Assign, MissionsOK, Tagged
  <2>5. \A m \in Missions!Ids :
          /\ missions'[m].done = missions[m].done
          /\ \/ missions'[m] = missions[m]
             \/ /\ Missions!Active(m)
                /\ missions'[m].state = "Running" /\ missions'[m].age = missions[m].age
    <3>1. \A m \in Missions!Ids : m = Missions!Tag(r) => Missions!Active(m)
      BY DEF Missions!Tag, Missions!Ids
    <3> QED BY <2>1, <3>1 DEF MissionsOK, Mission
  <2>6. Posted' /\ OwnWork
    BY <1>1, <2>5 DEF Posted, OwnWork, MissionsOK, Mission, Missions!Active
  <2> QED BY <2>3, <2>4, <2>6 DEF MissionsKept
<1>4. CASE Missions!Finish(r)
  <2>1. /\ missions' = Missions!Credit(r) /\ doing[r] # "free"
        /\ doing' = [doing EXCEPT ![r] = "free"]
    BY <1>4 DEF Missions!Finish
  <2>2. MissionsOK'
    BY <1>1, <1>4, CreditIsOwn, MissionNumbers DEF Missions!Finish, MissionsOK
  <2>3. Tagged'
    BY <1>4 DEF Missions!Finish, MissionsOK, Tagged
  <2>4. Posted'
    BY <1>1, <2>1, CreditIsOwn DEF Posted
  <2>5. OwnWork
    <3> SUFFICES ASSUME NEW m \in Missions!Ids, missions'[m].done > missions[m].done
        PROVE  doing[r] = "task" /\ doing'[r] = "free" /\ work[r] = m
      BY DEF OwnWork
    <3>1. missions[m].done \in Nat
      BY DEF MissionsOK, Mission
    <3>2. tag[r] = m /\ m # 0
      BY <2>1, <3>1, CreditIsOwn DEF Missions!Ids
    <3> QED BY <2>1, <3>2 DEF Tagged, MissionsOK
  <2> QED BY <2>2, <2>3, <2>4, <2>5 DEF MissionsKept
<1> QED BY <1>2, <1>3, <1>4

LEMMA UpkeepKeeps ==
  ASSUME Missions!Constants, MissionsOK, Tagged, Posted, Missions!Upkeep
  PROVE  MissionsKept
<1>1. doing' = doing /\ tag' = tag /\ work' = work
  BY DEF Missions!Upkeep, Missions!EndMissions, Missions!Spawn, Missions!Prune,
         Missions!Post, Missions!PostFails, Missions!Over, Missions!hands
<1>2. Tagged'
  BY <1>1 DEF Tagged
<1>3. ASSUME \A m \in Missions!Ids : missions'[m].done \in {missions[m].done, 0}
      PROVE  OwnWork
  BY <1>3 DEF OwnWork, MissionsOK, Mission
<1>4. CASE Missions!EndMissions
  <2>1. \A m \in Missions!Ids :
          \/ missions'[m] = missions[m]
          \/ Missions!Active(m) /\ missions'[m] = [missions[m] EXCEPT !.state = "Done"]
    BY <1>4 DEF Missions!EndMissions, Missions!Complete
  <2>2. missions' \in [Missions!Ids -> Mission]
    BY <1>4, <2>1 DEF Missions!EndMissions, MissionsOK, Mission, MissionStates
  <2>3. MissionsOK'
    BY <1>1, <1>4, <2>2, MissionNumbers DEF Missions!EndMissions, MissionsOK
  <2>4. Posted' /\ OwnWork
    BY <1>3, <1>4, <2>1, MissionNumbers
       DEF Posted, MissionsOK, Mission, Missions!EndMissions, Missions!Active
  <2> QED BY <1>2, <2>3, <2>4 DEF MissionsKept
<1>5. ASSUME NEW crew \in SUBSET Missions!Free, NEW planned \in Tasks,
             Missions!Spawn(crew, planned)
      PROVE  MissionsKept
  <2> DEFINE new == [Missions!Unborn EXCEPT !.planned = planned, !.state = "Queued"]
  <2>1. new \in Mission /\ new.state = "Queued" /\ new.age = 0 /\ new.done = 0
    BY MissionNumbers DEF Mission, MissionStates
  <2>2. seq + 1 \in Missions!Ids /\ seq + 1 \in 0..MaxMissions
    BY <1>5, MissionNumbers DEF Missions!Spawn, Missions!Wanted, MissionsOK, Missions!Ids
  <2>3. missions' = [missions EXCEPT ![seq + 1] = new] /\ seq' = seq + 1
        /\ table' = table /\ failedPosts' = failedPosts
    BY <1>5 DEF Missions!Spawn
  <2> HIDE DEF new
  <2>4. MissionsOK'
    BY <1>1, <1>5, <2>1, <2>2, <2>3, MissionNumbers DEF Missions!Spawn, MissionsOK
  <2>5. Posted' /\ OwnWork
    BY <1>3, <2>1, <2>2, <2>3 DEF Posted, MissionsOK
  <2> QED BY <1>2, <2>4, <2>5 DEF MissionsKept
<1>6. CASE Missions!Prune
  <2>1. \A m \in Missions!Ids :
          \/ missions'[m] = missions[m] /\ ~Missions!Dropped(missions[m])
          \/ /\ Missions!Dropped(missions[m])
             /\ missions'[m] = [Missions!Unborn EXCEPT !.state = "dropped"]
    BY <1>6 DEF Missions!Prune
  <2>2. missions' \in [Missions!Ids -> Mission]
    BY <1>6, <2>1, MissionNumbers DEF Missions!Prune, MissionsOK, Mission, MissionStates
  <2>3. MissionsOK'
    BY <1>1, <1>6, <2>2 DEF Missions!Prune, MissionsOK
  <2>4. \A m \in Missions!Ids :
          Missions!Dropped(missions[m]) /\ MaxFailedPosts <= Linger => table[m] = "Done"
    BY MissionNumbers DEF Missions!Dropped, Posted, MissionsOK, Mission
  <2>5. table' = table /\ failedPosts' = failedPosts
    BY <1>6 DEF Missions!Prune
  <2>6. \A m \in Missions!Ids : missions'[m] = missions[m] \/
          (/\ missions'[m].state = "dropped"
           /\ MaxFailedPosts <= Linger => table[m] = "Done"
           /\ missions'[m].age = 0 /\ missions'[m].done = 0)
    BY <2>1, <2>4, MissionNumbers DEF Mission
  <2>7. Posted' /\ OwnWork
    BY <1>3, <2>5, <2>6 DEF Posted
  <2> QED BY <1>2, <2>3, <2>7 DEF MissionsKept
<1>7. CASE Missions!Post \/ Missions!PostFails
  <2>1. \A m \in Missions!Ids :
          /\ missions'[m] = IF missions[m].state = "Done"
                            THEN [missions[m] EXCEPT !.age = @ + 1] ELSE missions[m]
    BY <1>7 DEF Missions!Post, Missions!PostFails, Missions!Over
  <2>2. missions' \in [Missions!Ids -> Mission]
    <3>1. ASSUME NEW m \in Missions!Ids PROVE missions'[m] \in Mission
      <4>1. missions[m] \in Mission /\ missions[m].age + 1 \in Nat
        BY DEF MissionsOK, Mission
      <4>2. [missions[m] EXCEPT !.age = @ + 1] \in Mission
        BY <4>1 DEF Mission
      <4> QED BY <2>1, <4>1, <4>2
    <3>2. DOMAIN missions' = Missions!Ids
          /\ missions' = [m \in Missions!Ids |-> missions'[m]]
      BY <1>7 DEF Missions!Post, Missions!PostFails, Missions!Over
    <3> QED BY <3>1, <3>2
  <2>3. seq' = seq /\ owner' = owner
    BY <1>7 DEF Missions!Post, Missions!PostFails, Missions!Over
  <2>4. \A m \in Missions!Ids :
          /\ missions'[m].state = missions[m].state /\ missions'[m].done = missions[m].done
          /\ missions[m].state # "Done" => missions'[m].age = missions[m].age
          /\ missions[m].state = "Done" => missions'[m].age = missions[m].age + 1
    BY <2>1 DEF MissionsOK, Mission
  <2>5. OwnWork
    BY <1>3, <2>4
  <2>6. CASE Missions!Post
    <3>1. /\ failedPosts' = failedPosts
          /\ table' = [m \in Missions!Ids |->
               IF Missions!InSnapshot(m) THEN missions[m].state ELSE table[m]]
      BY <2>6 DEF Missions!Post
    <3>2. MissionsOK'
      BY <1>1, <2>2, <2>3, <3>1 DEF MissionsOK, Mission
    <3>3. \A m \in Missions!Ids :
            /\ missions[m].state = "Done" => table'[m] = "Done"
            /\ missions[m].state = "dropped" => table'[m] = table[m]
      BY <3>1 DEF Missions!InSnapshot, Missions!Active
    <3>4. Posted'
      BY <2>4, <3>3 DEF Posted
    <3> QED BY <1>2, <2>5, <3>2, <3>4 DEF MissionsKept
  <2>7. CASE Missions!PostFails
    <3>1. /\ table' = table /\ failedPosts' = failedPosts + 1
          /\ failedPosts < MaxFailedPosts
      BY <2>7 DEF Missions!PostFails
    <3>2. MissionsOK'
      BY <1>1, <2>2, <2>3, <3>1, MissionNumbers DEF MissionsOK
    <3>3. Posted'
      BY <2>4, <3>1, MissionNumbers DEF Posted, MissionsOK, Mission
    <3> QED BY <1>2, <2>5, <3>2, <3>3 DEF MissionsKept
  <2> QED BY <1>7, <2>6, <2>7
<1> QED BY <1>4, <1>5, <1>6, <1>7 DEF Missions!Upkeep

LEMMA MissionsSteps ==
  ASSUME Missions!Constants, MissionsOK, Tagged, Posted, [Missions!Next]_(Missions!vars)
  PROVE  MissionsOK' /\ Tagged' /\ Posted'
         /\ [OwnWork]_(Missions!vars)
<1>1. CASE UNCHANGED Missions!vars
  BY <1>1 DEF Missions!vars, MissionsOK, Tagged, Posted
<1>2. CASE Missions!Tick
  <2>1. /\ missions' = missions /\ seq' = seq /\ owner' = owner /\ doing' = doing
        /\ tag' = tag /\ work' = work /\ table' = table /\ failedPosts' = failedPosts
    BY <1>2 DEF Missions!Tick, Missions!pool, Missions!hands
  <2> QED BY <2>1 DEF MissionsOK, Mission, Tagged, Posted, OwnWork
<1>3. CASE Missions!Next /\ ~Missions!Tick
  <2>1. MissionsKept
    BY <1>3, UpsetKeeps, TurnKeeps, UpkeepKeeps DEF Missions!Next
  <2> QED BY <2>1 DEF MissionsKept
<1> QED BY <1>1, <1>2, <1>3

LEMMA MissionsAlways ==
  ASSUME Missions!Constants
  PROVE  Missions!Spec => [](MissionsOK /\ Tagged /\ Posted) /\ CreditsOwnWork
<1>1. Missions!Init => MissionsOK /\ Tagged /\ Posted
  BY MissionsInit
<1>2. MissionsOK /\ Tagged /\ Posted /\ [Missions!Next]_(Missions!vars)
        => MissionsOK' /\ Tagged' /\ Posted' /\ [OwnWork]_(Missions!vars)
  BY MissionsSteps
<1> QED BY <1>1, <1>2, PTL
        DEF Missions!Spec, CreditsOwnWork, Missions!CreditsOwnWork, OwnWork

\* A task counts once, and for the mission it was assigned for, whatever tags
\* abandoned tasks leave behind.
THEOREM WorkIsCredited ==
  ASSUME Missions!Constants PROVE Missions!Spec => CreditsOwnWork
BY MissionsAlways

\* The completion of a mission reaches the table although posts fail, as long
\* as no more do than a mission lingers ticks.
THEOREM CompletionArrives ==
  ASSUME Missions!Constants, MaxFailedPosts <= Linger
  PROVE  Missions!Spec => []CompletionIsPosted
<1>1. Posted => CompletionIsPosted
  BY DEF Posted, CompletionIsPosted, Missions!CompletionIsPosted
<1> QED BY <1>1, MissionsAlways, PTL

----------------------------------------------------------------------------
(* The crews. What is missing to an inductive invariant is that a mission  *)
(* to come has never been in flight, so that nobody belongs to it yet.     *)

Unspawned == \A m \in Missions!Ids : m > seq => missions[m].state = "absent"

\* The sets counted are finite, and counting in FleetMissions is counting here.
LEMMA Counting ==
  ASSUME Missions!Constants
  PROVE  /\ \A S : Missions!Cardinality(S) = Cardinality(S)
         /\ \A S \in SUBSET Missions!Fleet : IsFiniteSet(S) /\ Cardinality(S) \in Nat
         /\ \A S \in SUBSET Missions!Ids : IsFiniteSet(S) /\ Cardinality(S) \in Nat
<1>1. \A S : Missions!Cardinality(S) = Cardinality(S)
  BY DEF Missions!Cardinality, Cardinality
<1>2. \A n \in Nat : \A S \in SUBSET (1..n) : IsFiniteSet(S) /\ Cardinality(S) \in Nat
  <2> SUFFICES ASSUME NEW n \in Nat, NEW S \in SUBSET (1..n)
               PROVE  IsFiniteSet(S) /\ Cardinality(S) \in Nat
    OBVIOUS
  <2>1. IsFiniteSet(1..n)
    BY FS_Interval
  <2>2. IsFiniteSet(S)
    BY <2>1, FS_Subset
  <2> QED BY <2>2, FS_CardinalityType
<1>3. Robots \in Nat /\ MaxMissions \in Nat
  BY DEF Missions!Constants
<1> QED BY <1>1, <1>2, <1>3 DEF Missions!Fleet, Missions!Ids

\* Robots may leave their missions, and missions may end, if those of an ended
\* one are free.
LEMMA CrewsShrink ==
  ASSUME Missions!Constants, Missions!CrewsFit,
         Missions!InFlight' \subseteq Missions!InFlight,
         \A r \in Missions!Fleet : owner'[r] \in {0, owner[r]},
         \A r \in Missions!Fleet : owner'[r] # 0 => owner'[r] \in Missions!InFlight'
  PROVE  Missions!CrewsFit'
<1>1. Missions!InFlight \in SUBSET Missions!Ids
  BY DEF Missions!InFlight
<1>2. Cardinality(Missions!InFlight') <= Target
  <2>1. Cardinality(Missions!InFlight') <= Cardinality(Missions!InFlight)
    BY <1>1, Counting, FS_Subset
  <2>2. Cardinality(Missions!InFlight) <= Target /\ Target \in Nat
    BY Counting DEF Missions!CrewsFit, Missions!Constants
  <2>3. Cardinality(Missions!InFlight) \in Nat /\ Cardinality(Missions!InFlight') \in Nat
    BY <1>1, Counting
  <2> QED BY <2>1, <2>2, <2>3
<1>3. ASSUME NEW m \in Missions!Ids PROVE Cardinality(Missions!Crew(m)') <= MaxCrew
  <2>1. Missions!Crew(m)' \subseteq Missions!Crew(m)
    BY DEF Missions!Crew, Missions!Ids
  <2>2. Missions!Crew(m) \in SUBSET Missions!Fleet
    BY DEF Missions!Crew
  <2>3. Cardinality(Missions!Crew(m)') <= Cardinality(Missions!Crew(m))
    BY <2>1, <2>2, Counting, FS_Subset
  <2>4. Cardinality(Missions!Crew(m)) \in Nat /\ Cardinality(Missions!Crew(m)') \in Nat
    BY <2>1, <2>2, Counting
  <2>5. Cardinality(Missions!Crew(m)) <= MaxCrew /\ MaxCrew \in Nat
    BY Counting DEF Missions!CrewsFit, Missions!Constants
  <2> QED BY <2>3, <2>4, <2>5
<1> QED BY <1>2, <1>3, Counting DEF Missions!CrewsFit

\* A mission is spawned with free robots, and nobody belonged to it before.
LEMMA SpawnFits ==
  ASSUME Missions!Constants, MissionsOK, Missions!CrewsFit, Unspawned,
         NEW crew \in SUBSET Missions!Free, NEW planned \in Tasks,
         Missions!Cardinality(crew) \in MinCrew..MaxCrew,
         Missions!Spawn(crew, planned)
  PROVE  Missions!CrewsFit' /\ Unspawned'
<1> DEFINE n == seq + 1
<1>1. /\ n \in Missions!Ids /\ n \in Nat \ {0}
      /\ seq' = n /\ seq \in Nat
  BY MissionNumbers DEF Missions!Spawn, Missions!Wanted, MissionsOK, Missions!Ids
<1>2. /\ \A m \in Missions!Ids \ {n} : missions'[m] = missions[m]
      /\ missions'[n].state = "Queued"
  BY <1>1 DEF Missions!Spawn, MissionsOK, Missions!Unborn
<1>3. owner' = [r \in Missions!Fleet |-> IF r \in crew THEN n ELSE owner[r]]
  BY DEF Missions!Spawn
<1>4. missions[n].state = "absent" /\ n \notin Missions!InFlight
  BY <1>1 DEF Unspawned, Missions!InFlight, Missions!Active
<1>5. Missions!InFlight' = Missions!InFlight \cup {n}
  BY <1>1, <1>2 DEF Missions!InFlight, Missions!Active
<1> HIDE DEF n
<1>6. Cardinality(Missions!InFlight') <= Target
  <2>1. Missions!InFlight \in SUBSET Missions!Ids
    BY DEF Missions!InFlight
  <2>2. /\ IsFiniteSet(Missions!InFlight)
        /\ Cardinality(Missions!InFlight) \in Nat /\ Target \in Nat
    BY <2>1, Counting DEF Missions!Constants
  <2>3. Cardinality(Missions!InFlight) < Target
    BY Counting DEF Missions!Spawn, Missions!Wanted, Missions!InFlight
  <2>4. Cardinality(Missions!InFlight') = Cardinality(Missions!InFlight) + 1
    BY <1>4, <1>5, <2>2, FS_AddElement
  <2> QED BY <2>2, <2>3, <2>4
<1>7. ASSUME NEW m \in Missions!Ids PROVE Cardinality(Missions!Crew(m)') <= MaxCrew
  <2>1. crew \in SUBSET Missions!Fleet
    BY DEF Missions!Free
  <2>2. CASE m = n
    <3>1. \A r \in Missions!Fleet : owner[r] # n
      BY <1>1, <1>4 DEF Missions!CrewsFit
    <3>2. Missions!Crew(m)' = crew
      BY <1>3, <2>1, <2>2, <3>1 DEF Missions!Crew
    <3>3. /\ Cardinality(crew) \in MinCrew..MaxCrew
          /\ MinCrew \in Nat /\ MaxCrew \in Nat
      BY Counting DEF Missions!Constants
    <3> QED BY <3>2, <3>3
  <2>3. CASE m # n
    <3>1. Missions!Crew(m)' \subseteq Missions!Crew(m)
      BY <1>3, <2>3 DEF Missions!Crew
    <3>2. Missions!Crew(m) \in SUBSET Missions!Fleet
      BY DEF Missions!Crew
    <3>3. Cardinality(Missions!Crew(m)') <= Cardinality(Missions!Crew(m))
      BY <3>1, <3>2, Counting, FS_Subset
    <3>4. /\ Cardinality(Missions!Crew(m)) \in Nat
          /\ Cardinality(Missions!Crew(m)') \in Nat
      BY <3>1, <3>2, Counting
    <3>5. Cardinality(Missions!Crew(m)) <= MaxCrew /\ MaxCrew \in Nat
      BY Counting DEF Missions!CrewsFit, Missions!Constants
    <3> QED BY <3>3, <3>4, <3>5
  <2> QED BY <2>2, <2>3
<1>8. \A r \in Missions!Fleet : owner'[r] # 0 => owner'[r] \in Missions!InFlight'
  BY <1>3, <1>5 DEF Missions!CrewsFit
<1>9. Unspawned'
  <2> SUFFICES ASSUME NEW m \in Missions!Ids, m > n
               PROVE  missions'[m].state = "absent"
    BY <1>1 DEF Unspawned
  <2>1. m \in Nat /\ m > seq /\ m # n
    BY <1>1, MissionNumbers DEF n, Missions!Ids
  <2> QED BY <1>2, <2>1 DEF Unspawned
<1> QED BY <1>6, <1>7, <1>8, <1>9, Counting DEF Missions!CrewsFit

\* Every other step lets a mission go on or end, and then frees its crew.
LEMMA CrewsInductive ==
  ASSUME Missions!Constants, MissionsOK, Missions!CrewsFit, Unspawned,
         [Missions!Next]_(Missions!vars)
  PROVE  Missions!CrewsFit' /\ Unspawned'
<1> DEFINE
      Live == \A m \in Missions!Ids : Missions!Active(m)' => Missions!Active(m)
      Absent == \A m \in Missions!Ids :
                  missions[m].state = "absent" => missions'[m].state = "absent"
      Leaves == \A r \in Missions!Fleet :
                  /\ owner'[r] \in {0, owner[r]}
                  /\ owner'[r] # 0 => owner'[r] \in Missions!InFlight'
<1>1. Live /\ Absent /\ Leaves /\ seq' = seq => Missions!CrewsFit' /\ Unspawned'
  BY CrewsShrink DEF Missions!InFlight, Unspawned
<1>2. \A r \in Missions!Fleet : owner[r] # 0 => owner[r] \in Missions!InFlight
  BY DEF Missions!CrewsFit
<1>3. CASE UNCHANGED <<missions, seq, owner>>
  <2>1. Live /\ Absent /\ Leaves /\ seq' = seq
    BY <1>2, <1>3 DEF Missions!InFlight, Missions!Active
  <2> QED BY <1>1, <2>1
<1>4. ASSUME NEW r \in Missions!Fleet, Missions!Order(r)
      PROVE  Missions!CrewsFit' /\ Unspawned'
  <2>1. /\ missions' = missions /\ seq' = seq
        /\ owner' = [owner EXCEPT ![r] = 0]
    BY <1>4 DEF Missions!Order
  <2>2. Live /\ Absent /\ Leaves
    BY <1>2, <2>1 DEF Missions!InFlight, Missions!Active, MissionsOK
  <2> QED BY <1>1, <2>1, <2>2
<1>5. ASSUME NEW r \in Missions!Fleet, Missions!Assign(r)
      PROVE  Missions!CrewsFit' /\ Unspawned'
  <2>1. \A m \in Missions!Ids :
          missions'[m] = IF m = Missions!Tag(r)
                         THEN [missions[m] EXCEPT !.state = "Running"] ELSE missions[m]
    BY <1>5 DEF Missions!Assign
  <2>2. \A m \in Missions!Ids : m = Missions!Tag(r) => Missions!Active(m)
    BY DEF Missions!Tag, Missions!Ids
  <2>3. \A m \in Missions!Ids :
          \/ missions'[m] = missions[m]
          \/ Missions!Active(m) /\ missions'[m].state = "Running"
    BY <2>1, <2>2 DEF MissionsOK, Mission
  <2>4. seq' = seq /\ owner' = owner
    BY <1>5 DEF Missions!Assign, Missions!Turn
  <2>5. \A m \in Missions!Ids : Missions!Active(m)' <=> Missions!Active(m)
    BY <2>3 DEF Missions!Active
  <2>6. Missions!InFlight' = Missions!InFlight
    BY <2>5 DEF Missions!InFlight
  <2>7. Live /\ Absent /\ Leaves
    BY <1>2, <2>3, <2>4, <2>5, <2>6 DEF Missions!Active
  <2> QED BY <1>1, <2>4, <2>7
<1>6. ASSUME NEW r \in Missions!Fleet, Missions!Finish(r)
      PROVE  Missions!CrewsFit' /\ Unspawned'
  <2>1. \A m \in Missions!Ids : missions'[m].state = missions[m].state
    BY <1>6, CreditIsOwn DEF Missions!Finish
  <2>2. seq' = seq /\ owner' = owner
    BY <1>6 DEF Missions!Finish, Missions!Turn
  <2>3. Missions!InFlight' = Missions!InFlight
    BY <2>1 DEF Missions!InFlight, Missions!Active
  <2>4. Live /\ Absent /\ Leaves
    BY <1>2, <2>1, <2>2, <2>3 DEF Missions!Active
  <2> QED BY <1>1, <2>2, <2>4
<1>7. CASE Missions!EndMissions
  <2>1. \A m \in Missions!Ids :
          missions'[m] = IF Missions!Complete(m)
                         THEN [missions[m] EXCEPT !.state = "Done"] ELSE missions[m]
    BY <1>7 DEF Missions!EndMissions
  <2>2. \A m \in Missions!Ids :
          /\ Missions!Complete(m) => Missions!Active(m) /\ missions'[m].state = "Done"
          /\ ~Missions!Complete(m) => missions'[m] = missions[m]
    BY <2>1 DEF Missions!Complete, MissionsOK, Mission
  <2>3. seq' = seq /\ owner' = [r \in Missions!Fleet |->
          IF \E m \in Missions!Ids : m = owner[r] /\ Missions!Complete(m)
          THEN 0 ELSE owner[r]]
    BY <1>7 DEF Missions!EndMissions
  <2>4. Live /\ Absent
    BY <2>2 DEF Missions!Active
  <2>5. Leaves
    <3> SUFFICES ASSUME NEW r \in Missions!Fleet, owner'[r] # 0
                 PROVE  owner'[r] = owner[r] /\ owner[r] \in Missions!InFlight'
      BY <2>3
    <3>1. owner'[r] = owner[r] /\ owner[r] \in Missions!InFlight
      BY <1>2, <2>3
    <3>2. owner[r] \in Missions!Ids /\ ~Missions!Complete(owner[r])
      BY <2>3, <3>1 DEF Missions!InFlight
    <3> QED BY <2>2, <3>1, <3>2 DEF Missions!InFlight, Missions!Active
  <2> QED BY <1>1, <2>3, <2>4, <2>5
<1>8. ASSUME NEW crew \in SUBSET Missions!Free, NEW planned \in Tasks,
             Missions!Cardinality(crew) \in MinCrew..MaxCrew,
             Missions!Spawn(crew, planned)
      PROVE  Missions!CrewsFit' /\ Unspawned'
  BY <1>8, SpawnFits
<1>9. CASE Missions!Prune \/ Missions!Post \/ Missions!PostFails
  <2>1. \A m \in Missions!Ids :
          \/ missions'[m].state = missions[m].state
          \/ missions[m].state = "Done" /\ missions'[m].state = "dropped"
    BY <1>9 DEF Missions!Prune, Missions!Dropped, Missions!Unborn, Missions!Post,
                Missions!PostFails, Missions!Over, MissionsOK, Mission
  <2>2. seq' = seq /\ owner' = owner
    BY <1>9 DEF Missions!Prune, Missions!Post, Missions!PostFails, Missions!Over
  <2>3. \A m \in Missions!Ids : Missions!Active(m)' <=> Missions!Active(m)
    BY <2>1 DEF Missions!Active
  <2>4. Missions!InFlight' = Missions!InFlight
    BY <2>3 DEF Missions!InFlight
  <2>5. Live /\ Absent /\ Leaves
    BY <1>2, <2>1, <2>2, <2>3, <2>4
  <2> QED BY <1>1, <2>2, <2>5
<1>10. CASE \/ UNCHANGED Missions!vars \/ Missions!Tick
            \/ \E r \in Missions!Fleet :
                 \/ \E untag \in BOOLEAN : Missions!Abandon(r, untag)
                 \/ Missions!Stay(r)
  <2>1. UNCHANGED <<missions, seq, owner>>
    BY <1>10 DEF Missions!vars, Missions!Tick, Missions!Abandon, Missions!Stay,
                 Missions!Turn, Missions!pool
  <2> QED BY <1>3, <2>1
<1> QED
  BY <1>4, <1>5, <1>6, <1>7, <1>8, <1>9, <1>10 DEF Missions!Next, Missions!Upkeep

\* A robot belongs to a mission in flight or to none, and neither crews nor the
\* missions in flight ever outgrow their limits, although completions, orders
\* and new missions come in any order (sim.py:699, 742).
THEOREM CrewsStayFit ==
  ASSUME Missions!Constants PROVE Missions!Spec => []Missions!CrewsFit
<1>1. Missions!Init => Missions!CrewsFit /\ Unspawned
  <2> SUFFICES ASSUME Missions!Init PROVE Missions!CrewsFit /\ Unspawned
    OBVIOUS
  <2>1. \A m \in Missions!Ids : missions[m].state = "absent"
    BY MissionNumbers DEF Missions!Init
  <2>2. Missions!InFlight = {} /\ \A m \in Missions!Ids : Missions!Crew(m) = {}
    BY <2>1 DEF Missions!InFlight, Missions!Active, Missions!Crew, Missions!Init,
                Missions!Ids
  <2>3. Cardinality({}) = 0
    BY FS_EmptySet
  <2> QED BY <2>1, <2>2, <2>3, Counting
          DEF Missions!CrewsFit, Missions!Init, Missions!Constants, Unspawned
<1>2. MissionsOK /\ Missions!CrewsFit /\ Unspawned /\ [Missions!Next]_(Missions!vars)
        => Missions!CrewsFit' /\ Unspawned'
  BY CrewsInductive
<1> QED BY <1>1, <1>2, MissionsAlways, PTL DEF Missions!Spec
=============================================================================
