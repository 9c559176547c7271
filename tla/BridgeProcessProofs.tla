------------------------ MODULE BridgeProcessProofs ------------------------
(* Theorems about yantrabridge. The command loop first, for any number of    *)
(* commands, robots, faults and restarts: what it does with the status       *)
(* column, the queues and the verdicts, whichever console decides, and that  *)
(* it implements the gate until a bare PATCH decides a row twice. Then the   *)
(* ingest, for any messages, thresholds and brokers, and the two as one      *)
(* process.                                                                  *)
EXTENDS BridgeProcess, TLAPS

\* The bounds are natural numbers.
LEMMA Bounds ==
  /\ Repeats \in Nat /\ Repeats > 0
  /\ MaxStalePatches \in Nat /\ MaxFailures \in Nat /\ MaxDrops \in Nat
  /\ MaxBridgeRestarts \in Nat /\ MaxSimRestarts \in Nat
BY ParameterAssumption

\* A fault is only injected within its budget.
LEMMA SpendType ==
  ASSUME budget \in Budgets,
         NEW kind \in {"patches", "failures", "drops", "bridge", "sim"},
         Spend(kind)
  PROVE  budget' \in Budgets
BY Bounds DEF Spend, Budgets

\* A PATCH writes a status and spends at most one failure.
LEMMA PatchType ==
  ASSUME row \in [Commands -> Statuses], budget \in Budgets,
         NEW c \in Commands, NEW status \in Statuses,
         NEW outcome \in PatchOutcomes, Patch(c, status, outcome)
  PROVE  /\ row' \in [Commands -> Statuses]
         /\ budget' \in Budgets
BY SpendType DEF Patch, PatchOutcomes

\* The first and the remaining elements of a queue are of its type.
LEMMA QueueType ==
  ASSUME NEW S, NEW q \in Seq(S), q # <<>>
  PROVE  /\ Head(q) \in S
         /\ Tail(q) \in Seq(S)
         /\ \A e \in S : Append(q, e) \in Seq(S)
OBVIOUS

\* Every state of the loop is well typed (CommandPublisher, MqttTransport and
\* the commands table).
THEOREM TypeCorrect == Spec => []TypeOK
<1>1. Init => TypeOK
  <2> SUFFICES ASSUME Init PROVE TypeOK
    OBVIOUS
  <2>1. budget \in Budgets
    BY Bounds DEF Init, Budgets
  <2>2. left \in [Commands -> 0 .. Repeats]
    BY Bounds DEF Init
  <2>3. row \in [Commands -> Statuses] /\ verdict \in [Commands -> Verdicts]
    BY DEF Init, Statuses, Verdicts
  <2>4. sent \in BOOLEAN
    BY DEF Init
  <2>5. /\ down \in Seq(Commands) /\ incoming \in Seq(Commands)
        /\ up \in Seq([robot : Robots, actions : SUBSET ActionStates])
    BY DEF Init
  <2> QED BY <2>1, <2>2, <2>3, <2>4, <2>5 DEF Init, TypeOK
<1>2. TypeOK /\ [Next]_vars => TypeOK'
  <2> SUFFICES ASSUME TypeOK, [Next]_vars PROVE TypeOK'
    OBVIOUS
  <2> USE DEF TypeOK
  <2> DEFINE StateMessages == [robot : Robots, actions : SUBSET ActionStates]
  <2>1. ASSUME NEW c \in Commands, Request(c) PROVE TypeOK'
    BY <2>1 DEF Request, Statuses, bridgeVars, pollVars, simVars, runVars
  <2>2. ASSUME NEW c \in Commands, NEW decision \in {"approved", "rejected"},
               Decide(c, decision)
        PROVE  TypeOK'
    <3>1. budget' \in Budgets /\ overwritten' \subseteq Commands
      BY <2>2, SpendType DEF Decide, Decidable
    <3> QED BY <2>2, <3>1 DEF Decide, Statuses, bridgeVars, pollVars, simVars, runVars
  <2>3. ASSUME NEW c \in Commands, PollStep(c) PROVE TypeOK'
    <3>1. CASE PollSkip(c)
      BY <3>1 DEF PollSkip, dbVars, bridgeVars, simVars, runVars
    <3>2. CASE PollUnsupported(c)
      <4>1. row' \in [Commands -> Statuses] /\ budget' \in Budgets
        BY <3>2, PatchType DEF PollUnsupported, Statuses
      <4> QED BY <3>2, <4>1 DEF PollUnsupported, simVars, runVars
    <3>3. CASE PollUnroutable(c)
      BY <3>3 DEF PollUnroutable, dbVars, bridgeVars, simVars, runVars
    <3>4. CASE PollRaise(c)
      <4>1. budget' \in Budgets
        BY <3>4, SpendType DEF PollRaise
      <4>2. Target[c] \in Robots
        BY ParameterAssumption
      <4> QED BY <3>4, <4>1, <4>2 DEF PollRaise, dbVars, simVars, runVars
    <3>5. CASE PollPublish(c)
      <4>1. budget' \in Budgets
        BY <3>5, SpendType DEF PollPublish
      <4>2. Target[c] \in Robots
        BY ParameterAssumption
      <4>3. down' \in Seq(Commands)
        <5>1. Append(down, c) \in Seq(Commands)
          OBVIOUS
        <5>2. down' = down \/ down' = Append(down, c)
          BY <3>5, Zenon DEF PollPublish
        <5> QED BY <5>1, <5>2
      <4>4. pubs' \in [Commands -> Nat]
        BY <3>5 DEF PollPublish
      <4>5. known' \subseteq Robots /\ sent' \in BOOLEAN
        BY <3>5, <4>2 DEF PollPublish
      <4>6. UNCHANGED <<dbVars, bpend, bdone, batch, ack, up, simVars, runVars>>
        BY <3>5 DEF PollPublish
      <4> QED BY <4>1, <4>3, <4>4, <4>5, <4>6 DEF dbVars, simVars, runVars
    <3>6. CASE PollRegister(c)
      BY <3>6 DEF PollRegister, dbVars, simVars, runVars
    <3> QED BY <2>3, <3>1, <3>2, <3>3, <3>4, <3>5, <3>6 DEF PollStep
  <2>4. CASE PollFetch
    <3>1. batch' \subseteq Commands /\ unsited' \subseteq Commands
      BY <2>4 DEF PollFetch, SiteOk, Oldest, Approved
    <3> QED BY <2>4, <3>1 DEF PollFetch, dbVars, bridgeVars, simVars
  <2>5. CASE HandleState
    <3>1. Head(up) \in StateMessages /\ up' \in Seq(StateMessages)
      BY <2>5, QueueType DEF HandleState
    <3> QED BY <2>5, <3>1 DEF HandleState, dbVars, pollVars, simVars, runVars
  <2>6. ASSUME NEW a \in ActionStates, AckStep(a) PROVE TypeOK'
    <3>1. CASE AckIgnored(a)
      BY <3>1 DEF AckIgnored, dbVars, bridgeVars, pollVars, simVars, runVars
    <3>2. CASE AckClosed(a)
      <4>1. a.id \in Commands /\ StatusOf(a.status) \in Statuses
        BY DEF ActionStates, StatusOf, Statuses
      <4>2. row' \in [Commands -> Statuses] /\ budget' \in Budgets
        BY <3>2, <4>1, PatchType DEF AckClosed
      <4>3. bpend' \subseteq Commands /\ bdone' \subseteq Commands
        BY <3>2, <4>1 DEF AckClosed
      <4> QED BY <3>2, <4>2, <4>3 DEF AckClosed, pollVars, simVars, runVars
    <3> QED BY <2>6, <3>1, <3>2 DEF AckStep
  <2>7. CASE BridgeRestart
    <3>1. budget' \in Budgets
      BY <2>7, SpendType DEF BridgeRestart
    <3>2. up' \in Seq(StateMessages) /\ ack' \subseteq ActionStates
      BY <2>7 DEF BridgeRestart
    <3>3. sent' \in BOOLEAN
      BY <2>7 DEF BridgeRestart
    <3> QED BY <2>7, <3>1, <3>2, <3>3 DEF BridgeRestart, dbVars, simVars, runVars
  <2>8. CASE SimReceive
    <3>1. Head(down) \in Commands /\ down' \in Seq(Commands)
      BY <2>8, QueueType DEF SimReceive
    <3>2. Append(incoming, Head(down)) \in Seq(Commands)
      BY <3>1
    <3>3. incoming' \in Seq(Commands) /\ seen' \subseteq Commands
      BY <2>8, <3>1, <3>2 DEF SimReceive
    <3> QED BY <2>8, <3>1, <3>3 DEF SimReceive, dbVars, bridgeVars, pollVars, runVars
  <2>9. ASSUME NEW v \in Verdicts, SimApply(v) PROVE TypeOK'
    <3>1. Head(incoming) \in Commands /\ incoming' \in Seq(Commands)
      BY <2>9, QueueType DEF SimApply
    <3>2. Repeats \in 0 .. Repeats
      BY ParameterAssumption
    <3>3. applied' \in [Commands -> Nat] /\ outcomes' \in [Commands -> SUBSET Verdicts]
      BY <2>9, <3>1 DEF SimApply
    <3>4. verdict' \in [Commands -> Verdicts] /\ left' \in [Commands -> 0 .. Repeats]
      BY <2>9, <3>1, <3>2 DEF SimApply
    <3> QED BY <2>9, <3>1, <3>3, <3>4 DEF SimApply, dbVars, bridgeVars, pollVars
  <2>10. ASSUME NEW r \in Robots, PublishState(r) PROVE TypeOK'
    <3>1. left' \in [Commands -> 0 .. Repeats]
      BY <2>10, Bounds DEF PublishState, Staged
    <3>2. {[id |-> c, status |-> verdict[c]] : c \in Staged(r)} \subseteq ActionStates
      BY DEF Staged, ActionStates
    <3>3. up' \in Seq(StateMessages)
      <4> DEFINE m == [robot |-> r,
                       actions |-> {[id |-> c, status |-> verdict[c]] :
                                      c \in Staged(r)}]
      <4>1. m \in StateMessages
        BY <3>2
      <4>2. Append(up, m) \in Seq(StateMessages)
        BY <4>1
      <4> QED BY <2>10, <4>2 DEF PublishState
    <3>4. budget' \in Budgets
      BY <2>10, SpendType DEF PublishState
    <3> QED BY <2>10, <3>1, <3>3, <3>4
         DEF PublishState, dbVars, bridgeVars, pollVars, runVars
  <2>11. CASE SimRestart
    <3>1. budget' \in Budgets
      BY <2>11, SpendType DEF SimRestart
    <3>2. left' \in [Commands -> 0 .. Repeats]
      BY <2>11, Bounds DEF SimRestart
    <3>3. down' \in Seq(Commands) /\ incoming' \in Seq(Commands)
      <4>1. <<>> \in Seq(Commands)
        OBVIOUS
      <4>2. incoming' = <<>> /\ (down' = <<>> \/ down' = down)
        BY <2>11, Zenon DEF SimRestart
      <4> QED BY <4>1, <4>2
    <3> QED BY <2>11, <3>1, <3>2, <3>3
         DEF SimRestart, dbVars, bridgeVars, pollVars, runVars
  <2>12. CASE UNCHANGED vars
    BY <2>12 DEF vars, dbVars, bridgeVars, pollVars, simVars, runVars
  <2> QED BY <2>1, <2>2, <2>3, <2>4, <2>5, <2>6, <2>7, <2>8, <2>9, <2>10, <2>11, <2>12
       DEF Next
<1> QED BY <1>1, <1>2, PTL DEF Spec
-----------------------------------------------------------------------------
(* Only approved commands reach a robot *)

\* What a human approved, in a verb the platform supports, at this site or shown
\* by an answer that nothing held to a site.
Gated == everApproved \cap Supported \cap (Home \cup unsited)

\* Everything between the table and the robots is gated: the rows the poll
\* thread holds, the messages on the wire, the queue of the simulator.
GateInv ==
  /\ \A c \in Commands : row[c] = "approved" => c \in everApproved
  /\ batch \subseteq everApproved \cap (Home \cup unsited)
  /\ down \in Seq(Gated)
  /\ incoming \in Seq(Gated)
  /\ \A c \in Commands : applied[c] > 0 => c \in Gated

\* A queue of gated commands stays one when more commands are approved.
LEMMA SeqMonotone ==
  ASSUME NEW S, NEW T, S \subseteq T, NEW q \in Seq(S)
  PROVE  q \in Seq(T)
OBVIOUS

\* What a PATCH does to the row, whatever becomes of its answer.
LEMMA PatchRow ==
  ASSUME row \in [Commands -> Statuses], NEW c \in Commands, NEW status,
         NEW outcome, Patch(c, status, outcome)
  PROVE  \/ row' = row
         \/ row' = [row EXCEPT ![c] = status]
BY DEF Patch

\* CommandPublisher and MqttTransport keep the gate closed: what they carry
\* from the table to the robot was approved by a human (ARCHITECTURE.md,
\* section 6), and belongs to the bridge's site unless an answer that neither
\* the filter nor a site_id column held to it brought it.
LEMMA GateInductive == TypeOK /\ GateInv /\ [Next]_vars => GateInv'
<1> SUFFICES ASSUME TypeOK, GateInv, [Next]_vars PROVE GateInv'
  OBVIOUS
<1> DEFINE moved == <<row, everApproved, batch, down, incoming, applied, unsited>>
<1>0. ASSUME UNCHANGED moved PROVE GateInv'
  BY <1>0 DEF GateInv, Gated
<1>1. ASSUME NEW c \in Commands, Request(c) PROVE GateInv'
  <2>1. \A d \in Commands : row'[d] = "approved" => row[d] = "approved"
    BY <1>1 DEF Request, TypeOK
  <2> QED BY <1>1, <2>1
       DEF Request, GateInv, Gated, pollVars, simVars, runVars
<1>2. ASSUME NEW c \in Commands, NEW decision \in {"approved", "rejected"},
             Decide(c, decision)
      PROVE  GateInv'
  <2>1. everApproved \subseteq everApproved'
    BY <1>2 DEF Decide
  <2>2. \A d \in Commands : row'[d] = "approved" => d \in everApproved'
    BY <1>2, <2>1 DEF Decide, TypeOK, GateInv
  <2>3. UNCHANGED <<batch, down, incoming, applied, unsited>>
    BY <1>2 DEF Decide, pollVars, simVars, runVars
  <2>4. Gated \subseteq Gated'
    BY <2>1, <2>3 DEF Gated
  <2>5. down' \in Seq(Gated') /\ incoming' \in Seq(Gated')
    BY <2>3, <2>4, SeqMonotone DEF GateInv
  <2> QED BY <2>1, <2>2, <2>3, <2>4, <2>5 DEF GateInv
<1>3. ASSUME NEW c \in Commands, PollStep(c) PROVE GateInv'
  <2>1. CASE PollSkip(c) \/ PollUnroutable(c) \/ PollRaise(c) \/ PollRegister(c)
    <3>1. /\ batch' \subseteq batch
          /\ UNCHANGED <<row, everApproved, down, incoming, applied, unsited>>
      BY <2>1 DEF PollSkip, PollUnroutable, PollRaise, PollRegister, dbVars,
                  simVars, runVars
    <3> QED BY <3>1 DEF GateInv, Gated
  <2>2. CASE PollUnsupported(c)
    <3>1. /\ batch' \subseteq batch
          /\ UNCHANGED <<everApproved, down, incoming, applied, unsited>>
      BY <2>2 DEF PollUnsupported, simVars, runVars
    <3>2. row' = row \/ row' = [row EXCEPT ![c] = "failed"]
      BY <2>2, PatchRow DEF PollUnsupported, TypeOK
    <3>3. \A d \in Commands : row'[d] = "approved" => row[d] = "approved"
      BY <3>2 DEF TypeOK
    <3> QED BY <3>1, <3>3 DEF GateInv, Gated
  <2>3. CASE PollPublish(c)
    <3>1. c \in Gated
      BY <2>3 DEF PollPublish, Ready, Current, GateInv, Gated
    <3>2. Append(down, c) \in Seq(Gated)
      BY <3>1 DEF GateInv
    <3>3. down' = down \/ down' = Append(down, c)
      BY <2>3, Zenon DEF PollPublish
    <3>4. UNCHANGED <<row, everApproved, batch, incoming, applied, unsited>>
      BY <2>3 DEF PollPublish, dbVars, simVars, runVars
    <3> QED BY <3>2, <3>3, <3>4 DEF GateInv, Gated
  <2> QED BY <1>3, <2>1, <2>2, <2>3 DEF PollStep
<1>4. CASE PollFetch
  <2>1. PICK filtered \in BackendFilters, column \in BackendColumns :
          LET answer == Oldest(IF filtered THEN Approved \cap Home ELSE Approved) IN
          /\ batch' = SiteOk(answer, column)
          /\ unsited' = IF filtered \/ column THEN unsited
                                             ELSE unsited \cup (answer \ Home)
    BY <1>4 DEF PollFetch
  <2>2. batch' \subseteq everApproved \cap (Home \cup unsited')
    BY <2>1 DEF SiteOk, Oldest, Approved, GateInv
  <2>3. Gated \subseteq Gated' /\ UNCHANGED <<row, everApproved, down, incoming, applied>>
    BY <1>4, <2>1 DEF PollFetch, dbVars, simVars, Gated
  <2>4. down' \in Seq(Gated') /\ incoming' \in Seq(Gated')
    BY <2>3, SeqMonotone DEF GateInv
  <2> QED BY <2>2, <2>3, <2>4 DEF GateInv
<1>5. CASE HandleState
  BY <1>0, <1>5 DEF HandleState, dbVars, pollVars, simVars, runVars
<1>6. ASSUME NEW a \in ActionStates, AckStep(a) PROVE GateInv'
  <2>1. CASE AckIgnored(a)
    BY <1>0, <2>1 DEF AckIgnored, dbVars, pollVars, simVars, runVars
  <2>2. CASE AckClosed(a)
    <3>1. UNCHANGED <<everApproved, batch, down, incoming, applied, unsited>>
      BY <2>2 DEF AckClosed, pollVars, simVars, runVars
    <3>2. a.id \in Commands /\ StatusOf(a.status) # "approved"
      BY DEF ActionStates, StatusOf
    <3>3. row' = row \/ row' = [row EXCEPT ![a.id] = StatusOf(a.status)]
      BY <2>2, <3>2, PatchRow DEF AckClosed, TypeOK
    <3>4. \A d \in Commands : row'[d] = "approved" => row[d] = "approved"
      BY <3>2, <3>3 DEF TypeOK
    <3> QED BY <3>1, <3>4 DEF GateInv, Gated
  <2> QED BY <1>6, <2>1, <2>2 DEF AckStep
<1>7. CASE BridgeRestart
  <2>1. /\ batch' = {}
        /\ UNCHANGED <<row, everApproved, down, incoming, applied, unsited>>
    BY <1>7 DEF BridgeRestart, dbVars, simVars, runVars
  <2> QED BY <2>1 DEF GateInv, Gated
<1>8. CASE SimReceive
  <2>1. Head(down) \in Gated /\ Tail(down) \in Seq(Gated)
    BY <1>8, QueueType DEF SimReceive, GateInv
  <2>2. Append(incoming, Head(down)) \in Seq(Gated)
    BY <2>1 DEF GateInv
  <2>3. /\ down' = Tail(down)
        /\ incoming' = incoming \/ incoming' = Append(incoming, Head(down))
        /\ UNCHANGED <<row, everApproved, batch, applied, unsited>>
    BY <1>8 DEF SimReceive, dbVars, pollVars, runVars
  <2> QED BY <2>1, <2>2, <2>3 DEF GateInv, Gated
<1>9. ASSUME NEW v \in Verdicts, SimApply(v) PROVE GateInv'
  <2>1. Head(incoming) \in Gated /\ Tail(incoming) \in Seq(Gated)
    BY <1>9, QueueType DEF SimApply, GateInv
  <2>2. /\ incoming' = Tail(incoming)
        /\ applied' = [applied EXCEPT ![Head(incoming)] = @ + 1]
        /\ UNCHANGED <<row, everApproved, batch, down, unsited>>
    BY <1>9 DEF SimApply, dbVars, pollVars
  <2>3. \A c \in Commands : applied'[c] > 0 => c \in Gated
    BY <2>1, <2>2 DEF GateInv, TypeOK
  <2> QED BY <2>1, <2>2, <2>3 DEF GateInv, Gated
<1>10. ASSUME NEW r \in Robots, PublishState(r) PROVE GateInv'
  BY <1>0, <1>10 DEF PublishState, dbVars, pollVars, runVars
<1>11. CASE SimRestart
  <2>1. <<>> \in Seq(Gated)
    OBVIOUS
  <2>2. incoming' = <<>> /\ (down' = <<>> \/ down' = down)
    BY <1>11, Zenon DEF SimRestart
  <2>3. UNCHANGED <<row, everApproved, batch, applied, unsited>>
    BY <1>11 DEF SimRestart, dbVars, pollVars, runVars
  <2> QED BY <2>1, <2>2, <2>3 DEF GateInv, Gated
<1>12. CASE UNCHANGED vars
  BY <1>0, <1>12 DEF vars, dbVars, pollVars, simVars, runVars
<1> QED BY <1>1, <1>2, <1>3, <1>4, <1>5, <1>6, <1>7, <1>8, <1>9, <1>10, <1>11, <1>12
     DEF Next

LEMMA GateAlways == Spec => []GateInv
<1>1. Init => GateInv
  <2> SUFFICES ASSUME Init PROVE GateInv
    OBVIOUS
  <2>1. <<>> \in Seq(Gated)
    OBVIOUS
  <2>2. \A c \in Commands : row[c] # "approved" /\ ~(applied[c] > 0)
    BY DEF Init
  <2>3. batch = {} /\ down = <<>> /\ incoming = <<>>
    BY DEF Init
  <2> QED BY <2>1, <2>2, <2>3 DEF GateInv
<1> QED BY TypeCorrect, GateInductive, <1>1, PTL DEF Spec

\* No robot carries out a command that no human approved, and none of another
\* site as long as each answer to a poll is filtered by the backend or has the
\* site_id column that _site_ok compares: for any number of restarts of both
\* processes, with either console, and whatever the backend leaves out otherwise.
THEOREM ApprovedOnly == Spec => []OnlyApprovedIsApplied
<1>1. GateInv => OnlyApprovedIsApplied
  BY DEF GateInv, Gated, OnlyApprovedIsApplied
<1> QED BY GateAlways, <1>1, PTL
-----------------------------------------------------------------------------
(* A closed row says what the robot reported *)

\* The actionStates a robot did report.
Truthful == {a \in ActionStates : a.status \in outcomes[a.id]}
Reports == [robot : Robots, actions : SUBSET Truthful]

\* Results are true where they are staged, on the wire, and in the hands of
\* the bridge's MQTT thread; and so are the rows closed from them.
ReportInv ==
  /\ \A c \in Commands : left[c] > 0 => verdict[c] \in outcomes[c]
  /\ up \in Seq(Reports)
  /\ ack \subseteq Truthful
  /\ RowTellsOutcome

\* MqttTransport's results and CommandPublisher.handle_state keep the reports
\* true.
LEMMA ReportInductive == TypeOK /\ ReportInv /\ [Next]_vars => ReportInv'
<1> SUFFICES ASSUME TypeOK, ReportInv, [Next]_vars PROVE ReportInv'
  OBVIOUS
<1> DEFINE moved == <<row, left, verdict, outcomes, up, ack>>
<1>0. ASSUME UNCHANGED moved PROVE ReportInv'
  BY <1>0 DEF ReportInv, Reports, Truthful, RowTellsOutcome
<1>1. ASSUME NEW c \in Commands, NEW status \in {"pending", "approved", "rejected"},
             row' = [row EXCEPT ![c] = status],
             UNCHANGED <<left, verdict, outcomes, up, ack>>
      PROVE  ReportInv'
  <2>1. RowTellsOutcome'
    BY <1>1 DEF ReportInv, RowTellsOutcome, TypeOK
  <2> QED BY <1>1, <2>1 DEF ReportInv, Reports, Truthful
<1>2. ASSUME NEW c \in Commands, Request(c) PROVE ReportInv'
  BY <1>1, <1>2 DEF Request, simVars, runVars
<1>3. ASSUME NEW c \in Commands, NEW decision \in {"approved", "rejected"},
             Decide(c, decision)
      PROVE  ReportInv'
  BY <1>1, <1>3 DEF Decide, simVars, runVars
<1>4. ASSUME NEW c \in Commands, PollStep(c) PROVE ReportInv'
  <2>1. CASE ~PollUnsupported(c)
    BY <1>0, <1>4, <2>1
       DEF PollStep, PollSkip, PollUnroutable, PollRaise, PollPublish,
           PollRegister, dbVars, simVars, runVars
  <2>2. CASE PollUnsupported(c)
    <3>1. UNCHANGED <<left, verdict, outcomes, up, ack>> /\ c \notin Supported
      BY <2>2 DEF PollUnsupported, simVars, runVars
    <3>2. row' = row \/ row' = [row EXCEPT ![c] = "failed"]
      BY <2>2, PatchRow DEF PollUnsupported, TypeOK
    <3>3. RowTellsOutcome'
      BY <3>1, <3>2 DEF ReportInv, RowTellsOutcome, TypeOK
    <3> QED BY <3>1, <3>3 DEF ReportInv, Reports, Truthful
  <2> QED BY <2>1, <2>2
<1>5. CASE PollFetch
  BY <1>0, <1>5 DEF PollFetch, dbVars, simVars, runVars
<1>6. CASE HandleState
  <2>1. Head(up) \in Reports /\ Tail(up) \in Seq(Reports)
    BY <1>6, QueueType DEF HandleState, ReportInv
  <2>2. up' = Tail(up) /\ ack' = Head(up).actions
    BY <1>6 DEF HandleState
  <2>3. UNCHANGED <<row, left, verdict, outcomes>>
    BY <1>6 DEF HandleState, dbVars, simVars, runVars
  <2>4. ack' \subseteq Truthful
    BY <2>1, <2>2 DEF Reports
  <2> QED BY <2>1, <2>2, <2>3, <2>4
       DEF ReportInv, Reports, Truthful, RowTellsOutcome
<1>7. ASSUME NEW a \in ActionStates, AckStep(a) PROVE ReportInv'
  <2>1. /\ ack' \subseteq ack
        /\ a \in ack
        /\ UNCHANGED <<left, verdict, outcomes, up>>
    BY <1>7 DEF AckStep, AckIgnored, AckClosed, simVars, runVars
  <2>2. a.id \in Commands /\ a.status \in Verdicts /\ a.status \in outcomes[a.id]
    BY <2>1 DEF ReportInv, Truthful, ActionStates
  <2>3. row' = row \/ row' = [row EXCEPT ![a.id] = StatusOf(a.status)]
    BY <1>7, <2>2, PatchRow DEF AckStep, AckIgnored, AckClosed, dbVars, TypeOK
  <2>4. RowTellsOutcome'
    BY <2>1, <2>2, <2>3 DEF ReportInv, RowTellsOutcome, TypeOK, StatusOf, Verdicts
  <2> QED BY <2>1, <2>4 DEF ReportInv, Reports, Truthful
<1>8. CASE BridgeRestart
  <2>1. <<>> \in Seq(Reports)
    OBVIOUS
  <2>2. up' = <<>> /\ ack' = {} /\ UNCHANGED <<row, left, verdict, outcomes>>
    BY <1>8 DEF BridgeRestart, dbVars, simVars, runVars
  <2> QED BY <2>1, <2>2 DEF ReportInv, Reports, Truthful, RowTellsOutcome
<1>9. CASE SimReceive
  BY <1>0, <1>9 DEF SimReceive, dbVars, runVars
<1>10. ASSUME NEW v \in Verdicts, SimApply(v) PROVE ReportInv'
  <2> DEFINE c == Head(incoming)
  <2>1. c \in Commands
    BY <1>10, QueueType DEF SimApply, TypeOK
  <2>2. /\ outcomes' = [outcomes EXCEPT ![c] = @ \cup {v}]
        /\ verdict' = [verdict EXCEPT ![c] = v]
        /\ left' = [left EXCEPT ![c] = Repeats]
        /\ UNCHANGED <<row, up, ack>>
    BY <1>10 DEF SimApply, dbVars
  <2>3. \A d \in Commands : outcomes[d] \subseteq outcomes'[d]
    BY <2>1, <2>2 DEF TypeOK
  <2>4. \A d \in Commands : left'[d] > 0 => verdict'[d] \in outcomes'[d]
    BY <2>1, <2>2, <2>3 DEF TypeOK, ReportInv
  <2>5. Truthful \subseteq Truthful'
    BY <2>3 DEF Truthful, ActionStates
  <2>6. Reports \subseteq Reports'
    BY <2>5 DEF Reports
  <2>7. up' \in Seq(Reports')
    BY <2>2, <2>6, SeqMonotone DEF ReportInv
  <2>8. RowTellsOutcome'
    BY <2>2, <2>3 DEF ReportInv, RowTellsOutcome
  <2> QED BY <2>2, <2>4, <2>5, <2>7, <2>8 DEF ReportInv
<1>11. ASSUME NEW r \in Robots, PublishState(r) PROVE ReportInv'
  <2> DEFINE m == [robot |-> r,
                   actions |-> {[id |-> c, status |-> verdict[c]] : c \in Staged(r)}]
  <2>1. UNCHANGED <<row, verdict, outcomes, ack>>
    BY <1>11 DEF PublishState, dbVars, runVars
  <2>2. \A c \in Commands : left'[c] > 0 => left[c] > 0
    BY <1>11 DEF PublishState, Staged, TypeOK
  <2>3. {[id |-> c, status |-> verdict[c]] : c \in Staged(r)} \subseteq Truthful
    BY DEF Staged, Truthful, ActionStates, TypeOK, ReportInv
  <2>4. m \in Reports
    BY <2>3 DEF Reports
  <2>5. Append(up, m) \in Seq(Reports)
    BY <2>4 DEF ReportInv
  <2>6. up' = up \/ up' = Append(up, m)
    BY <1>11, Zenon DEF PublishState
  <2>7. up' \in Seq(Reports)
    BY <2>5, <2>6 DEF ReportInv
  <2> QED BY <2>1, <2>2, <2>7 DEF ReportInv, Reports, Truthful, RowTellsOutcome
<1>12. CASE SimRestart
  <2>1. UNCHANGED <<row, verdict, outcomes, up, ack>>
    BY <1>12 DEF SimRestart, dbVars, runVars
  <2>2. \A c \in Commands : ~(left'[c] > 0)
    BY <1>12 DEF SimRestart
  <2> QED BY <2>1, <2>2 DEF ReportInv, Reports, Truthful, RowTellsOutcome
<1>13. CASE UNCHANGED vars
  BY <1>0, <1>13 DEF vars, dbVars, simVars, runVars
<1> QED BY <1>2, <1>3, <1>4, <1>5, <1>6, <1>7, <1>8, <1>9, <1>10, <1>11, <1>12, <1>13
     DEF Next

LEMMA ReportAlways == Spec => []ReportInv
<1>1. Init => ReportInv
  <2> SUFFICES ASSUME Init PROVE ReportInv
    OBVIOUS
  <2>1. <<>> \in Seq(Reports)
    OBVIOUS
  <2>2. \A c \in Commands : ~(left[c] > 0) /\ row[c] = "absent"
    BY DEF Init
  <2>3. up = <<>> /\ ack = {}
    BY DEF Init
  <2> QED BY <2>1, <2>2, <2>3 DEF ReportInv, RowTellsOutcome
<1> QED BY TypeCorrect, ReportInductive, <1>1, PTL DEF Spec

\* The bridge never invents a completion status: an executed row was reported
\* FINISHED by the robot, a failed one FAILED, or its verb is unsupported
\* (CommandPublisher.handle_state).
THEOREM TruthfulRows == Spec => []RowTellsOutcome
<1>1. ReportInv => RowTellsOutcome
  BY DEF ReportInv
<1> QED BY ReportAlways, <1>1, PTL
-----------------------------------------------------------------------------
(* At most one application per life of the simulator *)

SimRestarts == MaxSimRestarts - budget.sim

Queued(c) == \E i \in 1 .. Len(incoming) : incoming[i] = c

\* An id is queued once, and only if it was seen; a command is ahead of the
\* restarts by one application only when it was seen and has left the queue.
OnceInv ==
  /\ \A i, j \in 1 .. Len(incoming) : incoming[i] = incoming[j] => i = j
  /\ \A i \in 1 .. Len(incoming) : incoming[i] \in seen
  /\ \A c \in Commands :
       \/ applied[c] <= SimRestarts
       \/ applied[c] <= 1 + SimRestarts /\ c \in seen /\ ~Queued(c)

\* A fault never gives budget back.
LEMMA SpendSim ==
  ASSUME budget \in Budgets, NEW kind \in {"patches", "failures", "drops", "bridge"},
         Spend(kind)
  PROVE  budget'.sim = budget.sim
BY DEF Spend, Budgets

LEMMA PatchSim ==
  ASSUME budget \in Budgets, NEW c, NEW status, NEW outcome,
         Patch(c, status, outcome)
  PROVE  budget'.sim = budget.sim
BY SpendSim DEF Patch

\* The queue without its first element.
LEMMA TailIndex ==
  ASSUME NEW S, NEW q \in Seq(S), q # <<>>
  PROVE  /\ Len(q) >= 1 /\ Head(q) = q[1]
         /\ Len(Tail(q)) = Len(q) - 1
         /\ \A i \in 1 .. Len(Tail(q)) : Tail(q)[i] = q[i + 1]
OBVIOUS

LEMMA AppendIndex ==
  ASSUME NEW S, NEW q \in Seq(S), NEW e \in S
  PROVE  /\ Len(Append(q, e)) = Len(q) + 1
         /\ \A i \in 1 .. Len(q) : Append(q, e)[i] = q[i]
         /\ Append(q, e)[Len(q) + 1] = e
OBVIOUS

\* MqttTransport applies an id once, whatever is delivered again.
LEMMA OnceInductive == TypeOK /\ OnceInv /\ [Next]_vars => OnceInv'
<1> SUFFICES ASSUME TypeOK, OnceInv, [Next]_vars PROVE OnceInv'
  OBVIOUS
<1>0. ASSUME UNCHANGED <<seen, incoming, applied>>, budget'.sim = budget.sim
      PROVE  OnceInv'
  BY <1>0 DEF OnceInv, Queued, SimRestarts
<1>1. ASSUME NEW c \in Commands, Request(c) PROVE OnceInv'
  BY <1>0, <1>1 DEF Request, simVars, runVars
<1>2. ASSUME NEW c \in Commands, NEW decision \in {"approved", "rejected"},
             Decide(c, decision)
      PROVE  OnceInv'
  BY <1>0, <1>2, SpendSim DEF Decide, Decidable, TypeOK, simVars, runVars
<1>3. ASSUME NEW c \in Commands, PollStep(c) PROVE OnceInv'
  <2>1. UNCHANGED <<seen, incoming, applied>>
    BY <1>3 DEF PollStep, PollSkip, PollUnsupported, PollUnroutable, PollRaise,
                PollPublish, PollRegister, simVars, runVars
  <2>2. budget'.sim = budget.sim
    BY <1>3, SpendSim, PatchSim
       DEF PollStep, PollSkip, PollUnsupported, PollUnroutable, PollRaise,
           PollPublish, PollRegister, TypeOK
  <2> QED BY <1>0, <2>1, <2>2
<1>4. CASE PollFetch
  BY <1>0, <1>4 DEF PollFetch, simVars, runVars
<1>5. CASE HandleState
  BY <1>0, <1>5 DEF HandleState, simVars, runVars
<1>6. ASSUME NEW a \in ActionStates, AckStep(a) PROVE OnceInv'
  <2>1. UNCHANGED <<seen, incoming, applied>>
    BY <1>6 DEF AckStep, AckIgnored, AckClosed, simVars, runVars
  <2>2. budget'.sim = budget.sim
    BY <1>6, PatchSim DEF AckStep, AckIgnored, AckClosed, TypeOK
  <2> QED BY <1>0, <2>1, <2>2
<1>7. CASE BridgeRestart
  BY <1>0, <1>7, SpendSim DEF BridgeRestart, simVars, runVars, TypeOK
<1>8. CASE SimReceive
  <2> DEFINE c == Head(down)
  <2>1. c \in Commands
    BY <1>8, QueueType DEF SimReceive, TypeOK
  <2>2. UNCHANGED <<applied, budget>>
    BY <1>8 DEF SimReceive, runVars
  <2>3. CASE c \in seen
    BY <1>0, <1>8, <2>2, <2>3 DEF SimReceive, AlreadySeen
  <2>4. CASE c \notin seen
    <3>1. seen' = seen \cup {c} /\ incoming' = Append(incoming, c)
      BY <1>8, <2>4 DEF SimReceive, AlreadySeen
    <3>2. /\ Len(incoming') = Len(incoming) + 1
          /\ \A i \in 1 .. Len(incoming) : incoming'[i] = incoming[i]
          /\ incoming'[Len(incoming) + 1] = c
      BY <3>1, <2>1, AppendIndex DEF TypeOK
    <3>3. Len(incoming) \in Nat /\ \A i \in 1 .. Len(incoming) : incoming[i] # c
      BY <2>4 DEF OnceInv, TypeOK
    <3>4. \A i, j \in 1 .. Len(incoming') : incoming'[i] = incoming'[j] => i = j
      BY <3>2, <3>3 DEF OnceInv
    <3>5. \A i \in 1 .. Len(incoming') : incoming'[i] \in seen'
      BY <3>1, <3>2, <3>3 DEF OnceInv
    <3>6. \A d \in Commands : d # c => (Queued(d)' => Queued(d))
      BY <3>2, <3>3 DEF Queued
    <3>7. applied[c] <= SimRestarts
      BY <2>1, <2>4 DEF OnceInv
    <3> QED BY <2>2, <3>1, <3>4, <3>5, <3>6, <3>7 DEF OnceInv, SimRestarts
  <2> QED BY <2>3, <2>4
<1>9. ASSUME NEW v \in Verdicts, SimApply(v) PROVE OnceInv'
  <2> DEFINE c == Head(incoming)
  <2>1. /\ incoming # <<>> /\ incoming' = Tail(incoming)
        /\ applied' = [applied EXCEPT ![c] = @ + 1]
        /\ UNCHANGED <<seen, budget>>
    BY <1>9 DEF SimApply
  <2>2. /\ Len(incoming) >= 1 /\ c = incoming[1] /\ Len(incoming) \in Nat
        /\ Len(incoming') = Len(incoming) - 1
        /\ \A i \in 1 .. Len(incoming') : incoming'[i] = incoming[i + 1]
    BY <2>1, TailIndex DEF TypeOK
  <2>3. c \in seen /\ c \in Commands /\ Queued(c)
    BY <2>2 DEF OnceInv, Queued, TypeOK
  <2>4. applied[c] <= SimRestarts /\ applied'[c] <= 1 + SimRestarts
    <3>1. applied[c] <= SimRestarts
      BY <2>3 DEF OnceInv
    <3>2. applied'[c] = applied[c] + 1 /\ applied[c] \in Nat
      BY <2>1, <2>3 DEF TypeOK
    <3>3. SimRestarts \in Int
      BY Bounds DEF SimRestarts, TypeOK, Budgets
    <3> QED BY <3>1, <3>2, <3>3
  <2>5. \A i, j \in 1 .. Len(incoming') : incoming'[i] = incoming'[j] => i = j
    <3> SUFFICES ASSUME NEW i \in 1 .. Len(incoming'), NEW j \in 1 .. Len(incoming'),
                        incoming'[i] = incoming'[j]
                 PROVE  i = j
      OBVIOUS
    <3>1. i + 1 \in 1 .. Len(incoming) /\ j + 1 \in 1 .. Len(incoming)
      BY <2>2
    <3>2. incoming[i + 1] = incoming[j + 1]
      BY <2>2
    <3>3. i + 1 = j + 1
      BY <3>1, <3>2 DEF OnceInv
    <3> QED BY <3>3
  <2>6. \A i \in 1 .. Len(incoming') : incoming'[i] \in seen'
    BY <2>1, <2>2 DEF OnceInv
  <2>7. ASSUME NEW i \in 1 .. Len(incoming') PROVE incoming'[i] # c
    <3> SUFFICES ASSUME incoming'[i] = c PROVE FALSE
      OBVIOUS
    <3>1. i + 1 \in 1 .. Len(incoming) /\ 1 \in 1 .. Len(incoming)
      BY <2>2
    <3>2. incoming[i + 1] = incoming[1]
      BY <2>2
    <3>3. i + 1 = 1
      BY <3>1, <3>2 DEF OnceInv
    <3> QED BY <3>3
  <2>8. \A d \in Commands : d # c => (Queued(d)' => Queued(d)) /\ applied'[d] = applied[d]
    BY <2>1, <2>2, <2>3 DEF Queued, TypeOK
  <2>9. ~(\E i \in 1 .. Len(incoming') : incoming'[i] = c)
    BY <2>7
  <2>10. /\ applied'[c] <= 1 + SimRestarts'
         /\ c \in seen'
         /\ ~(\E i \in 1 .. Len(incoming') : incoming'[i] = c)
    BY <2>1, <2>3, <2>4, <2>9 DEF SimRestarts
  <2>11. ASSUME NEW d \in Commands, d # c
         PROVE  \/ applied'[d] <= SimRestarts'
                \/ /\ applied'[d] <= 1 + SimRestarts'
                   /\ d \in seen'
                   /\ ~(\E i \in 1 .. Len(incoming') : incoming'[i] = d)
    BY <2>1, <2>8, <2>11 DEF OnceInv, SimRestarts, Queued
  <2> QED BY <2>5, <2>6, <2>10, <2>11 DEF OnceInv, Queued
<1>10. ASSUME NEW r \in Robots, PublishState(r) PROVE OnceInv'
  <2>1. budget'.sim = budget.sim
    BY <1>10, SpendSim DEF PublishState, TypeOK
  <2> QED BY <1>0, <1>10, <2>1 DEF PublishState, runVars
<1>11. CASE SimRestart
  <2>1. budget'.sim = budget.sim - 1 /\ budget.sim \in Nat
    BY <1>11, Bounds DEF SimRestart, Spend, TypeOK, Budgets
  <2>2. incoming' = <<>> /\ UNCHANGED applied
    BY <1>11 DEF SimRestart, runVars
  <2>3. Len(incoming') = 0
    BY <2>2
  <2>4. \A c \in Commands : applied[c] \in Nat
    BY DEF TypeOK
  <2>5. SimRestarts' = SimRestarts + 1 /\ SimRestarts \in Int
    BY <2>1, Bounds DEF SimRestarts
  <2>6. \A c \in Commands : applied'[c] <= SimRestarts'
    BY <2>2, <2>4, <2>5 DEF OnceInv
  <2> QED BY <2>3, <2>6 DEF OnceInv
<1>12. CASE UNCHANGED vars
  BY <1>0, <1>12 DEF vars, simVars, runVars
<1> QED BY <1>1, <1>2, <1>3, <1>4, <1>5, <1>6, <1>7, <1>8, <1>9, <1>10, <1>11, <1>12
     DEF Next

LEMMA OnceAlways == Spec => []OnceInv
<1>1. Init => OnceInv
  <2> SUFFICES ASSUME Init PROVE OnceInv
    OBVIOUS
  <2>1. Len(incoming) = 0 /\ SimRestarts = 0
    BY Bounds DEF Init, SimRestarts
  <2>2. \A c \in Commands : applied[c] = 0
    BY DEF Init
  <2> QED BY <2>1, <2>2 DEF OnceInv
<1> QED BY TypeCorrect, OnceInductive, <1>1, PTL DEF Spec

\* A command takes effect at most once in the life of the simulator process
\* (MqttTransport._seen_action_ids), however often the bridge restarts and
\* publishes it again.
THEOREM AppliedOnce == Spec => []AppliedOncePerLife
<1>1. TypeOK /\ OnceInv => AppliedOncePerLife
  <2> SUFFICES ASSUME TypeOK, OnceInv PROVE AppliedOncePerLife
    OBVIOUS
  <2>1. SimRestarts \in Int /\ \A c \in Commands : applied[c] \in Nat
    BY Bounds DEF SimRestarts, TypeOK, Budgets
  <2> QED BY <2>1 DEF OnceInv, AppliedOncePerLife, SimRestarts
<1> QED BY TypeCorrect, OnceAlways, <1>1, PTL
-----------------------------------------------------------------------------
(* With guarded decisions, only approved rows are on the wire *)

\* A row the poll thread still holds is approved, unless a bare PATCH decided it
\* twice or the MQTT thread closed it meanwhile: then its id is in _pending or in
\* _done.
BatchInv ==
  \A c \in batch \ overwritten : row[c] = "approved" \/ InMemory(c)

\* A row once approved, and not decided again, stays so until it is closed.
ApprovedInv ==
  \A c \in everApproved \ overwritten : row[c] \in {"approved", "executed", "failed"}

GuardedInv == BatchInv /\ ApprovedInv

\* Only a decision on a pending row changes one that is not approved.
LEMMA GuardedInductive ==
  ASSUME TypeOK, GuardedInv, [Next]_vars
  PROVE  GuardedInv'
<1> USE DEF GuardedInv, BatchInv, ApprovedInv, InMemory
<1>0. ASSUME UNCHANGED <<row, everApproved, overwritten, bpend, bdone>>,
             batch' \subseteq batch
      PROVE  GuardedInv'
  BY <1>0
<1>1. ASSUME NEW c \in Commands, Request(c) PROVE GuardedInv'
  <2>1. /\ row[c] = "absent" /\ row' = [row EXCEPT ![c] = "pending"]
        /\ UNCHANGED <<everApproved, overwritten, bpend, bdone, batch>>
    BY <1>1 DEF Request, bridgeVars, pollVars
  <2> QED BY <2>1 DEF TypeOK
<1>2. ASSUME NEW c \in Commands, NEW decision \in {"approved", "rejected"},
             Decide(c, decision)
      PROVE  GuardedInv'
  <2>1. /\ row' = [row EXCEPT ![c] = decision]
        /\ everApproved' = IF decision = "approved" THEN everApproved \cup {c}
                                                    ELSE everApproved
        /\ UNCHANGED <<bpend, bdone, batch>>
    BY <1>2 DEF Decide, bridgeVars, pollVars
  <2>2. CASE row[c] = "pending" /\ overwritten' = overwritten
    <3>1. c \notin everApproved \ overwritten
          /\ (c \in batch \ overwritten => InMemory(c))
      BY <2>2
    <3> QED BY <2>1, <2>2, <3>1 DEF TypeOK
  <2>3. CASE overwritten' = overwritten \cup {c}
    BY <2>1, <2>3 DEF TypeOK
  <2> QED BY <1>2, <2>2, <2>3 DEF Decide, Decidable
<1>3. ASSUME NEW c \in Commands, PollStep(c) PROVE GuardedInv'
  <2>1. CASE PollSkip(c) \/ PollUnroutable(c) \/ PollRaise(c) \/ PollPublish(c)
    BY <1>0, <2>1
       DEF PollSkip, PollUnroutable, PollRaise, PollPublish, dbVars, bridgeVars
  <2>2. CASE PollUnsupported(c)
    <3>1. /\ batch' = batch \ {c} /\ bdone' = bdone \cup {c}
          /\ UNCHANGED <<everApproved, overwritten, bpend>>
      BY <2>2 DEF PollUnsupported
    <3>2. row' = row \/ row' = [row EXCEPT ![c] = "failed"]
      BY <2>2, PatchRow DEF PollUnsupported, TypeOK
    <3> QED BY <3>1, <3>2 DEF TypeOK
  <2>3. CASE PollRegister(c)
    BY <2>3 DEF PollRegister, dbVars
  <2> QED BY <1>3, <2>1, <2>2, <2>3 DEF PollStep
<1>4. CASE PollFetch
  <2>1. \A c \in batch' : row[c] = "approved"
    BY <1>4 DEF PollFetch, SiteOk, Oldest, Approved
  <2> QED BY <1>4, <2>1 DEF PollFetch, dbVars
<1>5. CASE HandleState
  BY <1>0, <1>5 DEF HandleState, dbVars, pollVars
<1>6. ASSUME NEW a \in ActionStates, AckStep(a) PROVE GuardedInv'
  <2>1. CASE AckIgnored(a)
    BY <1>0, <2>1 DEF AckIgnored, dbVars, bridgeVars, pollVars
  <2>2. CASE AckClosed(a)
    <3>1. /\ a.id \in bpend /\ bpend \cup bdone \subseteq bpend' \cup bdone'
          /\ UNCHANGED <<everApproved, overwritten, batch>>
      BY <2>2 DEF AckClosed, pollVars
    <3>2. a.id \in Commands /\ StatusOf(a.status) \in {"executed", "failed"}
      BY DEF ActionStates, StatusOf
    <3>3. row' = row \/ row' = [row EXCEPT ![a.id] = StatusOf(a.status)]
      BY <2>2, <3>2, PatchRow DEF AckClosed, TypeOK
    <3>4. \A d \in everApproved \ overwritten : row'[d] \in {"approved", "executed", "failed"}
      BY <3>2, <3>3 DEF TypeOK
    <3>5. \A d \in Commands : d # a.id => row'[d] = row[d]
      BY <3>2, <3>3 DEF TypeOK
    <3>6. a.id \in bpend' \cup bdone'
      BY <3>1
    <3>7. \A d \in batch \ overwritten : row'[d] = "approved" \/ d \in bpend' \cup bdone'
      BY <3>1, <3>5, <3>6 DEF TypeOK
    <3> QED BY <3>1, <3>4, <3>7
  <2> QED BY <1>6, <2>1, <2>2 DEF AckStep
<1>7. CASE BridgeRestart
  BY <1>7 DEF BridgeRestart, dbVars
<1>8. CASE SimReceive
  BY <1>0, <1>8 DEF SimReceive, dbVars, bridgeVars, pollVars
<1>9. ASSUME NEW v \in Verdicts, SimApply(v) PROVE GuardedInv'
  BY <1>0, <1>9 DEF SimApply, dbVars, bridgeVars, pollVars
<1>10. ASSUME NEW r \in Robots, PublishState(r) PROVE GuardedInv'
  BY <1>0, <1>10 DEF PublishState, dbVars, bridgeVars, pollVars
<1>11. CASE SimRestart
  BY <1>0, <1>11 DEF SimRestart, dbVars, bridgeVars, pollVars
<1>12. CASE UNCHANGED vars
  BY <1>0, <1>12 DEF vars, dbVars, bridgeVars, pollVars
<1> QED BY <1>1, <1>2, <1>3, <1>4, <1>5, <1>6, <1>7, <1>8, <1>9, <1>10, <1>11, <1>12
     DEF Next

LEMMA GuardedAlways == Spec => []GuardedInv
<1>1. Init => GuardedInv
  BY DEF Init, GuardedInv, BatchInv, ApprovedInv
<1>2. TypeOK /\ GuardedInv /\ [Next]_vars => GuardedInv'
  BY GuardedInductive
<1> QED BY TypeCorrect, <1>1, <1>2, PTL DEF Spec

\* Only PollPublish publishes.
LEMMA OnlyPublish ==
  ASSUME TypeOK, Next, NEW d \in Commands, pubs'[d] # pubs[d]
  PROVE  PollPublish(d)
<1>1. ASSUME NEW c \in Commands, PollPublish(c) PROVE c = d
  <2>1. pubs' = [pubs EXCEPT ![c] = @ + 1]
    BY <1>1 DEF PollPublish
  <2> QED BY <2>1 DEF TypeOK
<1>2. ASSUME NEW c \in Commands, PollStep(c) PROVE PollPublish(c) \/ pubs' = pubs
  BY <1>2 DEF PollStep, PollSkip, PollUnsupported, PollUnroutable, PollRaise,
              PollRegister
<1>3. ASSUME \A c \in Commands : ~PollPublish(c) PROVE pubs' = pubs
  <2>1. ASSUME NEW c \in Commands, Request(c) PROVE pubs' = pubs
    BY <2>1 DEF Request
  <2>2. ASSUME NEW c \in Commands, NEW decision \in {"approved", "rejected"},
               Decide(c, decision)
        PROVE  pubs' = pubs
    BY <2>2 DEF Decide
  <2>3. ASSUME NEW a \in ActionStates, AckStep(a) PROVE pubs' = pubs
    BY <2>3 DEF AckStep, AckIgnored, AckClosed
  <2>4. ASSUME NEW v \in Verdicts, SimApply(v) PROVE pubs' = pubs
    BY <2>4 DEF SimApply
  <2>5. ASSUME NEW r \in Robots, PublishState(r) PROVE pubs' = pubs
    BY <2>5 DEF PublishState
  <2>6. CASE PollFetch \/ HandleState \/ BridgeRestart \/ SimReceive \/ SimRestart
    BY <2>6 DEF PollFetch, HandleState, BridgeRestart, SimReceive, SimRestart
  <2> QED BY <1>2, <1>3, <2>1, <2>2, <2>3, <2>4, <2>5, <2>6 DEF Next
<1> QED BY <1>1, <1>3

\* A row that was closed while the poll thread held it is not published again
\* (CommandPublisher.poll), however the two threads interleave and whoever else
\* is decided twice. With the bare PATCH of the anonymous console an approved row
\* may be rejected after the GET and is then published.
THEOREM PublishedApproved == Spec => PublishesOnlyApproved
<1> DEFINE A == \A c \in Commands :
                  pubs'[c] # pubs[c] => row[c] = "approved" \/ c \in overwritten
<1>1. TypeOK /\ GuardedInv /\ [Next]_vars => [A]_vars
  <2> SUFFICES ASSUME TypeOK, GuardedInv, Next,
                      NEW c \in Commands, pubs'[c] # pubs[c]
               PROVE  row[c] = "approved" \/ c \in overwritten
    OBVIOUS
  <2>1. c \in batch /\ ~InMemory(c)
    BY OnlyPublish DEF PollPublish, Ready, Current
  <2> QED BY <2>1 DEF GuardedInv, BatchInv
<1>2. Spec => [][A]_vars
  BY TypeCorrect, GuardedAlways, <1>1, PTL DEF Spec
<1> QED BY <1>2 DEF PublishesOnlyApproved
-----------------------------------------------------------------------------
(* The loop implements the gate for one life of the simulator *)

\* What the bridge leaves of CommandGate's history: a command has an outcome
\* only if it was applied, and one outcome while the simulator lives.
OutcomeInv ==
  /\ \A c \in Commands : outcomes[c] # {} => applied[c] > 0
  /\ budget.sim = MaxSimRestarts =>
       \A c \in Commands : \A v, w \in outcomes[c] : v = w

\* Only poll_commands adds an outcome.
LEMMA OutcomeSame ==
  ASSUME TypeOK, [Next]_vars, \A v \in Verdicts : ~SimApply(v)
  PROVE  UNCHANGED <<applied, outcomes>> /\ budget'.sim <= budget.sim
<1>0. budget.sim \in Nat /\ \A c \in Commands : applied[c] \in Nat
  BY Bounds DEF TypeOK, Budgets
<1>1. ASSUME NEW c \in Commands, PollStep(c)
      PROVE  UNCHANGED runVars /\ budget'.sim = budget.sim
  BY <1>1, SpendSim, PatchSim
     DEF PollStep, PollSkip, PollUnsupported, PollUnroutable, PollRaise,
         PollPublish, PollRegister, TypeOK
<1>2. ASSUME NEW a \in ActionStates, AckStep(a)
      PROVE  UNCHANGED runVars /\ budget'.sim = budget.sim
  BY <1>2, PatchSim DEF AckStep, AckIgnored, AckClosed, TypeOK
<1>3. ASSUME NEW c \in Commands,
             Request(c) \/ \E decision \in {"approved", "rejected"} : Decide(c, decision)
      PROVE  UNCHANGED runVars /\ budget'.sim = budget.sim
  BY <1>3, SpendSim DEF Request, Decide, Decidable, TypeOK
<1>4. ASSUME PollFetch \/ HandleState \/ SimReceive
      PROVE  UNCHANGED <<applied, outcomes, budget>>
  BY <1>4 DEF PollFetch, HandleState, SimReceive, runVars
<1>5. CASE BridgeRestart
  BY <1>0, <1>5, SpendSim DEF BridgeRestart, TypeOK, runVars
<1>6. ASSUME NEW r \in Robots, PublishState(r)
      PROVE  UNCHANGED runVars /\ budget'.sim = budget.sim
  BY <1>6, SpendSim DEF PublishState, TypeOK
<1>7. CASE SimRestart
  BY <1>0, <1>7, Bounds DEF SimRestart, Spend, TypeOK, Budgets, runVars
<1>8. CASE UNCHANGED vars
  BY <1>0, <1>8 DEF vars, runVars
<1> QED BY <1>0, <1>1, <1>2, <1>3, <1>4, <1>5, <1>6, <1>7, <1>8 DEF Next, runVars

\* A command is applied for the first time while the simulator lives.
LEMMA FirstOutcome ==
  ASSUME TypeOK, OnceInv, OutcomeInv, NEW v \in Verdicts, SimApply(v),
         budget.sim = MaxSimRestarts
  PROVE  outcomes[Head(incoming)] = {}
<1> DEFINE c == Head(incoming)
<1>1. c \in Commands /\ Len(incoming) >= 1 /\ c = incoming[1] /\ Len(incoming) \in Nat
  BY QueueType, TailIndex DEF SimApply, TypeOK
<1>2. Queued(c)
  BY <1>1 DEF Queued
<1>3. SimRestarts = 0
  BY Bounds DEF SimRestarts
<1>4. applied[c] \in Nat /\ applied[c] <= 0
  BY <1>1, <1>2, <1>3 DEF OnceInv, TypeOK
<1> QED BY <1>1, <1>4 DEF OutcomeInv

LEMMA OutcomeInductive ==
  TypeOK /\ OnceInv /\ OutcomeInv /\ [Next]_vars => OutcomeInv'
<1> SUFFICES ASSUME TypeOK, OnceInv, OutcomeInv, [Next]_vars PROVE OutcomeInv'
  OBVIOUS
<1>1. CASE \A v \in Verdicts : ~SimApply(v)
  <2>1. budget.sim \in 0 .. MaxSimRestarts /\ budget'.sim <= budget.sim
    BY <1>1, OutcomeSame DEF TypeOK, Budgets
  <2>2. budget'.sim = MaxSimRestarts => budget.sim = MaxSimRestarts
    BY <2>1, Bounds
  <2> QED BY <1>1, <2>2, OutcomeSame DEF OutcomeInv
<1>2. ASSUME NEW v \in Verdicts, SimApply(v) PROVE OutcomeInv'
  <2> DEFINE c == Head(incoming)
  <2>1. c \in Commands
    BY <1>2, QueueType DEF SimApply, TypeOK
  <2>2. /\ applied' = [applied EXCEPT ![c] = @ + 1]
        /\ outcomes' = [outcomes EXCEPT ![c] = @ \cup {v}]
        /\ budget' = budget
    BY <1>2 DEF SimApply
  <2>3. \A d \in Commands : applied[d] \in Nat
    BY DEF TypeOK
  <2>4. \A d \in Commands : outcomes'[d] # {} => applied'[d] > 0
    BY <2>1, <2>2, <2>3 DEF OutcomeInv, TypeOK
  <2>5. ASSUME budget'.sim = MaxSimRestarts, NEW d \in Commands
        PROVE  \A w, x \in outcomes'[d] : w = x
    <3>1. outcomes[c] = {} /\ outcomes'[c] = {v}
      BY <1>2, <2>1, <2>2, <2>5, FirstOutcome DEF TypeOK
    <3>2. CASE d = c
      BY <3>1, <3>2
    <3>3. CASE d # c
      BY <2>2, <2>5, <3>3 DEF OutcomeInv, TypeOK
    <3> QED BY <3>2, <3>3
  <2> QED BY <2>4, <2>5 DEF OutcomeInv
<1> QED BY <1>1, <1>2

LEMMA OutcomeAlways == Spec => []OutcomeInv
<1>1. Init => OutcomeInv
  BY DEF Init, OutcomeInv
<1> QED BY TypeCorrect, OnceAlways, OutcomeInductive, <1>1, PTL DEF Spec

\* All that is known of the loop.
LoopInv == TypeOK /\ GateInv /\ ReportInv /\ OnceInv /\ GuardedInv /\ OutcomeInv

\* What a robot answered about is approved and not yet closed, or closed with
\* that answer: the only rows a robot carries out are approved.
LEMMA Settled ==
  ASSUME LoopInv, NEW c \in Gated \ overwritten
  PROVE  \/ row[c] = "approved"
         \/ row[c] = "executed" /\ "FINISHED" \in outcomes[c]
         \/ row[c] = "failed" /\ "FAILED" \in outcomes[c]
<1>1. c \in Commands /\ row[c] \in {"approved", "executed", "failed"} /\ c \in Supported
  BY DEF LoopInv, TypeOK, GuardedInv, ApprovedInv, Gated
<1> QED BY <1>1 DEF LoopInv, ReportInv, RowTellsOutcome

\* What was decided twice stays so.
LEMMA OverwrittenGrows == ASSUME [Next]_vars PROVE overwritten \subseteq overwritten'
BY DEF Next, Request, Decide, Decidable, PollStep, PollSkip, PollUnsupported,
       PollUnroutable, PollRaise, PollPublish, PollRegister, PollFetch, HandleState,
       AckStep, AckIgnored, AckClosed, BridgeRestart, SimReceive, SimApply,
       PublishState, SimRestart, vars, dbVars

\* Each step of the loop is one of CommandGate, or changes neither a row nor an
\* outcome.
GateStep == Gate!Next \/ UNCHANGED <<row, outcomes>>

LEMMA StepsOfGate ==
  ASSUME LoopInv, [Next]_vars, budget'.sim = MaxSimRestarts, overwritten' = {}
  PROVE  GateStep
<1> USE DEF GateStep
<1>t. TypeOK
  BY DEF LoopInv
<1>o. overwritten = {}
  BY OverwrittenGrows
<1>1. ASSUME NEW c \in Commands, Request(c) PROVE GateStep
  <2>1. Gate!Request(c)
    BY <1>1 DEF Request, runVars, Gate!Request
  <2> QED BY <2>1 DEF Gate!Next
<1>2. ASSUME NEW c \in Commands, NEW decision \in {"approved", "rejected"},
             Decide(c, decision)
      PROVE  GateStep
  <2>1. Gate!Decide(c, decision)
    BY <1>2 DEF Decide, Decidable, runVars, Gate!Decide
  <2> QED BY <2>1 DEF Gate!Next
<1>3. ASSUME NEW c \in Commands, PollStep(c) PROVE GateStep
  <2>1. CASE ~PollUnsupported(c)
    BY <1>3, <2>1
       DEF PollStep, PollSkip, PollUnroutable, PollRaise, PollPublish,
           PollRegister, dbVars, runVars
  <2>2. CASE PollUnsupported(c)
    <3>1. c \in batch /\ ~InMemory(c) /\ c \notin Supported /\ outcomes' = outcomes
      BY <2>2 DEF PollUnsupported, Current, runVars
    <3>2. row[c] = "approved"
      BY <1>o, <3>1 DEF LoopInv, GuardedInv, BatchInv
    <3>3. row' = row \/ row' = [row EXCEPT ![c] = "failed"]
      BY <1>t, <2>2, PatchRow DEF PollUnsupported, TypeOK
    <3>4. CASE row' = [row EXCEPT ![c] = "failed"]
      <4>1. Gate!Refuse(c)
        BY <3>1, <3>2, <3>4 DEF Gate!Refuse
      <4> QED BY <4>1 DEF Gate!Next
    <3> QED BY <3>1, <3>3, <3>4
  <2> QED BY <2>1, <2>2
<1>4. CASE PollFetch \/ HandleState \/ BridgeRestart \/ SimReceive \/ SimRestart
  BY <1>4 DEF PollFetch, HandleState, BridgeRestart, SimReceive, SimRestart,
              dbVars, runVars
<1>5. ASSUME NEW a \in ActionStates, AckStep(a) PROVE GateStep
  <2>1. CASE AckIgnored(a)
    BY <2>1 DEF AckIgnored, dbVars, runVars
  <2>2. CASE AckClosed(a)
    <3> DEFINE c == a.id
    <3>1. c \in Commands /\ a.status \in Verdicts /\ outcomes' = outcomes
      BY <2>2 DEF AckClosed, ActionStates, runVars
    <3>2. a.status \in outcomes[c]
      BY <2>2 DEF AckClosed, LoopInv, ReportInv, Truthful
    <3>3. c \in Gated
      BY <3>1, <3>2 DEF LoopInv, OutcomeInv, GateInv
    <3>4. row' = row \/ row' = [row EXCEPT ![c] = StatusOf(a.status)]
      BY <1>t, <2>2, <3>1, PatchRow DEF AckClosed, TypeOK
    <3>5. CASE row[c] = "approved" /\ row' # row
      <4>1. Gate!StatusOf(a.status) = StatusOf(a.status)
        BY DEF StatusOf, Gate!StatusOf
      <4>2. Gate!Close(c)
        BY <3>1, <3>2, <3>4, <3>5, <4>1 DEF Gate!Close
      <4> QED BY <3>1, <4>2 DEF Gate!Next
    <3>6. CASE row[c] # "approved"
      <4>1. budget.sim = MaxSimRestarts
        BY <1>t, <2>2, PatchSim DEF AckClosed, TypeOK
      <4>2. row[c] = StatusOf(a.status)
        BY <1>o, <3>1, <3>2, <3>3, <3>6, <4>1, Settled DEF LoopInv, OutcomeInv, StatusOf
      <4> QED BY <1>t, <3>1, <3>4, <4>2 DEF TypeOK
    <3> QED BY <3>1, <3>5, <3>6
  <2> QED BY <1>5, <2>1, <2>2 DEF AckStep
<1>6. ASSUME NEW v \in Verdicts, SimApply(v) PROVE GateStep
  <2> DEFINE c == Head(incoming)
  <2>1. c \in Gated
    BY <1>6, QueueType DEF SimApply, LoopInv, GateInv
  <2>2. c \in Commands
    BY <1>t, <1>6, QueueType DEF SimApply, TypeOK
  <2>3. /\ outcomes' = [outcomes EXCEPT ![c] = @ \cup {v}]
        /\ UNCHANGED <<row, budget>>
    BY <1>6 DEF SimApply, dbVars
  <2>4. outcomes[c] = {}
    BY <1>6, <2>3, FirstOutcome DEF LoopInv
  <2>5. row[c] = "approved"
    BY <1>o, <2>1, <2>4, Settled
  <2>6. Gate!Carry(c, v)
    BY <1>t, <2>2, <2>3, <2>4, <2>5 DEF TypeOK, Gate!Carry
  <2>7. v \in Gate!Verdicts
    BY DEF Verdicts, Gate!Verdicts
  <2> QED BY <2>2, <2>6, <2>7 DEF Gate!Next
<1>7. ASSUME NEW r \in Robots, PublishState(r) PROVE GateStep
  BY <1>7 DEF PublishState, dbVars, runVars
<1>8. CASE UNCHANGED vars
  BY <1>8 DEF vars, dbVars, runVars
<1> QED BY <1>1, <1>2, <1>3, <1>4, <1>5, <1>6, <1>7, <1>8 DEF Next

\* CommandPublisher, the broker and MqttTransport together implement the
\* human-in-the-loop gate, until a row is decided twice or the simulator loses
\* its memory: an approved command is carried out at most once, and its row is
\* closed with the one answer the robot gave, however messages are lost and the
\* bridge restarts.
THEOREM LoopImplementsGate == Spec => ImplementsGate
<1> DEFINE Whole == budget'.sim = MaxSimRestarts /\ overwritten' = {}
<1>1. Init => Gate!Init
  BY DEF Init, Gate!Init
<1>2. Spec => []LoopInv
  <2>1. Spec => []GuardedInv
    BY GuardedAlways
  <2>2. TypeOK /\ GateInv /\ ReportInv /\ OnceInv /\ GuardedInv /\ OutcomeInv => LoopInv
    BY DEF LoopInv
  <2> QED
    BY TypeCorrect, GateAlways, ReportAlways, OnceAlways, <2>1, OutcomeAlways,
       <2>2, PTL
<1>3. LoopInv /\ [Next]_vars
        => [Whole => Gate!Next]_<<row, outcomes>>
  BY StepsOfGate DEF GateStep
<1>4. Spec => Gate!Init /\ [][Whole => Gate!Next]_<<row, outcomes>>
  BY <1>1, <1>2, <1>3, PTL DEF Spec
<1> QED BY <1>4 DEF ImplementsGate

----------------------------------------------------------------------------
(* The ingest. What an alert means is said of the messages fed, in the     *)
(* order the ledger saw them: a condition is active in the ledger exactly  *)
(* while it is ongoing in that history, unless two threads have updated    *)
(* the ledger from an outdated view.                                       *)

Conditions == Errors \cup {Ingest!Low}

Heard == 1..Len(log)

Source ==
  [on : BOOLEAN, waiting : Seq(Heard), at : {"idle", "feed", "push"}, message : Nat,
   seen : SUBSET Conditions, due : SUBSET (Conditions \X Nat)]

Fed == [message : Heard, threshold : Nat]

IngestTyped ==
  /\ log \in Seq(Messages)
  /\ source \in [Brokers -> Source]
  /\ current \in Brokers /\ retiring \subseteq Brokers
  /\ threshold \in Nat
  /\ active \subseteq Conditions
  /\ fed \in Seq(Fed)
  /\ stale \in BOOLEAN

\* A source that is off has nothing in hand, and so has one that is idle; the
\* configuration thread keeps the source in use.
SourcesInv ==
  /\ source[current].on /\ current \notin retiring
  /\ \A b, c \in retiring : b = c
  /\ \A b \in Brokers :
       /\ source[b].on => b \in {current} \cup retiring
       /\ ~source[b].on => source[b] = Ingest!Off
       /\ source[b].at # "push" => source[b].due = {}
       /\ source[b].at = "feed" => source[b].message \in Heard

Ledger ==
  ~stale =>
    /\ active = { k \in Conditions : Ingest!Ongoing(k, Len(fed) + 1) }
    /\ alerts \cup Ingest!Due \cup lost = Ingest!Occurrences

IngestInv == IngestTyped /\ SourcesInv /\ Ledger

----------------------------------------------------------------------------

LEMMA IngestFacts ==
  ASSUME Ingest!Constants
  PROVE  /\ Messages \subseteq [errors : SUBSET Errors, charge : Nat]
         /\ Thresholds \subseteq Nat /\ Battery \in Nat /\ Hysteresis \in Nat
         /\ Initial \in Brokers /\ Ingest!Low \notin Errors
BY DEF Ingest!Constants

LEMMA OffAndOn ==
  /\ Ingest!Off \in Source /\ Ingest!On \in Source /\ Ingest!On.on /\ ~Ingest!Off.on
  /\ Ingest!Off.due = {} /\ Ingest!Off.at = "idle"
  /\ Ingest!On.due = {} /\ Ingest!On.at = "idle"
<1>1. <<>> \in Seq(Heard)
  OBVIOUS
<1>2. Ingest!Off \in Source
  BY <1>1 DEF Ingest!Off, Source
<1>3. ~Ingest!Off.on /\ Ingest!Off.due = {} /\ Ingest!Off.at = "idle"
  BY DEF Ingest!Off
<1>4. Ingest!On = [Ingest!Off EXCEPT !.on = TRUE]
  BY DEF Ingest!On
<1>5. Ingest!On \in Source /\ Ingest!On.on
  BY <1>2, <1>4 DEF Source
<1>6. Ingest!On.due = {} /\ Ingest!On.at = "idle"
  BY <1>2, <1>3, <1>4 DEF Source
<1> QED BY <1>2, <1>3, <1>5, <1>6

\* Where the thread of a source goes.
LEMMA Turned ==
  ASSUME source \in [Brokers -> Source], NEW b \in Brokers,
         NEW w \in Seq(Heard), NEW at \in {"idle", "feed", "push"}, NEW m \in Nat,
         NEW saw \in SUBSET Conditions, NEW due \in SUBSET (Conditions \X Nat),
         Ingest!Turn(b, w, at, m, saw, due)
  PROVE  /\ source' \in [Brokers -> Source]
         /\ source'[b] = [on |-> source[b].on, waiting |-> w, at |-> at, message |-> m,
                          seen |-> saw, due |-> due]
         /\ \A c \in Brokers : c # b => source'[c] = source[c]
<1> DEFINE s == [on |-> source[b].on, waiting |-> w, at |-> at, message |-> m,
                 seen |-> saw, due |-> due]
<1>1. source' = [source EXCEPT ![b] = s]
  BY Zenon DEF Ingest!Turn
<1>2. s \in Source
  BY DEF Source
<1> HIDE DEF s
<1>3. source' \in [Brokers -> Source] /\ source'[b] = s
      /\ \A c \in Brokers : c # b => source'[c] = source[c]
  BY <1>1, <1>2
<1> QED BY <1>3 DEF s

\* The parts of a source that the invariants speak of.
LEMMA TurnKeepsSources ==
  ASSUME IngestTyped, SourcesInv, NEW b \in Brokers, source[b].on,
         NEW w, NEW at, NEW m, NEW saw, NEW due,
         source'[b] = [on |-> source[b].on, waiting |-> w, at |-> at, message |-> m,
                       seen |-> saw, due |-> due],
         \A c \in Brokers : c # b => source'[c] = source[c],
         at # "push" => due = {}, at = "feed" => m \in Heard,
         UNCHANGED <<current, retiring, log>>
  PROVE  SourcesInv'
<1>1. /\ source'[b].on = source[b].on /\ source'[b].at = at
      /\ source'[b].message = m /\ source'[b].due = due
  OBVIOUS
<1>2. current \in Brokers /\ Heard' = Heard
  BY DEF IngestTyped, Heard
<1>3. ASSUME NEW c \in Brokers
      PROVE  /\ source'[c].on = source[c].on
             /\ ~source'[c].on => source'[c] = Ingest!Off
             /\ source'[c].at # "push" => source'[c].due = {}
             /\ source'[c].at = "feed" => source'[c].message \in Heard
  <2>1. CASE c = b
    BY <1>1, <2>1
  <2>2. CASE c # b
    <3>1. source'[c] = source[c]
      BY <2>2
    <3> QED BY <3>1 DEF SourcesInv
  <2> QED BY <2>1, <2>2
<1> QED BY <1>2, <1>3 DEF SourcesInv

\* Alerts that wait to be pushed, when one source's change.
LEMMA DueSplit ==
  ASSUME NEW b \in Brokers, \A c \in Brokers : c # b => source'[c] = source[c]
  PROVE  /\ source[b].due = {} => Ingest!Due' = Ingest!Due \cup source'[b].due
         /\ source'[b].due = {} =>
              Ingest!Due' \subseteq Ingest!Due /\ Ingest!Due \subseteq Ingest!Due' \cup source[b].due
         /\ source[b].due \subseteq Ingest!Due
BY DEF Ingest!Due

\* What the messages say does not change when others are published or fed.
LEMMA HistoryKept ==
  ASSUME IngestTyped, \A i \in Heard : log'[i] = log[i],
         Len(fed) <= Len(fed'), Len(fed') \in Nat,
         \A i \in 1..Len(fed) : fed'[i] = fed[i]
  PROVE  /\ \A k, i : i \in 1..Len(fed) =>
              (Ingest!Holds(k, i)' <=> Ingest!Holds(k, i))
              /\ (Ingest!Clears(k, i)' <=> Ingest!Clears(k, i))
         /\ \A k, i : i \in 1..(Len(fed) + 1) =>
              (Ingest!Ongoing(k, i)' <=> Ingest!Ongoing(k, i))
<1>1. /\ Len(fed) \in Nat
      /\ \A i \in 1..Len(fed) : fed[i].message \in Heard
  <2>1. fed \in Seq(Fed) /\ \A e \in Fed : e.message \in Heard
    BY DEF IngestTyped, Fed
  <2> QED BY <2>1
<1>2. ASSUME NEW k, NEW i, i \in 1..Len(fed)
      PROVE  /\ Ingest!Holds(k, i)' <=> Ingest!Holds(k, i)
             /\ Ingest!Clears(k, i)' <=> Ingest!Clears(k, i)
  <2>1. fed'[i] = fed[i] /\ log'[fed[i].message] = log[fed[i].message]
    BY <1>1, <1>2
  <2> QED BY <2>1 DEF Ingest!Holds, Ingest!Clears
<1>3. ASSUME NEW k, NEW i, i \in 1..(Len(fed) + 1)
      PROVE  Ingest!Ongoing(k, i)' <=> Ingest!Ongoing(k, i)
  <2>1. \A j \in 1..(i - 1) : j \in 1..Len(fed)
    BY <1>1, <1>3
  <2>2. \A j \in 1..(i - 1) : \A l \in (j + 1)..(i - 1) : l \in 1..Len(fed)
    BY <1>1, <1>3
  <2>3. \A j \in 1..(i - 1) : Ingest!Holds(k, j)' <=> Ingest!Holds(k, j)
    BY <1>2, <2>1
  <2>4. \A j \in 1..(i - 1) : \A l \in (j + 1)..(i - 1) :
          Ingest!Clears(k, l)' <=> Ingest!Clears(k, l)
    BY <1>2, <2>2
  <2> QED BY <2>3, <2>4 DEF Ingest!Ongoing
<1> QED BY <1>2, <1>3

LEMMA OccurrencesAre ==
  ASSUME NEW o
  PROVE  o \in Ingest!Occurrences <=>
           \E k \in Conditions : \E i \in 1..Len(fed) :
             /\ o = <<k, fed[i].message>>
             /\ Ingest!Holds(k, i) /\ ~Ingest!Ongoing(k, i)
<1> DEFINE Begins(k) == {j \in 1..Len(fed) : Ingest!Holds(k, j) /\ ~Ingest!Ongoing(k, j)}
<1>1. Ingest!Occurrences = UNION {{<<k, fed[i].message>> : i \in Begins(k)} : k \in Conditions}
  BY DEF Ingest!Occurrences, Conditions
<1>2. ASSUME NEW k, NEW i
      PROVE  i \in Begins(k) <=>
               i \in 1..Len(fed) /\ Ingest!Holds(k, i) /\ ~Ingest!Ongoing(k, i)
  OBVIOUS
<1> HIDE DEF Begins
<1>3. o \in Ingest!Occurrences <=>
        \E k \in Conditions : \E i \in Begins(k) : o = <<k, fed[i].message>>
  BY <1>1
<1> QED BY <1>2, <1>3

\* A step that feeds nothing leaves the ledger's meaning alone.
LEMMA NothingFed ==
  ASSUME IngestTyped, Ledger, \A i \in Heard : log'[i] = log[i],
         UNCHANGED <<fed, active, stale>>,
         alerts' \cup Ingest!Due' \cup lost' = alerts \cup Ingest!Due \cup lost
  PROVE  Ledger'
<1>1. Len(fed) \in Nat /\ \A i \in 1..Len(fed) : fed'[i] = fed[i]
  BY DEF IngestTyped
<1>2. /\ \A k, i : i \in 1..Len(fed) => (Ingest!Holds(k, i)' <=> Ingest!Holds(k, i))
      /\ \A k, i : i \in 1..(Len(fed) + 1) =>
           (Ingest!Ongoing(k, i)' <=> Ingest!Ongoing(k, i))
  BY <1>1, HistoryKept
<1>3. \A i \in 1..Len(fed) : i \in 1..(Len(fed) + 1)
  BY <1>1
<1>4. Ingest!Occurrences' = Ingest!Occurrences
  <2> DEFINE At(k) == {j \in 1..Len(fed) : Ingest!Holds(k, j) /\ ~Ingest!Ongoing(k, j)}
             Begins(k) == {<<k, fed[i].message>> : i \in At(k)}
  <2>1. ASSUME NEW k PROVE Begins(k)' = Begins(k)
    <3>1. At(k)' = At(k)
      BY <1>2, <1>3
    <3> HIDE DEF At
    <3> QED BY <3>1
  <2>2. Ingest!Occurrences = UNION {Begins(k) : k \in Errors \cup {Ingest!Low}}
    BY DEF Ingest!Occurrences
  <2>3. Ingest!Occurrences' = UNION {Begins(k)' : k \in Errors \cup {Ingest!Low}}
    BY DEF Ingest!Occurrences, Ingest!Low
  <2> HIDE DEF Begins
  <2>4. ASSUME NEW o PROVE o \in Ingest!Occurrences' <=> o \in Ingest!Occurrences
    BY <2>1, <2>2, <2>3
  <2> QED BY <2>4
<1>5. Len(fed) + 1 \in 1..(Len(fed) + 1)
  BY <1>1
<1>6. \A k : Ingest!Ongoing(k, Len(fed) + 1)' <=> Ingest!Ongoing(k, Len(fed) + 1)
  BY <1>2, <1>5
<1>7. Conditions' = Conditions
  BY DEF Conditions, Ingest!Low
<1> QED BY <1>4, <1>6, <1>7 DEF Ledger

----------------------------------------------------------------------------

\* The vehicle publishes: a message more is heard, nothing else changes.
LEMMA PublishKeeps ==
  ASSUME IngestInv, Ingest!Constants, NEW m \in Messages, Ingest!Publish(m)
  PROVE  IngestInv'
<1> DEFINE n == Len(log)
<1>1. /\ IngestTyped /\ SourcesInv /\ Ledger /\ n \in Nat
  BY DEF IngestInv, IngestTyped
<1>2. /\ log' \in Seq(Messages) /\ Len(log') = n + 1
      /\ \A i \in Heard : log'[i] = log[i]
  BY <1>1 DEF Ingest!Publish, IngestTyped, Heard
<1>3. Heard \subseteq Heard' /\ n + 1 \in Heard'
  BY <1>1, <1>2 DEF Heard
<1>4. ASSUME NEW c \in Brokers
      PROVE  /\ source'[c] \in Source'
             /\ source'[c].on = source[c].on /\ source'[c].at = source[c].at
             /\ source'[c].message = source[c].message
             /\ source'[c].due = source[c].due
             /\ ~source[c].on => source'[c] = source[c]
  <2> DEFINE w == Append(source[c].waiting, n + 1)
  <2>1. source[c] \in Source
    BY <1>1 DEF IngestTyped
  <2>2. source[c].waiting \in Seq(Heard')
    <3>1. source[c].waiting \in Seq(Heard)
      BY <2>1 DEF Source
    <3> QED BY <3>1, <1>3, SeqMonotone
  <2>3. w \in Seq(Heard')
    BY <2>2, <1>3
  <2>4. source'[c] = IF source[c].on THEN [source[c] EXCEPT !.waiting = w] ELSE source[c]
    BY DEF Ingest!Publish
  <2>5. Conditions' = Conditions
    BY DEF Conditions, Ingest!Low
  <2> HIDE DEF w
  <2>6. CASE source[c].on
    BY <2>1, <2>3, <2>4, <2>5, <2>6 DEF Source
  <2>7. CASE ~source[c].on
    BY <2>1, <2>2, <2>4, <2>5, <2>7 DEF Source
  <2> QED BY <2>6, <2>7
<1>5. UNCHANGED <<current, retiring, threshold, active, fed, stale, alerts, lost>>
  BY DEF Ingest!Publish, Ingest!broker, Ingest!ledger
<1>6. IngestTyped'
  <2>1. DOMAIN source' = Brokers /\ source' = [c \in Brokers |-> source'[c]]
    BY DEF Ingest!Publish
  <2>2. source' \in [Brokers -> Source']
    BY <2>1, <1>4
  <2>3. fed' \in Seq(Fed')
    <3>1. Fed \subseteq Fed'
      BY <1>3 DEF Fed
    <3> QED BY <3>1, <1>1, <1>5, SeqMonotone DEF IngestTyped
  <2>4. active' \subseteq Conditions'
    BY <1>1, <1>5 DEF IngestTyped, Conditions, Ingest!Low
  <2> QED BY <1>1, <1>2, <1>5, <2>2, <2>3, <2>4 DEF IngestTyped
<1>7. SourcesInv'
  <2>1. current \in Brokers
    BY <1>1 DEF IngestTyped
  <2> QED BY <1>1, <1>3, <1>4, <1>5, <2>1 DEF SourcesInv, Ingest!Off
<1>8. Ingest!Due' = Ingest!Due
  BY <1>4 DEF Ingest!Due
<1> HIDE DEF n
<1>9. Ledger'
  BY <1>1, <1>2, <1>5, <1>8, NothingFed
<1> QED BY <1>6, <1>7, <1>9 DEF IngestInv

\* A source that is at work is connected.
LEMMA AtWork ==
  ASSUME SourcesInv, NEW b \in Brokers, source[b].at # "idle"
  PROVE  source[b].on
BY DEF SourcesInv, Ingest!Off

\* The types, when only a source, the ledger or the alerts change.
LEMMA TypedAfter ==
  ASSUME IngestTyped, source' \in [Brokers -> Source], active' \subseteq Conditions,
         fed' \in Seq(Fed), stale' \in BOOLEAN,
         UNCHANGED <<log, current, retiring, threshold>>
  PROVE  IngestTyped'
<1>1. Heard' = Heard /\ Conditions' = Conditions
  BY DEF Heard, Conditions, Ingest!Low
<1>2. Source' = Source /\ Fed' = Fed
  BY <1>1 DEF Source, Fed
<1> QED BY <1>1, <1>2 DEF IngestTyped

LEMMA ReceiveKeeps ==
  ASSUME IngestInv, NEW b \in Brokers, Ingest!Receive(b)
  PROVE  IngestInv'
<1> DEFINE w == Tail(source[b].waiting)
           m == Head(source[b].waiting)
<1>1. /\ IngestTyped /\ SourcesInv /\ Ledger
      /\ source \in [Brokers -> Source] /\ active \in SUBSET Conditions
  BY DEF IngestInv, IngestTyped
<1>2. /\ source[b].on /\ source[b].at = "idle" /\ source[b].waiting # <<>>
      /\ Ingest!Turn(b, w, "feed", m, active, {})
      /\ UNCHANGED <<log, current, retiring, threshold, active, fed, stale, alerts, lost>>
  BY DEF Ingest!Receive, Ingest!broker, Ingest!ledger
<1>3. source[b].waiting \in Seq(Heard)
  BY <1>1 DEF Source
<1>4. w \in Seq(Heard) /\ m \in Heard
  BY <1>2, <1>3
<1>5. m \in Nat
  BY <1>1, <1>4 DEF Heard, IngestTyped
<1> HIDE DEF w, m
<1>6. /\ source' \in [Brokers -> Source]
      /\ source'[b] = [on |-> source[b].on, waiting |-> w, at |-> "feed", message |-> m,
                       seen |-> active, due |-> {}]
      /\ \A c \in Brokers : c # b => source'[c] = source[c]
  <2>1. {} \in SUBSET (Conditions \X Nat) /\ "feed" \in {"idle", "feed", "push"}
    OBVIOUS
  <2> QED BY <1>1, <1>2, <1>4, <1>5, <2>1, Turned, Zenon
<1>7. IngestTyped'
  BY <1>1, <1>2, <1>6, TypedAfter DEF IngestTyped
<1>8. SourcesInv'
  BY <1>1, <1>2, <1>4, <1>6, TurnKeepsSources
<1>9. Ingest!Due' = Ingest!Due
  <2>1. source[b].due = {} /\ source'[b].due = {}
    BY <1>1, <1>2, <1>6 DEF SourcesInv
  <2> QED BY <2>1, <1>6, DueSplit
<1>10. Ledger'
  BY <1>1, <1>2, <1>9, NothingFed
<1> QED BY <1>7, <1>8, <1>10 DEF IngestInv

\* The callback ends: what was due is written or lost.
LEMMA IdleKeeps ==
  ASSUME IngestInv, NEW b \in Brokers, source[b].at = "push", Ingest!Idle(b),
         UNCHANGED <<log, current, retiring, threshold, active, fed, stale>>,
         alerts' \cup lost' = alerts \cup lost \cup source[b].due
  PROVE  IngestInv'
<1> DEFINE w == source[b].waiting
<1>1. /\ IngestTyped /\ SourcesInv /\ Ledger
      /\ source \in [Brokers -> Source]
  BY DEF IngestInv, IngestTyped
<1>2. w \in Seq(Heard)
  BY <1>1 DEF Source
<1>3. source[b].on
  BY <1>1, AtWork
<1>4. Ingest!Turn(b, w, "idle", 0, {}, {})
  BY DEF Ingest!Idle
<1> HIDE DEF w
<1>5. /\ source' \in [Brokers -> Source]
      /\ source'[b] = [on |-> source[b].on, waiting |-> w, at |-> "idle", message |-> 0,
                       seen |-> {}, due |-> {}]
      /\ \A c \in Brokers : c # b => source'[c] = source[c]
  <2>1. /\ {} \in SUBSET (Conditions \X Nat) /\ {} \in SUBSET Conditions
        /\ "idle" \in {"idle", "feed", "push"} /\ 0 \in Nat
    OBVIOUS
  <2> QED BY <1>1, <1>2, <1>4, <2>1, Turned, Zenon
<1>6. IngestTyped'
  BY <1>1, <1>5, TypedAfter DEF IngestTyped
<1>7. SourcesInv'
  <2>1. ("idle" # "push" => {} = {}) /\ ("idle" = "feed" => 0 \in Heard)
    OBVIOUS
  <2> QED BY <1>1, <1>3, <1>5, <2>1, TurnKeepsSources, Zenon
<1>8. alerts' \cup Ingest!Due' \cup lost' = alerts \cup Ingest!Due \cup lost
  <2>1. source'[b].due = {}
    BY <1>5
  <2>2. /\ Ingest!Due' \subseteq Ingest!Due
        /\ Ingest!Due \subseteq Ingest!Due' \cup source[b].due
        /\ source[b].due \subseteq Ingest!Due
    BY <2>1, <1>5, DueSplit
  <2> QED BY <2>2
<1>9. Ledger'
  BY <1>1, <1>8, NothingFed
<1> QED BY <1>6, <1>7, <1>9 DEF IngestInv

\* After a step, too, a condition is ongoing after a message when the message says it holds, or
\* it was ongoing and the message does not clear it.
LEMMA OngoingNext ==
  ASSUME NEW n \in Nat, NEW k
  PROVE  Ingest!Ongoing(k, n + 2)' <=>
           \/ Ingest!Holds(k, n + 1)'
           \/ Ingest!Ongoing(k, n + 1)' /\ ~Ingest!Clears(k, n + 1)'
<1>1. /\ n + 2 - 1 = n + 1 /\ n + 1 - 1 = n
      /\ \A j \in 1..(n + 1) : j \in 1..n \/ j = n + 1
      /\ \A j \in 1..n : j \in 1..(n + 1) /\ n + 1 \in (j + 1)..(n + 1)
      /\ \A j \in 1..n : \A l \in (j + 1)..n : l \in (j + 1)..(n + 1)
      /\ \A j \in 1..n : \A l \in (j + 1)..(n + 1) : l \in (j + 1)..n \/ l = n + 1
      /\ n + 1 \in 1..(n + 1)
      /\ \A l : l \notin (n + 1 + 1)..(n + 1)
  OBVIOUS
<1>2. ASSUME Ingest!Ongoing(k, n + 2)'
      PROVE  \/ Ingest!Holds(k, n + 1)'
             \/ Ingest!Ongoing(k, n + 1)' /\ ~Ingest!Clears(k, n + 1)'
  <2>1. PICK j \in 1..(n + 1) :
          Ingest!Holds(k, j)' /\ \A l \in (j + 1)..(n + 1) : ~Ingest!Clears(k, l)'
    BY <1>1, <1>2 DEF Ingest!Ongoing
  <2>2. CASE j = n + 1
    BY <2>1, <2>2
  <2>3. CASE j \in 1..n
    <3>1. ~Ingest!Clears(k, n + 1)'
      BY <1>1, <2>1, <2>3
    <3>2. \A l \in (j + 1)..n : ~Ingest!Clears(k, l)'
      BY <1>1, <2>1, <2>3
    <3> QED BY <1>1, <2>1, <2>3, <3>1, <3>2 DEF Ingest!Ongoing
  <2> QED BY <1>1, <2>1, <2>2, <2>3
<1>3. ASSUME Ingest!Holds(k, n + 1)'
      PROVE  Ingest!Ongoing(k, n + 2)'
  BY <1>1, <1>3 DEF Ingest!Ongoing
<1>4. ASSUME Ingest!Ongoing(k, n + 1)', ~Ingest!Clears(k, n + 1)'
      PROVE  Ingest!Ongoing(k, n + 2)'
  <2>1. PICK j \in 1..n :
          Ingest!Holds(k, j)' /\ \A l \in (j + 1)..n : ~Ingest!Clears(k, l)'
    BY <1>1, <1>4 DEF Ingest!Ongoing
  <2>2. \A l \in (j + 1)..(n + 1) : ~Ingest!Clears(k, l)'
    BY <1>1, <1>4, <2>1
  <2> QED BY <1>1, <2>1, <2>2 DEF Ingest!Ongoing
<1> QED BY <1>2, <1>3, <1>4

\* What the message fed last says of a condition, in the words of process().
LEMMA FedSays ==
  ASSUME Ingest!Constants, NEW msg \in Messages, NEW M \in Heard, threshold \in Nat,
         log' = log, log[M] = msg,
         NEW i, fed'[i] = [message |-> M, threshold |-> threshold],
         NEW k \in Conditions
  PROVE  /\ Ingest!Holds(k, i)' <=> k \in Ingest!Reported(msg)
         /\ Ingest!Clears(k, i)' <=> k \in Ingest!Retired(msg)
         /\ ~(k \in Ingest!Reported(msg) /\ k \in Ingest!Retired(msg))
<1>1. /\ msg.errors \in SUBSET Errors /\ msg.charge \in Nat /\ Hysteresis \in Nat
      /\ Ingest!Low \notin Errors
  BY IngestFacts
<1>2. fed'[i].message = M /\ fed'[i].threshold = threshold /\ log'[fed'[i].message] = msg
  OBVIOUS
<1>3. CASE k = Ingest!Low
  <2>1. k \notin Errors /\ k \notin msg.errors
    BY <1>1, <1>3
  <2>2. ~(msg.charge <= threshold /\ msg.charge > threshold + Hysteresis)
    BY <1>1
  <2>3. Ingest!Holds(k, i)' <=> msg.charge <= threshold
    BY <1>2, <1>3 DEF Ingest!Holds, Ingest!Low
  <2>4. Ingest!Clears(k, i)' <=> msg.charge > threshold + Hysteresis
    BY <1>2, <1>3 DEF Ingest!Clears, Ingest!Low
  <2>5. k \in Ingest!Reported(msg) <=> msg.charge <= threshold
    BY <1>3, <2>1 DEF Ingest!Reported
  <2>6. k \in Ingest!Retired(msg) <=> msg.charge > threshold + Hysteresis
    BY <1>3, <2>1 DEF Ingest!Retired
  <2> QED BY <2>2, <2>3, <2>4, <2>5, <2>6
<1>4. CASE k # Ingest!Low
  <2>1. k \in Errors
    BY <1>4 DEF Conditions
  <2>2. Ingest!Holds(k, i)' <=> k \in msg.errors
    BY <1>2, <1>4 DEF Ingest!Holds, Ingest!Low
  <2>3. Ingest!Clears(k, i)' <=> k \notin msg.errors
    BY <1>2, <1>4 DEF Ingest!Clears, Ingest!Low
  <2>4. k \in Ingest!Reported(msg) <=> k \in msg.errors
    BY <1>4 DEF Ingest!Reported
  <2>5. k \in Ingest!Retired(msg) <=> k \notin msg.errors
    BY <1>4, <2>1 DEF Ingest!Retired
  <2> QED BY <2>2, <2>3, <2>4, <2>5
<1> QED BY <1>3, <1>4

\* A message is fed: the conditions that begin with it are those the thread
\* did not see active, when what it saw is what is active.
LEMMA FeedKeeps ==
  ASSUME IngestInv, Ingest!Constants, NEW b \in Brokers, Ingest!Feed(b)
  PROVE  IngestInv'
<1> DEFINE w == source[b].waiting
           M == source[b].message
           msg == log[M]
           fresh == Ingest!Reported(msg) \ source[b].seen
           due == {<<k, M>> : k \in fresh}
           entry == [message |-> M, threshold |-> threshold]
<1>0. PICK n \in Nat : n = Len(fed)
  BY DEF IngestInv, IngestTyped
<1>1. /\ IngestTyped /\ SourcesInv /\ Ledger /\ threshold \in Nat
      /\ source \in [Brokers -> Source] /\ log \in Seq(Messages) /\ fed \in Seq(Fed)
      /\ active \subseteq Conditions
  BY DEF IngestInv, IngestTyped
<1>2. /\ source[b].at = "feed" /\ active' = (active \cup fresh) \ Ingest!Retired(msg)
      /\ Ingest!Turn(b, w, "push", M, {}, due)
      /\ fed' = Append(fed, entry) /\ stale' = (stale \/ source[b].seen # active)
      /\ UNCHANGED <<log, current, retiring, threshold, alerts, lost>>
  BY DEF Ingest!Feed, Ingest!Message, Ingest!broker
<1>3. source[b].on /\ M \in Heard /\ source[b].due = {}
  BY <1>1, <1>2, AtWork DEF SourcesInv
<1>4. msg \in Messages /\ M \in Nat
  BY <1>1, <1>3 DEF Heard
<1>5. entry \in Fed
  BY <1>1, <1>3 DEF Fed
<1>6. fed' \in Seq(Fed) /\ Len(fed') = n + 1 /\ fed'[n + 1] = entry
      /\ \A i \in 1..n : fed'[i] = fed[i]
  BY <1>0, <1>1, <1>2, <1>5
<1>7. Ingest!Reported(msg) \subseteq Conditions
  BY <1>4, IngestFacts DEF Ingest!Reported, Conditions
<1>8. fresh \subseteq Conditions
  BY <1>7
<1>9. due \in SUBSET (Conditions \X Nat) /\ w \in Seq(Heard)
  BY <1>1, <1>4, <1>8 DEF Source
<1>10. active' \subseteq Conditions
  BY <1>1, <1>2, <1>8
<1>11. \A k \in Conditions :
         /\ Ingest!Holds(k, n + 1)' <=> k \in Ingest!Reported(msg)
         /\ Ingest!Clears(k, n + 1)' <=> k \in Ingest!Retired(msg)
         /\ ~(k \in Ingest!Reported(msg) /\ k \in Ingest!Retired(msg))
  <2> DEFINE last == fed'[n + 1]
  <2>1. log' = log /\ log[M] = msg /\ last = [message |-> M, threshold |-> threshold]
    BY <1>2, <1>6
  <2> HIDE DEF msg, M
  <2> QED BY <1>1, <1>3, <1>4, <2>1, FedSays
<1>12. /\ \A k, i : i \in 1..n => (Ingest!Holds(k, i)' <=> Ingest!Holds(k, i))
       /\ \A k, i : i \in 1..(n + 1) => (Ingest!Ongoing(k, i)' <=> Ingest!Ongoing(k, i))
  <2>1. n <= Len(fed') /\ Len(fed') \in Nat /\ \A i \in Heard : log'[i] = log[i]
    BY <1>0, <1>1, <1>2, <1>6
  <2> QED BY <2>1, <1>0, <1>1, <1>6, HistoryKept
<1>13. \A k : Ingest!Ongoing(k, n + 1)' <=> Ingest!Ongoing(k, n + 1)
  <2>1. n + 1 \in 1..(n + 1)
    OBVIOUS
  <2> QED BY <1>12, <2>1
<1>14. \A k : Ingest!Ongoing(k, n + 2)' <=>
         \/ Ingest!Holds(k, n + 1)'
         \/ Ingest!Ongoing(k, n + 1) /\ ~Ingest!Clears(k, n + 1)'
  BY <1>13, OngoingNext
<1>15. /\ source' \in [Brokers -> Source]
       /\ source'[b] = [on |-> source[b].on, waiting |-> w, at |-> "push", message |-> M,
                        seen |-> {}, due |-> due]
       /\ \A c \in Brokers : c # b => source'[c] = source[c]
  <2> HIDE DEF w, M, due
  <2>1. {} \in SUBSET Conditions /\ "push" \in {"idle", "feed", "push"}
    OBVIOUS
  <2> QED BY <1>1, <1>2, <1>4, <1>9, <2>1, Turned, Zenon
<1>16. IngestTyped'
  <2>1. stale' \in BOOLEAN
    BY <1>1, <1>2 DEF IngestTyped
  <2> QED BY <1>1, <1>2, <1>6, <1>10, <1>15, <2>1, TypedAfter
<1>17. SourcesInv'
  <2>1. UNCHANGED <<current, retiring, log>>
    BY <1>2
  <2> HIDE DEF w, M, due
  <2>2. ("push" # "push" => due = {}) /\ ("push" = "feed" => M \in Heard)
    OBVIOUS
  <2>3. /\ IngestTyped /\ SourcesInv /\ source[b].on
        /\ source'[b] = [on |-> source[b].on, waiting |-> w, at |-> "push", message |-> M,
                         seen |-> {}, due |-> due]
        /\ \A c \in Brokers : c # b => source'[c] = source[c]
    BY <1>1, <1>3, <1>15
  <2> QED BY <2>1, <2>2, <2>3, TurnKeepsSources, Zenon
<1>18. Ingest!Due' = Ingest!Due \cup due
  <2> HIDE DEF due
  <2>1. source'[b].due = due
    BY <1>15
  <2> QED BY <2>1, <1>3, <1>15, DueSplit
<1>19. ASSUME ~stale' PROVE active' = {k \in Conditions : Ingest!Ongoing(k, n + 2)'}
  <2>1. ~stale /\ source[b].seen = active
    BY <1>2, <1>19
  <2>2. active = {k \in Conditions : Ingest!Ongoing(k, n + 1)}
    BY <1>0, <1>1, <2>1 DEF Ledger
  <2>3. ASSUME NEW k \in Conditions
        PROVE  k \in active' <=> Ingest!Ongoing(k, n + 2)'
    BY <1>2, <1>11, <1>14, <2>1, <2>2
  <2> QED BY <1>10, <2>3
<1>20. ASSUME ~stale' PROVE Ingest!Occurrences' = Ingest!Occurrences \cup due
  <2>1. ~stale /\ source[b].seen = active
    BY <1>2, <1>20
  <2>2. active = {k \in Conditions : Ingest!Ongoing(k, n + 1)}
    BY <1>0, <1>1, <2>1 DEF Ledger
  <2>3. \A k \in Conditions :
          k \in fresh <=> Ingest!Holds(k, n + 1)' /\ ~Ingest!Ongoing(k, n + 1)'
    BY <1>11, <1>13, <2>1, <2>2
  <2>4. ASSUME NEW o
        PROVE  o \in Ingest!Occurrences' <=>
                 \E k \in Conditions : \E i \in 1..(n + 1) :
                   /\ o = <<k, fed'[i].message>>
                   /\ Ingest!Holds(k, i)' /\ ~Ingest!Ongoing(k, i)'
    <3>1. Ingest!Occurrences' =
            UNION {{<<k, fed'[i].message>> :
                      i \in {j \in 1..Len(fed') :
                               Ingest!Holds(k, j)' /\ ~Ingest!Ongoing(k, j)'}} :
                   k \in Conditions}
      BY DEF Ingest!Occurrences, Conditions, Ingest!Low
    <3>2. Len(fed') = n + 1
      BY <1>6
    <3> QED BY <3>1, <3>2
  <2>5. /\ \A i \in 1..(n + 1) : i \in 1..n \/ i = n + 1
        /\ \A i \in 1..n : i \in 1..(n + 1)
        /\ n + 1 \in 1..(n + 1)
    OBVIOUS
  <2>6. fed'[n + 1].message = M
    BY <1>6
  <2>7. ASSUME NEW o
        PROVE  o \in Ingest!Occurrences' <=>
                 \/ o \in Ingest!Occurrences
                 \/ \E k \in fresh : o = <<k, M>>
    <3>1. o \in Ingest!Occurrences <=>
            \E k \in Conditions : \E i \in 1..n :
              /\ o = <<k, fed'[i].message>>
              /\ Ingest!Holds(k, i)' /\ ~Ingest!Ongoing(k, i)'
      BY <1>0, <1>6, <1>12, <2>5, OccurrencesAre
    <3>2. (\E k \in fresh : o = <<k, M>>) <=>
            \E k \in Conditions :
              /\ o = <<k, fed'[n + 1].message>>
              /\ Ingest!Holds(k, n + 1)' /\ ~Ingest!Ongoing(k, n + 1)'
      <4> HIDE DEF fresh
      <4> QED BY <1>8, <2>3, <2>6
    <3> HIDE DEF fresh
    <3> QED BY <2>4, <2>5, <3>1, <3>2
  <2> HIDE DEF fresh
  <2> QED BY <2>7
<1>21. Ledger'
  <2>1. SUFFICES ASSUME ~stale'
        PROVE  /\ active' = {k \in Conditions' : Ingest!Ongoing(k, Len(fed) + 1)'}
               /\ (alerts \cup Ingest!Due \cup lost)' = Ingest!Occurrences'
    BY DEF Ledger
  <2>2. Len(fed') + 1 = n + 2 /\ Conditions' = Conditions
    BY <1>6 DEF Conditions, Ingest!Low
  <2>3. ~stale
    BY <1>2, <2>1
  <2>4. alerts \cup Ingest!Due \cup lost = Ingest!Occurrences
    BY <1>1, <2>3 DEF Ledger
  <2> HIDE DEF due
  <2>5. active' = {k \in Conditions' : Ingest!Ongoing(k, Len(fed) + 1)'}
    BY <1>19, <2>1, <2>2
  <2> QED BY <1>2, <1>18, <1>20, <2>1, <2>4, <2>5
<1> QED BY <1>16, <1>17, <1>21 DEF IngestInv

\* A poll of the configuration that connects, sets or stops something.
LEMMA PollKeeps ==
  ASSUME IngestInv, Ingest!Constants, NEW b \in Brokers, NEW t \in Thresholds,
         \/ Ingest!SetThreshold(t) \/ Ingest!Reconnect(b) \/ Ingest!Retire(b)
  PROVE  IngestInv'
<1>1. /\ IngestTyped /\ SourcesInv /\ Ledger /\ source \in [Brokers -> Source]
      /\ current \in Brokers /\ retiring \subseteq Brokers
  BY DEF IngestInv, IngestTyped
<1>2. UNCHANGED <<log, active, fed, stale, alerts, lost>>
  BY DEF Ingest!SetThreshold, Ingest!Reconnect, Ingest!Retire, Ingest!Polls,
         Ingest!ledger, Ingest!broker
<1>3. Heard' = Heard /\ Source' = Source /\ Fed' = Fed /\ Conditions' = Conditions
      /\ Ingest!Off' = Ingest!Off
  BY <1>2 DEF Heard, Source, Fed, Conditions, Ingest!Low, Ingest!Off
<1>4. threshold' \in Nat
  BY <1>1, IngestFacts DEF IngestTyped, Ingest!SetThreshold, Ingest!Reconnect, Ingest!Retire,
                           Ingest!Polls
<1>5. IngestTyped' /\ SourcesInv' /\ Ingest!Due' = Ingest!Due
  <2>1. CASE Ingest!SetThreshold(t)
    <3>1. UNCHANGED <<source, current, retiring>>
      BY <2>1 DEF Ingest!SetThreshold, Ingest!Polls
    <3> QED BY <1>1, <1>2, <1>3, <1>4, <3>1 DEF IngestTyped, SourcesInv, Ingest!Due
  <2>2. CASE Ingest!Reconnect(b)
    <3>1. /\ retiring = {} /\ b # current /\ source' = [source EXCEPT ![b] = Ingest!On]
          /\ current' = b /\ retiring' = {current}
      BY <2>2 DEF Ingest!Reconnect, Ingest!Polls
    <3>2. /\ source' \in [Brokers -> Source] /\ source'[b] = Ingest!On
          /\ \A c \in Brokers : c # b => source'[c] = source[c]
      BY <1>1, OffAndOn, <3>1
    <3>3. source[b] = Ingest!Off
      BY <1>1, <3>1 DEF SourcesInv
    <3>4. Ingest!Due' = Ingest!Due
      BY OffAndOn, <3>2, <3>3, DueSplit
    <3>5. IngestTyped'
      BY <1>1, <1>2, <1>3, <1>4, <3>1, <3>2 DEF IngestTyped
    <3>6. SourcesInv'
      BY <1>1, OffAndOn, <1>3, <3>1, <3>2 DEF SourcesInv
    <3> QED BY <3>4, <3>5, <3>6
  <2>3. CASE Ingest!Retire(b)
    <3>1. /\ b \in retiring /\ source[b].at = "idle" /\ current' = current
          /\ source' = [source EXCEPT ![b] = Ingest!Off] /\ retiring' = {}
      BY <2>3 DEF Ingest!Retire
    <3>2. /\ source' \in [Brokers -> Source] /\ source'[b] = Ingest!Off
          /\ \A c \in Brokers : c # b => source'[c] = source[c]
      BY <1>1, OffAndOn, <3>1
    <3>3. source[b].due = {}
      BY <1>1, <3>1 DEF SourcesInv
    <3>4. Ingest!Due' = Ingest!Due
      BY OffAndOn, <3>2, <3>3, DueSplit
    <3>5. IngestTyped'
      BY <1>1, <1>2, <1>3, <1>4, <3>1, <3>2 DEF IngestTyped
    <3>6. SourcesInv'
      BY <1>1, OffAndOn, <1>3, <3>1, <3>2 DEF SourcesInv
    <3> QED BY <3>4, <3>5, <3>6
  <2> QED BY <2>1, <2>2, <2>3
<1>6. Ledger'
  BY <1>1, <1>2, <1>5, NothingFed
<1> QED BY <1>5, <1>6 DEF IngestInv

\* It starts with the source of the initial broker and an empty ledger.
LEMMA IngestStarts ==
  ASSUME Ingest!Constants, Ingest!Init
  PROVE  IngestInv
<1>1. /\ log = <<>> /\ current = Initial /\ retiring = {} /\ threshold = Battery
      /\ source = [c \in Brokers |-> IF c = current THEN Ingest!On ELSE Ingest!Off]
      /\ active = {} /\ alerts = {} /\ lost = {} /\ fed = <<>> /\ stale = FALSE
  BY DEF Ingest!Init
<1>2. IngestTyped
  <2>1. source \in [Brokers -> Source]
    BY <1>1, OffAndOn
  <2>2. log \in Seq(Messages) /\ fed \in Seq(Fed) /\ current \in Brokers
    BY <1>1, IngestFacts
  <2>3. retiring \subseteq Brokers /\ threshold \in Nat /\ stale \in BOOLEAN
        /\ active \subseteq Conditions
    BY <1>1, IngestFacts
  <2> QED BY <2>1, <2>2, <2>3 DEF IngestTyped
<1>3. SourcesInv
  BY <1>1, OffAndOn, IngestFacts DEF SourcesInv
<1>4. Ingest!Due = {}
  BY <1>1, OffAndOn DEF Ingest!Due
<1>5. ASSUME NEW k PROVE ~Ingest!Ongoing(k, Len(fed) + 1)
  BY <1>1 DEF Ingest!Ongoing
<1>6. Ingest!Occurrences = {}
  BY <1>1 DEF Ingest!Occurrences
<1>7. Ledger
  BY <1>1, <1>4, <1>5, <1>6 DEF Ledger
<1> QED BY <1>2, <1>3, <1>7 DEF IngestInv

LEMMA IngestSteps ==
  ASSUME IngestInv, Ingest!Constants, [Ingest!Next]_(Ingest!vars)
  PROVE  IngestInv'
<1>1. ASSUME NEW m \in Messages, Ingest!Publish(m) PROVE IngestInv'
  BY <1>1, PublishKeeps
<1>2. ASSUME NEW b \in Brokers, Ingest!Receive(b) PROVE IngestInv'
  BY <1>2, ReceiveKeeps
<1>3. ASSUME NEW b \in Brokers, Ingest!Feed(b) PROVE IngestInv'
  BY <1>3, FeedKeeps
<1>4. ASSUME NEW b \in Brokers, Ingest!Push(b) \/ Ingest!PushFails(b) PROVE IngestInv'
  <2>1. /\ source[b].at = "push" /\ Ingest!Idle(b)
        /\ UNCHANGED <<log, current, retiring, threshold, active, fed, stale>>
        /\ alerts' \cup lost' = alerts \cup lost \cup source[b].due
    BY <1>4 DEF Ingest!Push, Ingest!PushFails, Ingest!broker, Ingest!ledger
  <2> QED BY <2>1, IdleKeeps
<1>5. ASSUME NEW t \in Thresholds, Ingest!SetThreshold(t) PROVE IngestInv'
  <2>1. current \in Brokers
    BY DEF IngestInv, IngestTyped
  <2> QED BY <1>5, <2>1, PollKeeps
<1>6. ASSUME NEW b \in Brokers, Ingest!Reconnect(b) \/ Ingest!Retire(b) PROVE IngestInv'
  <2>1. Battery \in Thresholds
    BY DEF Ingest!Constants
  <2> QED BY <1>6, <2>1, PollKeeps
<1>7. CASE UNCHANGED Ingest!vars
  <2>1. UNCHANGED <<log, source, current, retiring, threshold, active, alerts, fed, lost, stale>>
    BY <1>7 DEF Ingest!vars
  <2>2. IngestTyped' /\ SourcesInv' /\ Ingest!Due' = Ingest!Due
    BY <2>1 DEF IngestInv, IngestTyped, SourcesInv, Ingest!Due, Heard, Source, Fed,
                Conditions, Ingest!Low, Ingest!Off
  <2>3. Ledger'
    BY <2>1, <2>2, NothingFed DEF IngestInv
  <2> QED BY <2>2, <2>3 DEF IngestInv
<1>8. CASE Ingest!Next
  BY <1>1, <1>2, <1>3, <1>4, <1>5, <1>6, <1>8 DEF Ingest!Next, Ingest!Thread
<1> QED BY <1>7, <1>8

LEMMA IngestAlways == Ingest!Spec => []IngestInv
<1>1. Ingest!Init => IngestInv
  BY IngestStarts, IngestAssumption
<1>2. IngestInv /\ [Ingest!Next]_(Ingest!vars) => IngestInv'
  BY IngestSteps, IngestAssumption
<1> QED BY <1>1, <1>2, PTL DEF Ingest!Spec

\* The bridge is never without the source in use, whatever brokers are
\* configured and whenever, and a second source is only the one the
\* configuration thread is stopping (MqttConnectionManager.apply).
THEOREM SourceStays == Ingest!Spec => []SourceInUse
<1>1. IngestInv => SourceInUse
  BY DEF IngestInv, SourcesInv, SourceInUse, Ingest!SourceInUse
<1> QED BY <1>1, IngestAlways, PTL

\* The alert rows, those that wait and those that were lost are together the
\* beginnings of conditions in the messages fed, no more and no less, for any
\* history of thresholds and brokers (AlertDeduper.process).
THEOREM EveryBeginningAlerted == Ingest!Spec => []EveryOccurrenceAlerted
<1>1. IngestInv => EveryOccurrenceAlerted
  BY DEF IngestInv, Ledger, EveryOccurrenceAlerted, Ingest!EveryOccurrenceAlerted
<1> QED BY <1>1, IngestAlways, PTL

----------------------------------------------------------------------------
(* The process.                                                            *)

\* The threads of the two halves interfere in nothing: a behaviour of the
\* process is one of each half, so that what is proved of a half holds of the
\* process (main: a thread for the loop, the callbacks for the ingest).
THEOREM HalvesApart == BridgeSpec => Spec /\ Ingest!Spec
<1>1. BridgeInit => Init /\ Ingest!Init
  BY DEF BridgeInit
<1>2. [BridgeNext]_<<vars, ingestVars>> => [Next]_vars /\ [Ingest!Next]_(Ingest!vars)
  BY DEF BridgeNext, ingestVars, Ingest!vars
<1> QED BY <1>1, <1>2, PTL DEF BridgeSpec, Spec, Ingest!Spec

\* Through the process robots carry out only what was approved, for its site but
\* for the one exception of ApprovedOnly, and nothing twice in a life of the
\* simulator; rows tell what happened and go the way of the gate while that life
\* lasts and no row is decided twice; every beginning of a condition is alerted,
\* and the source in use is connected.
THEOREM BridgeKeepsPromises ==
  BridgeSpec =>
    /\ [](OnlyApprovedIsApplied /\ RowTellsOutcome /\ AppliedOncePerLife)
    /\ ImplementsGate
    /\ [](EveryOccurrenceAlerted /\ SourceInUse)
<1>1. Spec => /\ []OnlyApprovedIsApplied /\ []RowTellsOutcome /\ []AppliedOncePerLife
              /\ ImplementsGate
  BY ApprovedOnly, TruthfulRows, AppliedOnce, LoopImplementsGate, PTL
<1>2. Ingest!Spec => []EveryOccurrenceAlerted /\ []SourceInUse
  BY EveryBeginningAlerted, SourceStays, PTL
<1> QED BY <1>1, <1>2, HalvesApart, PTL
=============================================================================
