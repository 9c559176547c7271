------------------------------ MODULE FloorPlan ------------------------------
(***************************************************************************)
(* Where the fleet of a demo sandbox stands: the node each robot is parked *)
(* on when the sandbox is minted, the trail that leads there, and the node *)
(* the simulator then starts from.                                         *)
(*                                                                         *)
(*   ops/yantraops/sandbox.py   FloorPlan, HistorySeeder.park_fleet,       *)
(*                              SandboxDriver.adopt_live_fleet             *)
(*                                                                         *)
(* A node is the pair <<row, column>> of its grid; the order of the pairs  *)
(* is the order of the node names. Distances are in grid steps.            *)
(***************************************************************************)
EXTENDS Integers, SequencesExt

CONSTANTS Rows, Cols, Chargers, Docks

Node(k) == <<(k - 1) \div Cols, (k - 1) % Cols>>

Nodes == [k \in 1..(Rows * Cols) |-> Node(k)]

Kind(node) ==
  CASE node \in Chargers -> "charger"
    [] node \in Docks    -> "dock"
    [] OTHER             -> "aisle"

OfKind(kind) == SelectSeq(Nodes, LAMBDA node : Kind(node) = kind)

Preference(status) ==
  CASE status = "charging"           -> <<"charger", "aisle", "dock">>
    [] status \in {"idle", "paused"} -> <<"dock", "aisle", "charger">>
    [] OTHER                         -> <<"aisle", "dock", "charger">>

(* The free nodes of a pool, from the index'th robot's own stride on.      *)
FreeIn(pool, index, taken) ==
  SelectSeq([k \in DOMAIN pool |-> pool[((index * 3 + k - 1) % Len(pool)) + 1]],
            LAMBDA node : node \notin taken)

Pick(index, status, taken) ==
  LET free == FlattenSeq([k \in 1..3 |->
                FreeIn(OfKind(Preference(status)[k]), index, taken)])
  IN IF free # <<>> THEN free[1] ELSE Nodes[(index % Len(Nodes)) + 1]

Assign(statuses) ==
  FoldLeft(LAMBDA out, status : Append(out, Pick(Len(out), status, ToSet(out))),
           <<>>, statuses)

(* The aisle a robot came along: forward from the first column for even    *)
(* robots, backward from the last one for odd ones.                        *)
RouteTo(node, index) ==
  LET forward  == [k \in 1..(node[2] + 1) |-> <<node[1], k - 1>>]
      backward == [k \in 1..(Cols - node[2]) |-> <<node[1], Cols - k>>]
      first    == IF index % 2 = 0 THEN forward ELSE backward
      second   == IF index % 2 = 0 THEN backward ELSE forward
  IN IF Len(first) >= 2 THEN first ELSE IF Len(second) >= 2 THEN second ELSE <<node>>

(* The column a robot was in at each step, in (steps - 1)ths of a column.  *)
Trail(node, index, status, steps) ==
  LET route == RouteTo(node, index)
      unit  == steps - 1
      span  == Len(route) - 1
      at(k) == LET i == IF (k * span) \div unit < span THEN (k * span) \div unit ELSE span - 1
               IN route[i + 1][2] * unit
                  + (route[i + 2][2] - route[i + 1][2]) * (k * span - i * unit)
  IN IF status # "active" \/ steps = 1 \/ Len(route) < 2
     THEN [k \in 1..steps |-> node[2] * unit]
     ELSE [k \in 1..steps |-> at(k - 1)]

(* The first of the nodes nearest to where the robot's row says it stands. *)
Distance(a, b) == (a[1] - b[1]) * (a[1] - b[1]) + (a[2] - b[2]) * (a[2] - b[2])

Adopted(pos) ==
  LET nearest == SelectSeq(Nodes, LAMBDA a :
                   \A k \in DOMAIN Nodes : Distance(a, pos) <= Distance(Nodes[k], pos))
  IN nearest[1]

AdoptedStatus(pos, status) ==
  IF status = "charging" /\ Kind(Adopted(pos)) = "charger" THEN "charging" ELSE "idle"
----------------------------------------------------------------------------
Fleets(n) == UNION { [1..k -> {"active", "idle", "charging"}] : k \in 0..n }

(* No two robots are parked on one node while the floor has room for all,  *)
(* and a bigger fleet is still parked somewhere.                           *)
ParkedApart(fleet) ==
  LET at == Assign(fleet) IN
  /\ ToSet(at) \subseteq ToSet(Nodes)
  /\ Len(fleet) <= Len(Nodes) => \A i, j \in DOMAIN at : i # j => at[i] # at[j]

(* The newest sample of a trail is the node the robot is parked on, and no *)
(* sample is off the floor.                                                *)
TrailEndsAtNode(node, index, status, steps) ==
  LET t == Trail(node, index, status, steps) IN
  /\ t[steps] = node[2] * (steps - 1)
  /\ \A k \in DOMAIN t : t[k] \in 0..((Cols - 1) * (steps - 1))

(* The simulator starts every robot where the seeder parked it, charging   *)
(* only on a charge bay.                                                   *)
StartsWhereParked(fleet) ==
  \A i \in DOMAIN fleet :
    LET at == Assign(fleet)[i] IN
    /\ Adopted(at) = at
    /\ AdoptedStatus(at, fleet[i]) = "charging" <=> fleet[i] = "charging" /\ at \in Chargers
=============================================================================
