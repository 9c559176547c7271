-------------------------- MODULE MCCommandBridge --------------------------
(***************************************************************************)
(* A small instance of CommandBridge whose oldest rows never close.        *)
(***************************************************************************)
EXTENDS CommandBridge

CONSTANT r1

OneRobot == {r1}
AllToOne == [c \in Commands |-> r1]
AllRows == Commands
Honest == {TRUE}
=============================================================================
