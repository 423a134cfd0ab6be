----------------------------- MODULE ControlLoopMC -----------------------------
(***************************************************************************)
(* An instance of ControlLoop: two nodes of the same base that started with *)
(* different counts, and three loads, on both sides of every threshold.    *)
(***************************************************************************)
EXTENDS ControlLoop, TLC

CONSTANTS n1, n2

TwoNodes == {n1, n2}
PolledInTurn == <<n1, n2>>
SameBase == [n \in TwoNodes |-> 40]
UnequalStart == n1 :> 40 @@ n2 :> 60
Idle == [cpu |-> 5, queue |-> 0]
Loads == {Idle, [cpu |-> 55, queue |-> 100], [cpu |-> 100, queue |-> 100]}
=============================================================================
