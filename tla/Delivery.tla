------------------------------- MODULE Delivery -------------------------------
(***************************************************************************)
(* What forwarding promises a client, without threads, timeouts and        *)
(* restarts: a request that was answered as routed reaches its node at     *)
(* most once, is dealt with in the end, and is given up undelivered only   *)
(* when its node does not take requests or the coordinator goes down.      *)
(***************************************************************************)
EXTENDS Integers, FiniteSets

CONSTANTS Request

VARIABLES
    open,       \* the requests accepted and still to be dealt with
    closed,     \* those dealt with, delivered or given up
    arrivals,   \* how many times each has reached its node
    excused     \* those that may be given up now

deliveryVars == <<open, closed, arrivals, excused>>

Init ==
    /\ open = {} /\ closed = {}
    /\ arrivals = [r \in Request |-> 0]
    /\ excused \subseteq Request

Accept(r) ==
    /\ r \notin open \cup closed
    /\ open' = open \cup {r}
    /\ UNCHANGED <<closed, arrivals>>

\* The requests S are dealt with, and those in D delivered; the others are excused
\* before the step or by it.
Close(S, D) ==
    /\ S \subseteq open /\ S # {} /\ D \subseteq S
    /\ S \ D \subseteq excused \cup excused'
    /\ open' = open \ S
    /\ closed' = closed \cup S
    /\ arrivals' = [r \in Request |-> IF r \in D THEN arrivals[r] + 1 ELSE arrivals[r]]

Next ==
    \/ \E r \in Request : Accept(r)
    \/ \E S \in SUBSET Request : \E D \in SUBSET S : Close(S, D)
    \/ UNCHANGED <<open, closed, arrivals>>

\* What is accepted is dealt with in the end.
Spec ==
    /\ Init /\ [][Next]_deliveryVars
    /\ \A r \in Request : (r \in open) ~> (r \in closed)
=============================================================================
