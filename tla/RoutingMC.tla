------------------------------- MODULE RoutingMC -------------------------------
(***************************************************************************)
(* An instance of Routing with five nodes, which is no power of two: three *)
(* candidates, of the other two one may be no finger of the best of them.  *)
(* A saturated node scores the threshold itself, and is above it with a    *)
(* forecast or when it is stale; so is a stale half-loaded one.            *)
(***************************************************************************)
EXTENDS Routing

Idle == [cpu |-> 5, queue |-> 0, latency |-> 0]
Saturated == [cpu |-> 100, queue |-> 100, latency |-> 100]
HalfLoaded == [cpu |-> 60, queue |-> 50, latency |-> 50]
Measures == {Idle, HalfLoaded, Saturated}
=============================================================================
