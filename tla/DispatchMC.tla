------------------------------ MODULE DispatchMC ------------------------------
(***************************************************************************)
(* Small instances of Dispatch: two nodes and, in ticks of two seconds,    *)
(* the interval and the timeouts of the code, the forward's rounded up.    *)
(* Two operations in a call: a reply may stall after its first piece.      *)
(* Two forwards and the fetch share one thread, and a node may hang,       *)
(* recover and hang again.                                                 *)
(***************************************************************************)
EXTENDS Dispatch

=============================================================================
