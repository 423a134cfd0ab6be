------------------------------ MODULE NodeService ------------------------------
(***************************************************************************)
(* What a node promises the coordinator, without its event loop, output    *)
(* queue and tasks: a request is answered once, accepted or refused, and   *)
(* refused only when its class has a full queue's worth of requests        *)
(* waiting; accepted requests of a class begin in the order they were      *)
(* accepted, and each of them begins and completes, once.                  *)
(***************************************************************************)
EXTENDS Integers, Sequences

CONSTANTS Req, Class, QueueClass(_), Limit

VARIABLES waiting, running, done, refused

serviceVars == <<waiting, running, done, refused>>

Answered ==
    refused \cup running \cup done
        \cup UNION {{waiting[c][i] : i \in DOMAIN waiting[c]} : c \in Class}

Init ==
    /\ waiting = [c \in Class |-> <<>>]
    /\ running = {} /\ done = {} /\ refused = {}

Accept(r) ==
    /\ r \notin Answered
    /\ waiting' = [waiting EXCEPT ![QueueClass(r)] = Append(@, r)]
    /\ UNCHANGED <<running, done, refused>>

Refuse(r) ==
    /\ r \notin Answered
    /\ Len(waiting[QueueClass(r)]) >= Limit[QueueClass(r)]
    /\ refused' = refused \cup {r}
    /\ UNCHANGED <<waiting, running, done>>

Begin(c) ==
    /\ waiting[c] # <<>>
    /\ running' = running \cup {Head(waiting[c])}
    /\ waiting' = [waiting EXCEPT ![c] = Tail(@)]
    /\ UNCHANGED <<done, refused>>

End(r) ==
    /\ r \in running
    /\ running' = running \ {r}
    /\ done' = done \cup {r}
    /\ UNCHANGED <<waiting, refused>>

Next ==
    \/ \E r \in Req : Accept(r) \/ Refuse(r) \/ End(r)
    \/ \E c \in Class : Begin(c)

Spec ==
    /\ Init /\ [][Next]_serviceVars
    /\ \A c \in Class : WF_serviceVars(Begin(c))
    /\ \A r \in Req : WF_serviceVars(End(r))
=============================================================================
