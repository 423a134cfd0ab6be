------------------------------ MODULE NodeQueueMC ------------------------------
(***************************************************************************)
(* A small instance of NodeQueue: depths (200/150/100 in the code) and     *)
(* weights (3/2/1) small enough for a drain to take several cycles and for *)
(* a queue to fill up.                                                     *)
(***************************************************************************)
EXTENDS NodeQueue

CONSTANTS l1, l2, l3, u1, h1

\* Three Light requests for two places, so that a drain may take two cycles and a
\* request be refused, and one of no known class, which goes to Medium's queue.
AllReq == {l1, l2, l3, u1, h1}

ClassOfReq ==
    [r \in AllReq |->
        CASE r \in {l1, l2, l3} -> "Light" [] r = u1 -> "Unknown" [] r = h1 -> "Heavy"]

TwoPlaces == [c \in Class |-> 2]

WeightOne == [c \in Class |-> 1]

=============================================================================
