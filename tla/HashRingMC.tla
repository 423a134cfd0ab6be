------------------------------ MODULE HashRingMC ------------------------------
(***************************************************************************)
(* Small instances of HashRing: three nodes of two capacities on a ring of *)
(* a few positions.  SpreadHash gives every vnode a position of its own;   *)
(* CollidingHash makes first hashes of different nodes, and rehashes,      *)
(* collide.                                                                *)
(***************************************************************************)
EXTENDS RingLookup

CONSTANTS s1, s2, s3

MCNode == {s1, s2, s3}
MCCapacity == {1, 2}

Ordinal(n) == CASE n = s1 -> 0 [] n = s2 -> 1 [] n = s3 -> 2

\* Vnode i of a node at 3 * (i - 1) + its ordinal: the nodes alternate.
SpreadHash ==
    [n \in MCNode |-> [i \in 1..MaxVnodes |-> [t \in 1..MaxProbes |->
        (3 * (i - 1) + Ordinal(n) + 5 * (t - 1)) % HashSpace]]]

\* The first hash does not depend on the node for odd vnodes, and a node's
\* rehashes run into the vnodes of the others.
CollidingHash ==
    [n \in MCNode |-> [i \in 1..MaxVnodes |-> [t \in 1..MaxProbes |->
        IF t = 1 THEN (4 * i + (IF i % 2 = 1 THEN 0 ELSE Ordinal(n))) % HashSpace
                 ELSE (4 * i + 3 * t + 5 * Ordinal(n) * (t - 1)) % HashSpace]]]

=============================================================================
