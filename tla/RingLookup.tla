------------------------------ MODULE RingLookup ------------------------------
(***************************************************************************)
(* get_candidates of coordinator/routing/hash_ring.py: the distinct nodes  *)
(* met walking the ring clockwise from a key, the list every routing       *)
(* decision (allocation engine, chord overflow, feature pipeline) starts   *)
(* from.  It is a second lookup path beside get_node, over the same state. *)
(***************************************************************************)
EXTENDS HashRing, SequencesExt

\* Broken variant of BisectLeft: the first position after h.
BisectRight(h) == Cardinality({p \in positions : p <= h})

\* Index, from 0, of the first position at or after h (bisect_left).
BisectLeft(h) == Cardinality({p \in positions : p < h})

\* _positions[k] of the sorted list.
PositionAt(k) == CHOOSE p \in positions : Cardinality({q \in positions : q < p}) = k

\* The owners of all the positions, walking clockwise from h and wrapping.
Walk(h) ==
    LET total == Cardinality(positions)
    IN  [i \in 1..total |-> positionToNode[PositionAt((BisectLeft(h) + i - 1) % total)]]

\* Broken variant of Collect: only a node's vnodes in a row count as one.
CollectRuns(seen, node, count) ==
    IF Len(seen) < count /\ (seen = <<>> \/ seen[Len(seen)] # node)
    THEN Append(seen, node) ELSE seen

\* Collect nodes not seen yet until there are enough of them.
Collect(seen, node, count) ==
    IF Len(seen) < count /\ ~Contains(seen, node) THEN Append(seen, node) ELSE seen

GetCandidates(h, count) ==
    FoldLeft(LAMBDA seen, node : Collect(seen, node, count), <<>>, Walk(h))

\* Every node, in the order keys with hash h fail over to them.
FailoverOrder(h) == GetCandidates(h, Cardinality(RingNodes))

-----------------------------------------------------------------------------
\* Clockwise distance from h to p.
Distance(h, p) == (p - h + HashSpace) % HashSpace

\* How far clockwise of h the nearest vnode of n is.
Nearest(h, n) == Min({Distance(h, p) : p \in Range(nodeVnodes[n])})

\* What the callers of get_candidates rely on, against a reference that reads
\* the per-node vnode lists instead of the sorted list: the candidates are
\* distinct, as many as asked for when there are enough nodes, ordered by
\* clockwise distance, no nearer node is left out, and the first one is the node
\* get_node returns.
CandidatesNearestFirst ==
    \A h \in HashPos, count \in 1..(Cardinality(Node) + 1) :
        LET c == GetCandidates(h, count)
        IN  /\ Len(c) = Min({count, Cardinality(RingNodes)})
            /\ RingNodes # {} => c[1] = GetNode(h)
            /\ \A i, j \in 1..Len(c) : i < j => Nearest(h, c[i]) < Nearest(h, c[j])
            /\ \A n \in RingNodes \ Range(c) :
                 \A i \in 1..Len(c) : Nearest(h, c[i]) < Nearest(h, n)

\* The candidates of a key are its failover order: when a node leaves the ring
\* it leaves its one place in the order and the others keep theirs, so a key of
\* the node that left goes to what was its second candidate.
FailoverInCandidateOrder ==
    [][\A h \in HashPos, n \in RingNodes :
          RingNodes' = RingNodes \ {n} =>
              \E k \in DOMAIN FailoverOrder(h) :
                  /\ FailoverOrder(h)[k] = n
                  /\ FailoverOrder(h)' = RemoveAt(FailoverOrder(h), k)
      ]_ringVars
=============================================================================
