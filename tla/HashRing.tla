------------------------------- MODULE HashRing -------------------------------
(***************************************************************************)
(* The consistent hash ring with virtual nodes of the coordinator,         *)
(* coordinator/routing/hash_ring.py, class ConsistentHashRing.             *)
(*                                                                         *)
(* Every method of the class is synchronous, so on the coordinator's event *)
(* loop each call is one atomic step.  The sorted list _positions is       *)
(* modelled as a set: bisect.insort keeps it sorted and the collision loop *)
(* keeps it free of duplicates (RingConsistent would fail if it did not).  *)
(* A request key is represented by its hash, any point of the ring.        *)
(***************************************************************************)
EXTENDS Integers, Sequences, FiniteSetsExt

CONSTANTS
    Node,        \* node names
    HashSpace,   \* size of the ring; the code's is 2^128
    VnodeHash,   \* VnodeHash[n][i] is the sequence of positions the code tries
                 \* for the i-th vnode of n (its key is "n:vnode:(i-1)"): its
                 \* hash, then one rehash for every collision
    BaseCount,   \* vnode_base_count
    MinCount,    \* vnode_min_count
    Capacity,    \* the capacity scores nodes may have
    MaxVnodes,   \* bound on the vnodes of one node
    MaxProbes    \* bound on the positions tried for one vnode

HashPos == 0..(HashSpace - 1)

ASSUME RingAssumption ==
    /\ HashSpace \in Nat \ {0}
    /\ MinCount \in Nat \ {0}
    /\ BaseCount \in Nat
    /\ MaxVnodes \in Nat /\ MinCount <= MaxVnodes
    /\ MaxProbes \in Nat
    /\ Capacity \subseteq Nat \ {0}
    /\ VnodeHash \in [Node -> [1..MaxVnodes -> [1..MaxProbes -> HashPos]]]

VARIABLES
    positions,        \* _positions
    positionToNode,   \* _position_to_node: position -> node
    nodeVnodes,       \* _node_vnodes: node -> its positions, in creation order
    nodeCapacities    \* _node_capacities: node -> capacity score

ringVars == <<positions, positionToNode, nodeVnodes, nodeCapacities>>

RingNodes == DOMAIN nodeVnodes

-----------------------------------------------------------------------------
\* _avg_capacity is recomputed from all the capacities after every change of
\* them; the count is int(base * (capacity / average)), not below the minimum.
VnodeCount(cap, caps) ==
    LET scaled == (BaseCount * cap * Cardinality(DOMAIN caps)) \div SumFunction(caps)
    IN  IF scaled > MinCount THEN scaled ELSE MinCount

\* Broken variant of FirstFree: no rehash when a position is taken.
FirstHash(n, i, taken, t) == t = 1

\* The first of the positions tried for vnode i of n that is not taken.
FirstFree(n, i, taken, t) ==
    /\ VnodeHash[n][i][t] \notin taken
    /\ \A s \in 1..(t - 1) : VnodeHash[n][i][s] \in taken

\* Vnodes lo..hi of n are placed one after the other on a ring where "occupied"
\* is taken; tries[i] is how many positions were tried for vnode i.
Placed(n, lo, hi, occupied, tries) ==
    \A i \in lo..hi :
        LET earlier == {VnodeHash[n][j][tries[j]] : j \in lo..(i - 1)}
        IN  FirstFree(n, i, occupied \cup earlier, tries[i])

\* The positions of vnodes lo..hi of n, in creation order.
NewVnodes(n, lo, hi, tries) ==
    [k \in 1..(hi - lo + 1) |-> VnodeHash[n][lo + k - 1][tries[lo + k - 1]]]

\* The owner map f with the positions "gone" popped and "new" given to n.
Reassign(f, gone, n, new) ==
    [p \in (DOMAIN f \ gone) \cup new |-> IF p \in new THEN n ELSE f[p]]

-----------------------------------------------------------------------------
Init ==
    /\ positions = {}
    /\ positionToNode = <<>>
    /\ nodeVnodes = <<>>
    /\ nodeCapacities = <<>>

\* add_node: a node that is on the ring is removed first.
AddNode(n, cap) ==
    LET gone == IF n \in RingNodes THEN Range(nodeVnodes[n]) ELSE {}
        caps == [m \in RingNodes \cup {n} |-> IF m = n THEN cap ELSE nodeCapacities[m]]
    IN  \E count \in MinCount..MaxVnodes :
        \E tries \in [1..count -> 1..MaxProbes] :
            LET vnodes == NewVnodes(n, 1, count, tries)
            IN  /\ count = VnodeCount(cap, caps)
                /\ Placed(n, 1, count, DOMAIN positionToNode \ gone, tries)
                /\ positions' = (positions \ gone) \cup Range(vnodes)
                /\ positionToNode' = Reassign(positionToNode, gone, n, Range(vnodes))
                /\ nodeVnodes' = [m \in RingNodes \cup {n} |->
                                     IF m = n THEN vnodes ELSE nodeVnodes[m]]
                /\ nodeCapacities' = caps

\* Broken variant of RemoveNode: the capacity of the node stays behind.
RemoveNodeKeepCapacity(n) ==
    /\ n \in RingNodes
    /\ LET gone == Range(nodeVnodes[n])
       IN  /\ positions' = positions \ gone
           /\ positionToNode' = Reassign(positionToNode, gone, n, {})
    /\ nodeVnodes' = Restrict(nodeVnodes, RingNodes \ {n})
    /\ UNCHANGED nodeCapacities

\* remove_node of a node that is on the ring; otherwise it does nothing.
RemoveNode(n) ==
    /\ n \in RingNodes
    /\ LET gone == Range(nodeVnodes[n])
       IN  /\ positions' = positions \ gone
           /\ positionToNode' = Reassign(positionToNode, gone, n, {})
    /\ nodeVnodes' = Restrict(nodeVnodes, RingNodes \ {n})
    /\ nodeCapacities' = Restrict(nodeCapacities, RingNodes \ {n})

\* update_node_vnodes when the clamped count is above the current one: vnodes
\* are appended, their keys numbered from the current count on.
GrowVnodes(n, count) ==
    LET current == Len(nodeVnodes[n])
    IN  /\ count > current
        /\ \E tries \in [(current + 1)..count -> 1..MaxProbes] :
            LET new == NewVnodes(n, current + 1, count, tries)
            IN  /\ Placed(n, current + 1, count, DOMAIN positionToNode, tries)
                /\ positions' = positions \cup Range(new)
                /\ positionToNode' = Reassign(positionToNode, {}, n, Range(new))
                /\ nodeVnodes' = [nodeVnodes EXCEPT ![n] = @ \o new]
                /\ UNCHANGED nodeCapacities

\* Broken variant of ShrinkVnodes: the first vnodes are dropped.
ShrinkFromFront(n, count) ==
    LET surplus == Len(nodeVnodes[n]) - count
        gone    == {nodeVnodes[n][i] : i \in 1..surplus}
    IN  /\ surplus > 0
        /\ positions' = positions \ gone
        /\ positionToNode' = Reassign(positionToNode, gone, n, {})
        /\ nodeVnodes' = [nodeVnodes EXCEPT ![n] = SubSeq(@, surplus + 1, Len(@))]
        /\ UNCHANGED nodeCapacities

\* update_node_vnodes when it is below: the last vnodes are dropped.
ShrinkVnodes(n, count) ==
    LET gone == {nodeVnodes[n][i] : i \in (count + 1)..Len(nodeVnodes[n])}
    IN  /\ count < Len(nodeVnodes[n])
        /\ positions' = positions \ gone
        /\ positionToNode' = Reassign(positionToNode, gone, n, {})
        /\ nodeVnodes' = [nodeVnodes EXCEPT ![n] = SubSeq(@, 1, count)]
        /\ UNCHANGED nodeCapacities

\* Broken variant of UpdateNodeVnodes: the count asked for is not clamped.
UpdateUnclamped(n, newCount) ==
    /\ n \in RingNodes
    /\ GrowVnodes(n, newCount) \/ ShrinkVnodes(n, newCount)

\* update_node_vnodes: the count asked for is clamped to the minimum.
UpdateNodeVnodes(n, newCount) ==
    LET count == IF newCount > MinCount THEN newCount ELSE MinCount
    IN  /\ n \in RingNodes
        /\ GrowVnodes(n, count) \/ ShrinkVnodes(n, count)

Next ==
    \E n \in Node :
        \/ \E cap \in Capacity : AddNode(n, cap)
        \/ RemoveNode(n)
        \/ \E newCount \in 0..MaxVnodes : UpdateNodeVnodes(n, newCount)

Spec == Init /\ [][Next]_ringVars

-----------------------------------------------------------------------------
\* bisect_left with wrap-around: the first position at or after h, clockwise.
Successor(h) ==
    LET after == {p \in positions : p >= h}
    IN  IF after # {} THEN Min(after) ELSE Min(positions)

\* get_node, for a ring that is not empty.
GetNode(h) == positionToNode[Successor(h)]

-----------------------------------------------------------------------------
\* The types of the four structures of the ring.
RingTypeOK ==
    /\ positions \subseteq HashPos
    /\ RingNodes \subseteq Node
    /\ nodeVnodes \in [RingNodes -> Seq(HashPos)]
    /\ nodeCapacities \in [RingNodes -> Capacity]
    /\ DOMAIN positionToNode \subseteq HashPos
    /\ positionToNode \in [DOMAIN positionToNode -> Node]

\* The sorted list, the owner map and the per-node lists, three redundant
\* structures that add_node, remove_node and update_node_vnodes each update
\* piecemeal, always describe one ring: no position is shared by two vnodes,
\* none is orphaned and none is owned by a node that lost it.
RingConsistent ==
    /\ positions = DOMAIN positionToNode
    /\ \A n \in RingNodes : \A i, j \in DOMAIN nodeVnodes[n] :
          nodeVnodes[n][i] = nodeVnodes[n][j] => i = j
    /\ \A n \in RingNodes : \A i \in DOMAIN nodeVnodes[n] :
          /\ nodeVnodes[n][i] \in DOMAIN positionToNode
          /\ positionToNode[nodeVnodes[n][i]] = n
    /\ \A p \in DOMAIN positionToNode :
          /\ positionToNode[p] \in RingNodes
          /\ \E i \in DOMAIN nodeVnodes[positionToNode[p]] :
                nodeVnodes[positionToNode[p]][i] = p

\* However small the count the allocation algorithm asks for, every node of the
\* ring keeps at least MinCount vnodes and get_node sends some key to it: no
\* node is starved.
NoNodeStarved ==
    \A n \in RingNodes :
        /\ Len(nodeVnodes[n]) >= MinCount
        /\ \E h \in HashPos : GetNode(h) = n

\* Where no two vnode keys have the same hash, the ring is a function of the
\* vnode counts alone: whatever sequence of additions, removals and resizes led
\* to it, vnode i of a node is at its own hash, so a coordinator that restarts
\* and one that was resized for days route every key alike.
CollisionFree ==
    \A n, m \in Node : \A i, j \in 1..MaxVnodes :
        VnodeHash[n][i][1] = VnodeHash[m][j][1] => n = m /\ i = j

HistoryIndependent ==
    CollisionFree =>
        \A n \in RingNodes : \A i \in DOMAIN nodeVnodes[n] :
            nodeVnodes[n][i] = VnodeHash[n][i][1]

\* A change of the ring moves no key between two nodes it does not concern: one
\* node n takes part in every move.  When vnodes are only added n gains every
\* moved key, when they are only removed it loses every one.
MinimalMovement ==
    [][RingNodes # {} /\ RingNodes' # {} =>
        \E n \in Node : \A h \in HashPos :
            GetNode(h)' # GetNode(h) =>
                /\ n \in {GetNode(h), GetNode(h)'}
                /\ positions \subseteq positions' => GetNode(h)' = n
                /\ positions' \subseteq positions => GetNode(h) = n
      ]_ringVars

=============================================================================
