---------------------------- MODULE HashRingProofs ----------------------------
(***************************************************************************)
(* Theorems about HashRing and RingLookup, for any nodes, hash function,   *)
(* counts and capacities that satisfy RingAssumption.                      *)
(***************************************************************************)
EXTENDS RingLookup, FiniteSetTheorems, SequenceTheorems, WellFoundedInduction, TLAPS

\* A placement of vnodes lo..hi of n beside the positions "occupied".
Placement(n, lo, hi, occupied, tries) ==
    /\ n \in Node
    /\ lo \in Nat \ {0}
    /\ hi \in lo..MaxVnodes
    /\ tries \in [lo..hi -> 1..MaxProbes]
    /\ Placed(n, lo, hi, occupied, tries)

\* new is a list of size distinct points of the ring, none of them occupied.
FreeVnodes(new, size, occupied) ==
    /\ new \in Seq(HashPos)
    /\ Len(new) = size
    /\ \A k \in 1..size : new[k] \in HashPos \ occupied
    /\ \A k, l \in 1..size : new[k] = new[l] => k = l

\* The vnodes a placement creates are distinct points of the ring that were
\* free before it.
LEMMA NewVnodesAreFree ==
    ASSUME NEW n, NEW lo, NEW hi, NEW tries, NEW occupied,
           Placement(n, lo, hi, occupied, tries)
    PROVE  FreeVnodes(NewVnodes(n, lo, hi, tries), hi - lo + 1, occupied)
<1>0. /\ n \in Node /\ lo \in Nat \ {0} /\ hi \in lo..MaxVnodes
      /\ tries \in [lo..hi -> 1..MaxProbes]
      /\ Placed(n, lo, hi, occupied, tries)
  BY DEF Placement
<1> DEFINE at(i) == VnodeHash[n][i][tries[i]]
<1> DEFINE new == NewVnodes(n, lo, hi, tries)
<1>1. \A i \in lo..hi : i \in 1..MaxVnodes /\ tries[i] \in 1..MaxProbes
  BY <1>0, RingAssumption
<1>2. \A i \in lo..hi : at(i) \in HashPos
  BY <1>0, <1>1, RingAssumption
<1>3. ASSUME NEW i \in lo..hi
      PROVE  at(i) \notin occupied /\ \A j \in lo..(i - 1) : at(i) # at(j)
  BY <1>0, <1>1 DEF Placed, FirstFree
<1>4. /\ DOMAIN new = 1..(hi - lo + 1)
      /\ \A k \in 1..(hi - lo + 1) : new[k] = at(lo + k - 1) /\ lo + k - 1 \in lo..hi
  BY <1>0, RingAssumption DEF NewVnodes
<1>5. \A k \in 1..(hi - lo + 1) : new[k] \in HashPos \ occupied
  BY <1>2, <1>3, <1>4
<1>6. ASSUME NEW k \in 1..(hi - lo + 1), NEW l \in 1..(hi - lo + 1), k < l
      PROVE  new[k] # new[l]
  <2>1. lo + l - 1 \in lo..hi /\ lo + k - 1 \in lo..((lo + l - 1) - 1)
    BY <1>0, <1>6, RingAssumption
  <2> QED BY <2>1, <1>3, <1>4
<1>7. \A k, l \in 1..(hi - lo + 1) : new[k] = new[l] => k = l
  <2> HIDE DEF new
  <2>1. SUFFICES ASSUME NEW k \in 1..(hi - lo + 1), NEW l \in 1..(hi - lo + 1),
                        new[k] = new[l], k # l
                 PROVE  FALSE
    OBVIOUS
  <2>2. k < l \/ l < k
    BY <2>1, <1>0, RingAssumption
  <2> QED BY <2>1, <2>2, <1>6
<1>8. new \in Seq(HashPos) /\ Len(new) = hi - lo + 1
  <2>1. new = [k \in 1..(hi - lo + 1) |-> new[k]]
    BY <1>4 DEF NewVnodes
  <2>2. hi - lo + 1 \in Nat
    BY <1>0, RingAssumption
  <2> HIDE DEF new
  <2> QED BY <2>1, <2>2, <1>5
<1> HIDE DEF new
<1> QED BY <1>5, <1>7, <1>8 DEF FreeVnodes, new

-----------------------------------------------------------------------------
\* The counts stay within their bounds.
CountsBounded ==
    \A n \in RingNodes : Len(nodeVnodes[n]) \in MinCount..MaxVnodes

\* The inductive invariant.  The types alone are not enough: that a removed
\* position is no other node's needs the agreement of the structures, and that
\* a grown node's new positions are numbered within VnodeHash needs the bounds.
RingInv == RingTypeOK /\ RingConsistent /\ CountsBounded

\* The empty ring satisfies the invariant.
LEMMA InitRingInv == Init => RingInv
  BY RingAssumption DEF Init, RingInv, RingTypeOK, RingConsistent, CountsBounded, RingNodes

\* add_node preserves it, whether or not the node was on the ring before.
LEMMA AddNodeRingInv ==
    ASSUME RingInv, NEW n \in Node, NEW cap \in Capacity, AddNode(n, cap)
    PROVE  RingInv'
<1> USE RingAssumption
<1> DEFINE gone == IF n \in RingNodes THEN Range(nodeVnodes[n]) ELSE {}
<1> DEFINE caps == [m \in RingNodes \cup {n} |-> IF m = n THEN cap ELSE nodeCapacities[m]]
<1>0. PICK count \in MinCount..MaxVnodes :
         \E tries \in [1..count -> 1..MaxProbes] :
             LET vnodes == NewVnodes(n, 1, count, tries)
             IN  /\ Placed(n, 1, count, DOMAIN positionToNode \ gone, tries)
                 /\ positions' = (positions \ gone) \cup Range(vnodes)
                 /\ positionToNode' = Reassign(positionToNode, gone, n, Range(vnodes))
                 /\ nodeVnodes' = [m \in RingNodes \cup {n} |->
                                      IF m = n THEN vnodes ELSE nodeVnodes[m]]
                 /\ nodeCapacities' = caps
  BY DEF AddNode
<1>1. PICK tries \in [1..count -> 1..MaxProbes] :
         LET vnodes == NewVnodes(n, 1, count, tries)
         IN  /\ Placed(n, 1, count, DOMAIN positionToNode \ gone, tries)
             /\ positions' = (positions \ gone) \cup Range(vnodes)
             /\ positionToNode' = Reassign(positionToNode, gone, n, Range(vnodes))
             /\ nodeVnodes' = [m \in RingNodes \cup {n} |->
                                  IF m = n THEN vnodes ELSE nodeVnodes[m]]
             /\ nodeCapacities' = caps
  BY <1>0
<1> DEFINE new == NewVnodes(n, 1, count, tries)
<1>2. /\ new \in Seq(HashPos) /\ Len(new) = count
      /\ \A k \in 1..count : new[k] \in HashPos \ (DOMAIN positionToNode \ gone)
      /\ \A k, l \in 1..count : new[k] = new[l] => k = l
  <2>1. Placement(n, 1, count, DOMAIN positionToNode \ gone, tries)
    BY <1>1 DEF Placement
  <2>2. FreeVnodes(new, count - 1 + 1, DOMAIN positionToNode \ gone)
    BY ONLY <2>1, NewVnodesAreFree
  <2>3. count - 1 + 1 = count
    OBVIOUS
  <2> HIDE DEF new, gone
  <2> QED BY <2>2, <2>3 DEF FreeVnodes
<1> HIDE DEF new
<1>3. DOMAIN new = 1..count
  BY <1>2
<1>4. Range(new) = {new[k] : k \in 1..count} /\ Range(new) \subseteq HashPos
  BY <1>2, <1>3 DEF Range
<1>5. RingNodes' = RingNodes \cup {n}
  BY <1>1 DEF RingNodes
<1>6. DOMAIN positionToNode' = (DOMAIN positionToNode \ gone) \cup Range(new)
  BY <1>1 DEF Reassign, new
<1>7. \A p \in DOMAIN positionToNode' :
        positionToNode'[p] = IF p \in Range(new) THEN n ELSE positionToNode[p]
  BY <1>1, <1>6 DEF Reassign, new
<1>8. /\ nodeVnodes' = [m \in RingNodes \cup {n} |-> IF m = n THEN new ELSE nodeVnodes[m]]
      /\ positions' = (positions \ gone) \cup Range(new)
  BY <1>1 DEF new
<1>9. \A p \in DOMAIN positionToNode : p \in gone <=> n \in RingNodes /\ positionToNode[p] = n
  BY DEF RingInv, RingConsistent, RingTypeOK, Range
<1>10. RingTypeOK'
  <2>1. nodeVnodes' \in [RingNodes' -> Seq(HashPos)]
    BY <1>2, <1>5, <1>8 DEF RingInv, RingTypeOK
  <2>2. nodeCapacities' \in [RingNodes' -> Capacity]
    BY <1>1, <1>5 DEF RingInv, RingTypeOK
  <2>3. /\ DOMAIN positionToNode' \subseteq HashPos
        /\ positionToNode' \in [DOMAIN positionToNode' -> Node]
    <3>1. positionToNode' = [p \in DOMAIN positionToNode' |-> positionToNode'[p]]
      BY <1>1, <1>6 DEF Reassign, new
    <3> QED BY <3>1, <1>4, <1>6, <1>7 DEF RingInv, RingTypeOK
  <2>4. positions' \subseteq HashPos
    BY <1>4, <1>8 DEF RingInv, RingTypeOK
  <2> QED BY <2>1, <2>2, <2>3, <2>4, <1>5 DEF RingInv, RingTypeOK
<1>11. RingConsistent'
  <2>1. (positions = DOMAIN positionToNode)'
    BY <1>6, <1>8 DEF RingInv, RingConsistent
  <2>2. \A m \in RingNodes' : \A i, j \in DOMAIN nodeVnodes'[m] :
          nodeVnodes'[m][i] = nodeVnodes'[m][j] => i = j
    BY <1>2, <1>3, <1>5, <1>8 DEF RingInv, RingConsistent
  <2>3. ASSUME NEW m \in RingNodes', NEW i \in DOMAIN nodeVnodes'[m]
        PROVE  /\ nodeVnodes'[m][i] \in DOMAIN positionToNode'
               /\ positionToNode'[nodeVnodes'[m][i]] = m
    <3>1. CASE m = n
      <4>1. nodeVnodes'[m] = new
        BY <3>1, <1>5, <1>8
      <4> QED BY <4>1, <3>1, <1>3, <1>4, <1>6, <1>7
    <3>2. CASE m # n
      <4>1. m \in RingNodes /\ nodeVnodes'[m] = nodeVnodes[m]
        BY <3>2, <1>5, <1>8
      <4> DEFINE p == nodeVnodes[m][i]
      <4>2. p \in DOMAIN positionToNode /\ positionToNode[p] = m
        BY <4>1 DEF RingInv, RingConsistent
      <4>3. p \notin gone
        BY <4>2, <3>2, <1>9
      <4>4. p \notin Range(new)
        BY <4>2, <4>3, <1>2, <1>4
      <4> QED BY <4>1, <4>2, <4>3, <4>4, <1>6, <1>7
    <3> QED BY <3>1, <3>2
  <2>4. ASSUME NEW p \in DOMAIN positionToNode'
        PROVE  /\ positionToNode'[p] \in RingNodes'
               /\ \E i \in DOMAIN nodeVnodes'[positionToNode'[p]] :
                     nodeVnodes'[positionToNode'[p]][i] = p
    <3>1. CASE p \in Range(new)
      <4>1. positionToNode'[p] = n /\ nodeVnodes'[n] = new
        BY <3>1, <1>7, <1>8
      <4> QED BY <4>1, <3>1, <1>3, <1>4, <1>5
    <3>2. CASE p \notin Range(new)
      <4>1. p \in DOMAIN positionToNode /\ p \notin gone /\ positionToNode'[p] = positionToNode[p]
        BY <3>2, <1>6, <1>7
      <4>2. positionToNode[p] # n /\ positionToNode[p] \in RingNodes
        BY <4>1, <1>9 DEF RingInv, RingConsistent
      <4>3. nodeVnodes'[positionToNode[p]] = nodeVnodes[positionToNode[p]]
        BY <4>2, <1>8
      <4> QED BY <4>1, <4>2, <4>3, <1>5 DEF RingInv, RingConsistent
    <3> QED BY <3>1, <3>2
  <2> QED BY <2>1, <2>2, <2>3, <2>4 DEF RingConsistent
<1>12. CountsBounded'
  BY <1>2, <1>5, <1>8 DEF RingInv, CountsBounded
<1> QED BY <1>10, <1>11, <1>12 DEF RingInv

\* remove_node preserves it.
LEMMA RemoveNodeRingInv ==
    ASSUME RingInv, NEW n \in Node, RemoveNode(n)
    PROVE  RingInv'
<1> DEFINE gone == Range(nodeVnodes[n])
<1>1. /\ n \in RingNodes
      /\ positions' = positions \ gone
      /\ nodeVnodes' = [m \in RingNodes \ {n} |-> nodeVnodes[m]]
      /\ nodeCapacities' = [m \in RingNodes \ {n} |-> nodeCapacities[m]]
      /\ positionToNode' = [p \in DOMAIN positionToNode \ gone |-> positionToNode[p]]
  BY DEF RemoveNode, Reassign, Restrict
<1>2. RingNodes' = RingNodes \ {n} /\ DOMAIN positionToNode' = DOMAIN positionToNode \ gone
  BY <1>1 DEF RingNodes
<1>3. \A p \in DOMAIN positionToNode : p \in gone <=> positionToNode[p] = n
  BY <1>1 DEF RingInv, RingConsistent, RingTypeOK, Range
<1>4. RingTypeOK'
  BY <1>1, <1>2 DEF RingInv, RingTypeOK
<1>5. RingConsistent'
  <2> HIDE DEF gone
  <2> QED BY <1>1, <1>2, <1>3 DEF RingInv, RingConsistent
<1>6. CountsBounded'
  BY <1>1, <1>2 DEF RingInv, CountsBounded
<1> QED BY <1>4, <1>5, <1>6 DEF RingInv

\* update_node_vnodes preserves it when it appends vnodes ...
LEMMA GrowVnodesRingInv ==
    ASSUME RingInv, NEW n \in RingNodes, NEW count \in MinCount..MaxVnodes,
           GrowVnodes(n, count)
    PROVE  RingInv'
<1> USE RingAssumption
<1> DEFINE current == Len(nodeVnodes[n])
<1>1. PICK tries \in [(current + 1)..count -> 1..MaxProbes] :
         LET vnodes == NewVnodes(n, current + 1, count, tries)
         IN  /\ Placed(n, current + 1, count, DOMAIN positionToNode, tries)
             /\ positions' = positions \cup Range(vnodes)
             /\ positionToNode' = Reassign(positionToNode, {}, n, Range(vnodes))
             /\ nodeVnodes' = [nodeVnodes EXCEPT ![n] = @ \o vnodes]
             /\ UNCHANGED nodeCapacities
  BY DEF GrowVnodes
<1> DEFINE new == NewVnodes(n, current + 1, count, tries)
<1>2. n \in Node /\ current \in MinCount..MaxVnodes /\ current < count
  BY DEF RingInv, RingTypeOK, CountsBounded, GrowVnodes
<1>3. /\ new \in Seq(HashPos) /\ Len(new) = count - current
      /\ \A k \in 1..(count - current) : new[k] \in HashPos \ DOMAIN positionToNode
      /\ \A k, l \in 1..(count - current) : new[k] = new[l] => k = l
  <2>1. Placement(n, current + 1, count, DOMAIN positionToNode, tries)
    BY <1>1, <1>2 DEF Placement
  <2>2. FreeVnodes(new, count - (current + 1) + 1, DOMAIN positionToNode)
    BY ONLY <2>1, NewVnodesAreFree
  <2>3. count - (current + 1) + 1 = count - current
    BY <1>2
  <2> HIDE DEF new, current
  <2> QED BY <2>2, <2>3 DEF FreeVnodes
<1>4. /\ nodeVnodes' = [nodeVnodes EXCEPT ![n] = nodeVnodes[n] \o new]
      /\ positions' = positions \cup Range(new)
      /\ positionToNode' = Reassign(positionToNode, {}, n, Range(new))
      /\ nodeCapacities' = nodeCapacities
  BY <1>1
<1> HIDE DEF new
<1>a. Len(nodeVnodes[n]) = current
  OBVIOUS
<1> HIDE DEF current
<1>b. DOMAIN new = 1..(count - current)
  BY <1>3
<1>5. Range(new) = {new[k] : k \in 1..(count - current)} /\ Range(new) \subseteq HashPos
  BY <1>3, <1>b DEF Range
<1>6. RingNodes' = RingNodes
  BY <1>4 DEF RingNodes
<1>7. /\ DOMAIN positionToNode' = DOMAIN positionToNode \cup Range(new)
      /\ positionToNode' = [p \in DOMAIN positionToNode \cup Range(new) |->
                               IF p \in Range(new) THEN n ELSE positionToNode[p]]
  BY <1>4 DEF Reassign
<1>8. /\ nodeVnodes[n] \in Seq(HashPos)
      /\ nodeVnodes'[n] \in Seq(HashPos)
      /\ Len(nodeVnodes'[n]) = count
      /\ \A i \in 1..current : nodeVnodes'[n][i] = nodeVnodes[n][i]
      /\ \A i \in (current + 1)..count : nodeVnodes'[n][i] = new[i - current]
  <2>1. nodeVnodes[n] \in Seq(HashPos) /\ nodeVnodes'[n] = nodeVnodes[n] \o new
    BY <1>4 DEF RingInv, RingTypeOK, RingNodes
  <2>2. new \in Seq(HashPos) /\ Len(new) = count - current
    BY <1>3
  <2> DEFINE grown == nodeVnodes[n] \o new
  <2>3. /\ grown \in Seq(HashPos)
        /\ Len(grown) = current + (count - current)
        /\ \A i \in 1..(current + (count - current)) :
              grown[i] = IF i <= current THEN nodeVnodes[n][i] ELSE new[i - current]
    <3>1. PICK p \in Seq(HashPos), q \in Seq(HashPos) : p = nodeVnodes[n] /\ q = new
      BY ONLY <2>1, <2>2
    <3>2. /\ p \o q \in Seq(HashPos)
          /\ Len(p \o q) = Len(p) + Len(q)
          /\ \A i \in 1..(Len(p) + Len(q)) : (p \o q)[i] = IF i <= Len(p) THEN p[i] ELSE q[i - Len(p)]
      BY ONLY <3>1, ConcatProperties
    <3>3. p \o q = grown /\ Len(p) = current /\ Len(q) = count - current
      BY ONLY <3>1, <2>2, <1>a
    <3> QED BY ONLY <3>1, <3>2, <3>3, Zenon
  <2> HIDE DEF grown
  <2>4. current + (count - current) = count /\ current \in Nat /\ count \in Nat
    BY <1>2
  <2>5. nodeVnodes'[n] = grown
    BY <2>1 DEF grown
  <2> QED BY ONLY <2>1, <2>3, <2>4, <2>5, <1>2
<1>9. \A m \in RingNodes : m # n => nodeVnodes'[m] = nodeVnodes[m]
  BY <1>4 DEF RingNodes
<1>10. Range(new) \cap DOMAIN positionToNode = {}
  BY <1>3, <1>5
<1>11. RingTypeOK'
  <2>1. nodeVnodes' \in [RingNodes' -> Seq(HashPos)]
    BY <1>4, <1>6, <1>8 DEF RingInv, RingTypeOK
  <2> QED BY <2>1, <1>2, <1>4, <1>5, <1>6, <1>7 DEF RingInv, RingTypeOK
<1>12. RingConsistent'
  <2>1. (positions = DOMAIN positionToNode)'
    BY <1>4, <1>7 DEF RingInv, RingConsistent
  <2>3. DOMAIN nodeVnodes'[n] = 1..count /\ DOMAIN nodeVnodes[n] = 1..current
    BY <1>8, <1>a
  <2>2. /\ \A i \in 1..current : /\ nodeVnodes[n][i] \in DOMAIN positionToNode
                                 /\ positionToNode[nodeVnodes[n][i]] = n
        /\ \A i, j \in 1..current : nodeVnodes[n][i] = nodeVnodes[n][j] => i = j
    BY <2>3 DEF RingInv, RingConsistent
  <2>4. ASSUME NEW i \in 1..count, NEW j \in 1..count, nodeVnodes'[n][i] = nodeVnodes'[n][j]
        PROVE  i = j
    <3>1. CASE i \in 1..current /\ j \in 1..current
      BY <3>1, <2>2, <2>4, <1>8
    <3>2. CASE i \in (current + 1)..count /\ j \in (current + 1)..count
      <4>1. i - current \in 1..(count - current) /\ j - current \in 1..(count - current)
        BY <3>2, <1>2
      <4>2. new[i - current] = new[j - current]
        BY <3>2, <2>4, <1>8
      <4> QED BY <4>1, <4>2, <1>2, <1>3
    <3>3. CASE i \in 1..current /\ j \in (current + 1)..count
      <4>1. j - current \in 1..(count - current)
        BY <3>3, <1>2
      <4>2. nodeVnodes[n][i] = new[j - current]
        BY <3>3, <2>4, <1>8
      <4> QED BY <4>1, <4>2, <3>3, <2>2, <1>3
    <3>4. CASE i \in (current + 1)..count /\ j \in 1..current
      <4>1. i - current \in 1..(count - current)
        BY <3>4, <1>2
      <4>2. nodeVnodes[n][j] = new[i - current]
        BY <3>4, <2>4, <1>8
      <4> QED BY <4>1, <4>2, <3>4, <2>2, <1>3
    <3> QED BY <3>1, <3>2, <3>3, <3>4, <1>2
  <2>5. \A m \in RingNodes' : \A i, j \in DOMAIN nodeVnodes'[m] :
          nodeVnodes'[m][i] = nodeVnodes'[m][j] => i = j
    BY <2>3, <2>4, <1>6, <1>9 DEF RingInv, RingConsistent
  <2>6. ASSUME NEW m \in RingNodes', NEW i \in DOMAIN nodeVnodes'[m]
        PROVE  /\ nodeVnodes'[m][i] \in DOMAIN positionToNode'
               /\ positionToNode'[nodeVnodes'[m][i]] = m
    <3>1. CASE m # n
      BY <3>1, <1>6, <1>7, <1>9, <1>10 DEF RingInv, RingConsistent
    <3>2. CASE m = n /\ i \in 1..current
      BY <3>2, <2>2, <1>7, <1>8, <1>10
    <3>3. CASE m = n /\ i \in (current + 1)..count
      <4>1. i - current \in 1..(count - current)
        BY <3>3, <1>2
      <4> QED BY <4>1, <3>3, <1>5, <1>7, <1>8
    <3> QED BY <3>1, <3>2, <3>3, <2>3, <1>2
  <2>7. ASSUME NEW p \in DOMAIN positionToNode'
        PROVE  /\ positionToNode'[p] \in RingNodes'
               /\ \E i \in DOMAIN nodeVnodes'[positionToNode'[p]] :
                     nodeVnodes'[positionToNode'[p]][i] = p
    <3>1. CASE p \in Range(new)
      <4>1. PICK k \in 1..(count - current) : p = new[k]
        BY <3>1, <1>5
      <4>2. /\ k + current \in (current + 1)..count /\ k + current \in 1..count
            /\ (k + current) - current = k
        BY <1>2
      <4>3. nodeVnodes'[n][k + current] = p
        BY <4>1, <4>2, <1>8
      <4>4. positionToNode'[p] = n
        BY <3>1, <1>7
      <4> QED BY <4>2, <4>3, <4>4, <2>3, <1>6
    <3>2. CASE p \notin Range(new)
      <4>1. p \in DOMAIN positionToNode /\ positionToNode'[p] = positionToNode[p]
        BY <3>2, <1>7
      <4>2. PICK i \in DOMAIN nodeVnodes[positionToNode[p]] :
              nodeVnodes[positionToNode[p]][i] = p
        BY <4>1 DEF RingInv, RingConsistent
      <4>3. CASE positionToNode[p] = n
        <5>1. i \in 1..current /\ i \in 1..count /\ nodeVnodes'[n][i] = p
          BY <4>2, <4>3, <2>3, <1>2, <1>8
        <5> QED BY <5>1, <4>1, <4>3, <2>3, <1>6
      <4>4. CASE positionToNode[p] # n
        BY <4>1, <4>2, <4>4, <1>6, <1>9 DEF RingInv, RingConsistent
      <4> QED BY <4>3, <4>4
    <3> QED BY <3>1, <3>2
  <2> QED BY <2>1, <2>5, <2>6, <2>7 DEF RingConsistent
<1>13. CountsBounded'
  BY <1>6, <1>8, <1>9 DEF RingInv, CountsBounded
<1> QED BY <1>11, <1>12, <1>13 DEF RingInv

\* ... and when it drops the last ones.
LEMMA ShrinkVnodesRingInv ==
    ASSUME RingInv, NEW n \in RingNodes, NEW count \in MinCount..MaxVnodes,
           ShrinkVnodes(n, count)
    PROVE  RingInv'
<1> USE RingAssumption
<1> DEFINE current == Len(nodeVnodes[n])
<1> DEFINE gone == {nodeVnodes[n][i] : i \in (count + 1)..current}
<1>1. /\ count < current
      /\ positions' = positions \ gone
      /\ positionToNode' = [p \in DOMAIN positionToNode \ gone |-> positionToNode[p]]
      /\ nodeVnodes' = [nodeVnodes EXCEPT ![n] = SubSeq(nodeVnodes[n], 1, count)]
      /\ nodeCapacities' = nodeCapacities
  BY DEF ShrinkVnodes, Reassign
<1>2. /\ nodeVnodes[n] \in Seq(HashPos)
      /\ current \in MinCount..MaxVnodes
      /\ \A i \in 1..current : /\ nodeVnodes[n][i] \in DOMAIN positionToNode
                              /\ positionToNode[nodeVnodes[n][i]] = n
      /\ \A i, j \in 1..current : nodeVnodes[n][i] = nodeVnodes[n][j] => i = j
  BY DEF RingInv, RingTypeOK, RingConsistent, CountsBounded
<1>3. /\ RingNodes' = RingNodes
      /\ DOMAIN positionToNode' = DOMAIN positionToNode \ gone
      /\ \A m \in RingNodes : m # n => nodeVnodes'[m] = nodeVnodes[m]
  BY <1>1 DEF RingNodes
<1>4. /\ nodeVnodes'[n] \in Seq(HashPos)
      /\ Len(nodeVnodes'[n]) = count
      /\ DOMAIN nodeVnodes'[n] = 1..count
      /\ \A i \in 1..count : nodeVnodes'[n][i] = nodeVnodes[n][i]
  <2>1. \A i \in 1..count : nodeVnodes[n][i] \in HashPos
    BY <1>1, <1>2
  <2> DEFINE short == SubSeq(nodeVnodes[n], 1, count)
  <2>2. /\ short \in Seq(HashPos)
        /\ Len(short) = IF 1 <= count THEN count - 1 + 1 ELSE 0
        /\ \A i \in 1..(count - 1 + 1) : short[i] = nodeVnodes[n][1 + i - 1]
    BY ONLY <2>1, SubSeqProperties, 1 \in Int, count \in Int
  <2> HIDE DEF short
  <2>3. nodeVnodes'[n] = short
    BY <1>1 DEF short, RingNodes
  <2> QED BY <2>2, <2>3
<1>5. \A i \in 1..count : nodeVnodes[n][i] \notin gone
  BY <1>1, <1>2
<1>6. \A p \in DOMAIN positionToNode : p \in gone => positionToNode[p] = n
  BY <1>1, <1>2
<1>7. RingTypeOK'
  <2>1. nodeVnodes' \in [RingNodes' -> Seq(HashPos)]
    BY <1>1, <1>3, <1>4 DEF RingInv, RingTypeOK
  <2> QED BY <2>1, <1>1, <1>3 DEF RingInv, RingTypeOK
<1>8. RingConsistent'
  <2>1. (positions = DOMAIN positionToNode)'
    BY <1>1, <1>3 DEF RingInv, RingConsistent
  <2>2. ASSUME NEW m \in RingNodes', NEW i \in DOMAIN nodeVnodes'[m], NEW j \in DOMAIN nodeVnodes'[m],
               nodeVnodes'[m][i] = nodeVnodes'[m][j]
        PROVE  i = j
    <3>1. CASE m = n
      BY <3>1, <2>2, <1>1, <1>2, <1>4
    <3>2. CASE m # n
      BY <3>2, <2>2, <1>3 DEF RingInv, RingConsistent
    <3> QED BY <3>1, <3>2
  <2>3. ASSUME NEW m \in RingNodes', NEW i \in DOMAIN nodeVnodes'[m]
        PROVE  /\ nodeVnodes'[m][i] \in DOMAIN positionToNode'
               /\ positionToNode'[nodeVnodes'[m][i]] = m
    <3>1. CASE m = n
      BY <3>1, <1>1, <1>2, <1>3, <1>4, <1>5
    <3>2. CASE m # n
      <4>1. /\ nodeVnodes'[m][i] \in DOMAIN positionToNode
            /\ positionToNode[nodeVnodes'[m][i]] = m
        BY <3>2, <1>3 DEF RingInv, RingConsistent
      <4> QED BY <4>1, <3>2, <1>1, <1>3, <1>6
    <3> QED BY <3>1, <3>2
  <2>4. ASSUME NEW p \in DOMAIN positionToNode'
        PROVE  /\ positionToNode'[p] \in RingNodes'
               /\ \E i \in DOMAIN nodeVnodes'[positionToNode'[p]] :
                     nodeVnodes'[positionToNode'[p]][i] = p
    <3>1. /\ p \in DOMAIN positionToNode /\ p \notin gone
          /\ positionToNode'[p] = positionToNode[p]
      BY <1>1, <1>3
    <3>2. PICK i \in DOMAIN nodeVnodes[positionToNode[p]] :
            nodeVnodes[positionToNode[p]][i] = p
      BY <3>1 DEF RingInv, RingConsistent
    <3>3. positionToNode[p] \in RingNodes
      BY <3>1 DEF RingInv, RingConsistent
    <3>4. CASE positionToNode[p] = n
      <4>1. i \in 1..current
        BY <3>2, <3>4, <1>2
      <4>2. i \in 1..count
        BY <4>1, <3>1, <3>2, <3>4, <1>2
      <4> QED BY <4>2, <3>1, <3>2, <3>3, <3>4, <1>3, <1>4
    <3>5. CASE positionToNode[p] # n
      BY <3>1, <3>2, <3>3, <3>5, <1>3
    <3> QED BY <3>4, <3>5
  <2> QED BY <2>1, <2>2, <2>3, <2>4 DEF RingConsistent
<1>9. CountsBounded'
  BY <1>3, <1>4 DEF RingInv, CountsBounded
<1> QED BY <1>7, <1>8, <1>9 DEF RingInv

\* The invariant is inductive.
LEMMA NextRingInv == RingInv /\ [Next]_ringVars => RingInv'
<1> SUFFICES ASSUME RingInv, [Next]_ringVars PROVE RingInv'
  OBVIOUS
<1>1. ASSUME NEW n \in Node, NEW cap \in Capacity, AddNode(n, cap) PROVE RingInv'
  BY <1>1, AddNodeRingInv
<1>2. ASSUME NEW n \in Node, RemoveNode(n) PROVE RingInv'
  BY <1>2, RemoveNodeRingInv
<1>3. ASSUME NEW n \in Node, NEW newCount \in 0..MaxVnodes, UpdateNodeVnodes(n, newCount)
      PROVE  RingInv'
  <2> DEFINE count == IF newCount > MinCount THEN newCount ELSE MinCount
  <2>1. count \in MinCount..MaxVnodes
    BY RingAssumption
  <2>2. n \in RingNodes /\ (GrowVnodes(n, count) \/ ShrinkVnodes(n, count))
    BY <1>3 DEF UpdateNodeVnodes
  <2> QED BY <2>1, <2>2, GrowVnodesRingInv, ShrinkVnodesRingInv
<1>4. CASE UNCHANGED ringVars
  BY <1>4 DEF ringVars, RingInv, RingTypeOK, RingConsistent, CountsBounded, RingNodes
<1> QED BY <1>1, <1>2, <1>3, <1>4 DEF Next

\* Every reachable ring satisfies the invariant: types, consistency and bounds.
THEOREM RingInvariance == Spec => []RingInv
<1>1. Init => RingInv
  BY InitRingInv
<1>2. RingInv /\ [Next]_ringVars => RingInv'
  BY NextRingInv
<1> QED BY <1>1, <1>2, PTL DEF Spec

\* The four structures always have their types.
THEOREM RingTypeCorrect == Spec => []RingTypeOK
<1>1. RingInv => RingTypeOK
  BY DEF RingInv
<1> QED BY <1>1, RingInvariance, PTL

\* However nodes come, go and are resized, and whatever collides, the sorted
\* list, the owner map and the per-node lists describe one ring.
THEOREM RingStructuresAgree == Spec => []RingConsistent
<1>1. RingInv => RingConsistent
  BY DEF RingInv
<1> QED BY <1>1, RingInvariance, PTL

-----------------------------------------------------------------------------
\* get_node finds the first position clockwise.

\* A non-empty set of naturals has a least element.
LEMMA LeastNatural ==
    ASSUME NEW T, T \subseteq Nat, T # {}
    PROVE  \E x \in T : \A y \in T : x <= y
<1>1. PICK x \in T : \A y \in T : ~ (<<y, x>> \in OpToRel(<, Nat))
  BY NatLessThanWellFounded, WFMin
<1>2. \A y \in T : ~ (y < x)
  BY <1>1 DEF OpToRel
<1> QED BY <1>2

\* Min returns it.
LEMMA MinIsLeast ==
    ASSUME NEW T, T \subseteq Nat, T # {}
    PROVE  Min(T) \in T /\ \A y \in T : Min(T) <= y
  BY LeastNatural DEF Min

\* Walking clockwise from h, p comes before q.
Before(h, p, q) ==
    \/ h <= p /\ (p < q \/ q < h)
    \/ p < q /\ q < h

\* What get_node's bisect and wrap-around find on a set of positions.
FirstFrom(h, P) ==
    LET after == {p \in P : p >= h}
    IN  IF after # {} THEN Min(after) ELSE Min(P)

\* What FirstFrom returns is a position of the set, clockwise of h or the least.
LEMMA FirstFromIsFirst ==
    ASSUME NEW P, P \subseteq Nat, P # {}, NEW h \in Nat
    PROVE  /\ FirstFrom(h, P) \in P
           /\ \A q \in P : q # FirstFrom(h, P) => Before(h, FirstFrom(h, P), q)
<1> DEFINE after == {p \in P : p >= h}
<1>1. CASE after # {}
  <2>1. FirstFrom(h, P) = Min(after)
    BY <1>1 DEF FirstFrom
  <2>2. Min(after) \in after /\ \A y \in after : Min(after) <= y
    BY <1>1, MinIsLeast
  <2>3. PICK f \in after : f = FirstFrom(h, P) /\ \A y \in after : f <= y
    BY <2>1, <2>2
  <2>4. ASSUME NEW q \in P, q # f PROVE Before(h, f, q)
    BY <2>3, <2>4 DEF Before
  <2> QED BY <2>3, <2>4
<1>2. CASE after = {}
  <2>1. FirstFrom(h, P) = Min(P)
    BY <1>2 DEF FirstFrom
  <2>2. Min(P) \in P /\ \A y \in P : Min(P) <= y
    BY MinIsLeast
  <2>3. \A y \in P : y < h
    BY <1>2
  <2>4. PICK f \in P : f = FirstFrom(h, P) /\ \A y \in P : f <= y
    BY <2>1, <2>2
  <2>5. ASSUME NEW q \in P, q # f PROVE Before(h, f, q)
    BY <2>3, <2>4, <2>5 DEF Before
  <2> QED BY <2>4, <2>5
<1> QED BY <1>1, <1>2

\* If the first position of each of two rings is also on the other, it is the
\* same position.
LEMMA SameFirst ==
    ASSUME NEW P, P \subseteq Nat, P # {}, NEW Q, Q \subseteq Nat, Q # {}, NEW h \in Nat,
           FirstFrom(h, P) \in Q, FirstFrom(h, Q) \in P
    PROVE  FirstFrom(h, P) = FirstFrom(h, Q)
<1> DEFINE p == FirstFrom(h, P)
<1> DEFINE q == FirstFrom(h, Q)
<1>1. /\ p \in P /\ (q # p => Before(h, p, q))
      /\ q \in Q /\ (p # q => Before(h, q, p))
  BY FirstFromIsFirst
<1>2. p \in Nat /\ q \in Nat
  BY <1>1
<1> HIDE DEF p, q
<1>3. p = q
  BY <1>1, <1>2 DEF Before
<1> QED BY <1>3 DEF p, q

\* get_node returns the owner of the first position clockwise of the key.
LEMMA GetNodeIsFirst ==
    \A h : GetNode(h) = positionToNode[FirstFrom(h, positions)]
  BY DEF GetNode, Successor, FirstFrom

\* Every node has a vnode, and a key that hashes to a vnode goes to its node.
THEOREM NoStarvation == Spec => []NoNodeStarved
<1>1. RingInv => NoNodeStarved
  <2> SUFFICES ASSUME RingInv, NEW n \in RingNodes
               PROVE  /\ Len(nodeVnodes[n]) >= MinCount
                      /\ \E h \in HashPos : GetNode(h) = n
    BY DEF NoNodeStarved
  <2>1. Len(nodeVnodes[n]) >= MinCount
    BY RingAssumption DEF RingInv, CountsBounded
  <2> DEFINE p == nodeVnodes[n][1]
  <2>2. 1 \in DOMAIN nodeVnodes[n]
    BY RingAssumption DEF RingInv, RingTypeOK, CountsBounded
  <2>3. p \in positions /\ positionToNode[p] = n
    BY <2>2 DEF RingInv, RingConsistent
  <2>4. positions \subseteq Nat /\ positions \subseteq HashPos
    BY RingAssumption DEF RingInv, RingTypeOK, HashPos
  <2> HIDE DEF p
  <2>5. FirstFrom(p, positions) = p
    <3>1. p \in Nat
      BY <2>3, <2>4
    <3>2. /\ FirstFrom(p, positions) \in positions
          /\ p # FirstFrom(p, positions) => Before(p, FirstFrom(p, positions), p)
      BY <2>3, <2>4, <3>1, FirstFromIsFirst
    <3>3. FirstFrom(p, positions) \in Nat
      BY <3>2, <2>4
    <3> QED BY <3>1, <3>2, <3>3 DEF Before
  <2> QED BY <2>1, <2>3, <2>4, <2>5, GetNodeIsFirst
<1> QED BY <1>1, RingInvariance, PTL

-----------------------------------------------------------------------------
\* A change of the ring that concerns only node n: positions that stay keep
\* their owner, those that come are n's and those that go were n's.
ConcernsOnly(n) ==
    /\ \A p \in positions \cap positions' : positionToNode'[p] = positionToNode[p]
    /\ \A p \in positions' \ positions : positionToNode'[p] = n
    /\ \A p \in positions \ positions' : positionToNode[p] = n

\* add_node changes the owner of no position but the node's own.
LEMMA AddNodeConcernsOnly ==
    ASSUME RingInv, NEW n \in Node, NEW cap \in Capacity, AddNode(n, cap)
    PROVE  ConcernsOnly(n)
<1> DEFINE gone == IF n \in RingNodes THEN Range(nodeVnodes[n]) ELSE {}
<1>1. PICK new :
         /\ positions' = (positions \ gone) \cup new
         /\ positionToNode' = Reassign(positionToNode, gone, n, new)
         /\ new \cap (DOMAIN positionToNode \ gone) = {}
  <2>1. PICK count \in MinCount..MaxVnodes :
           \E tries \in [1..count -> 1..MaxProbes] :
               LET vnodes == NewVnodes(n, 1, count, tries)
               IN  /\ Placed(n, 1, count, DOMAIN positionToNode \ gone, tries)
                   /\ positions' = (positions \ gone) \cup Range(vnodes)
                   /\ positionToNode' = Reassign(positionToNode, gone, n, Range(vnodes))
    BY DEF AddNode
  <2>2. PICK tries \in [1..count -> 1..MaxProbes] :
           LET vnodes == NewVnodes(n, 1, count, tries)
           IN  /\ Placed(n, 1, count, DOMAIN positionToNode \ gone, tries)
               /\ positions' = (positions \ gone) \cup Range(vnodes)
               /\ positionToNode' = Reassign(positionToNode, gone, n, Range(vnodes))
    BY <2>1
  <2> DEFINE vnodes == NewVnodes(n, 1, count, tries)
  <2>3. /\ vnodes \in Seq(HashPos) /\ Len(vnodes) = count
        /\ \A k \in 1..count : vnodes[k] \notin DOMAIN positionToNode \ gone
    <3>1. Placement(n, 1, count, DOMAIN positionToNode \ gone, tries)
      BY <2>2, RingAssumption DEF Placement
    <3>2. FreeVnodes(vnodes, count - 1 + 1, DOMAIN positionToNode \ gone)
      BY ONLY <3>1, NewVnodesAreFree
    <3>3. count - 1 + 1 = count
      BY RingAssumption
    <3> HIDE DEF vnodes, gone
    <3> QED BY <3>2, <3>3 DEF FreeVnodes
  <2> HIDE DEF vnodes
  <2>4. Range(vnodes) \cap (DOMAIN positionToNode \ gone) = {}
    BY <2>3 DEF Range
  <2> QED BY <2>2, <2>4 DEF vnodes
<1>2. \A p \in DOMAIN positionToNode : p \in gone => positionToNode[p] = n
  BY DEF RingInv, RingConsistent, RingTypeOK, Range
<1>3. positions = DOMAIN positionToNode
  BY DEF RingInv, RingConsistent
<1> HIDE DEF gone
<1>4. \A p \in positions' : positionToNode'[p] = IF p \in new THEN n ELSE positionToNode[p]
  BY <1>1, <1>3 DEF Reassign
<1> QED BY <1>1, <1>2, <1>3, <1>4 DEF ConcernsOnly

\* Nor does remove_node,
LEMMA RemoveNodeConcernsOnly ==
    ASSUME RingInv, NEW n \in Node, RemoveNode(n)
    PROVE  ConcernsOnly(n)
<1> DEFINE gone == Range(nodeVnodes[n])
<1>1. /\ positions' = positions \ gone
      /\ positionToNode' = [p \in DOMAIN positionToNode \ gone |-> positionToNode[p]]
  BY DEF RemoveNode, Reassign
<1>2. \A p \in DOMAIN positionToNode : p \in gone => positionToNode[p] = n
  BY DEF RingInv, RingConsistent, RingTypeOK, Range, RemoveNode
<1>3. positions = DOMAIN positionToNode
  BY DEF RingInv, RingConsistent
<1> HIDE DEF gone
<1> QED BY <1>1, <1>2, <1>3 DEF ConcernsOnly

\* nor update_node_vnodes when it appends,
LEMMA GrowVnodesConcernsOnly ==
    ASSUME RingInv, NEW n \in RingNodes, NEW count \in MinCount..MaxVnodes,
           GrowVnodes(n, count)
    PROVE  ConcernsOnly(n)
<1> DEFINE current == Len(nodeVnodes[n])
<1>1. PICK tries \in [(current + 1)..count -> 1..MaxProbes] :
         LET vnodes == NewVnodes(n, current + 1, count, tries)
         IN  /\ Placed(n, current + 1, count, DOMAIN positionToNode, tries)
             /\ positions' = positions \cup Range(vnodes)
             /\ positionToNode' = Reassign(positionToNode, {}, n, Range(vnodes))
  BY DEF GrowVnodes
<1> DEFINE vnodes == NewVnodes(n, current + 1, count, tries)
<1>2. /\ vnodes \in Seq(HashPos)
      /\ \A k \in 1..Len(vnodes) : vnodes[k] \notin DOMAIN positionToNode
  <2>1. n \in Node /\ current \in MinCount..MaxVnodes /\ current < count
    BY DEF RingInv, RingTypeOK, CountsBounded, GrowVnodes
  <2>2. Placement(n, current + 1, count, DOMAIN positionToNode, tries)
    BY <1>1, <2>1, RingAssumption DEF Placement
  <2>3. FreeVnodes(vnodes, count - (current + 1) + 1, DOMAIN positionToNode)
    BY ONLY <2>2, NewVnodesAreFree
  <2> HIDE DEF vnodes
  <2> QED BY <2>3 DEF FreeVnodes
<1> DEFINE new == Range(vnodes)
<1>3. positions' = positions \cup new /\ positionToNode' = Reassign(positionToNode, {}, n, new)
  BY <1>1
<1> HIDE DEF vnodes
<1>4. new \cap DOMAIN positionToNode = {}
  BY <1>2 DEF Range
<1>5. positions = DOMAIN positionToNode
  BY DEF RingInv, RingConsistent
<1> HIDE DEF new
<1>6. \A p \in positions' : positionToNode'[p] = IF p \in new THEN n ELSE positionToNode[p]
  BY <1>3, <1>5 DEF Reassign
<1> QED BY <1>3, <1>4, <1>5, <1>6 DEF ConcernsOnly

\* nor when it drops;
LEMMA ShrinkVnodesConcernsOnly ==
    ASSUME RingInv, NEW n \in RingNodes, NEW count \in MinCount..MaxVnodes,
           ShrinkVnodes(n, count)
    PROVE  ConcernsOnly(n)
<1> DEFINE gone == {nodeVnodes[n][i] : i \in (count + 1)..Len(nodeVnodes[n])}
<1>1. /\ positions' = positions \ gone
      /\ positionToNode' = [p \in DOMAIN positionToNode \ gone |-> positionToNode[p]]
  BY DEF ShrinkVnodes, Reassign
<1>2. \A p \in gone : positionToNode[p] = n
  <2>1. /\ Len(nodeVnodes[n]) \in Nat
        /\ DOMAIN nodeVnodes[n] = 1..Len(nodeVnodes[n])
    BY DEF RingInv, RingTypeOK
  <2>2. \A i \in (count + 1)..Len(nodeVnodes[n]) : i \in DOMAIN nodeVnodes[n]
    BY <2>1, RingAssumption
  <2> QED BY <2>2 DEF RingInv, RingConsistent
<1>3. positions = DOMAIN positionToNode
  BY DEF RingInv, RingConsistent
<1> HIDE DEF gone
<1> QED BY <1>1, <1>2, <1>3 DEF ConcernsOnly

\* so every step concerns one node.
LEMMA NextConcernsOnly ==
    ASSUME RingInv, Next
    PROVE  \E n \in Node : ConcernsOnly(n)
<1>1. ASSUME NEW n \in Node, NEW newCount \in 0..MaxVnodes, UpdateNodeVnodes(n, newCount)
      PROVE  ConcernsOnly(n)
  <2> DEFINE count == IF newCount > MinCount THEN newCount ELSE MinCount
  <2>1. count \in MinCount..MaxVnodes
    BY RingAssumption
  <2>2. n \in RingNodes /\ (GrowVnodes(n, count) \/ ShrinkVnodes(n, count))
    BY <1>1 DEF UpdateNodeVnodes
  <2> QED BY <2>1, <2>2, GrowVnodesConcernsOnly, ShrinkVnodesConcernsOnly
<1> QED BY <1>1, AddNodeConcernsOnly, RemoveNodeConcernsOnly DEF Next

\* A change that concerns one node moves keys only to it and from it.
LEMMA MovedKeys ==
    ASSUME RingInv, RingInv', NEW n \in Node, ConcernsOnly(n),
           RingNodes # {}, RingNodes' # {}, NEW h \in HashPos, GetNode(h)' # GetNode(h)
    PROVE  /\ n \in {GetNode(h), GetNode(h)'}
           /\ positions \subseteq positions' => GetNode(h)' = n
           /\ positions' \subseteq positions => GetNode(h) = n
<1> DEFINE s == FirstFrom(h, positions)
<1> DEFINE t == FirstFrom(h, positions')
<1>1. GetNode(h) = positionToNode[s] /\ GetNode(h)' = positionToNode'[t]
  BY DEF GetNode, Successor, FirstFrom
<1>2. positions \subseteq Nat /\ positions' \subseteq Nat /\ h \in Nat
  BY RingAssumption DEF RingInv, RingTypeOK, HashPos
<1>3. positions # {}
  <2>1. PICK m \in RingNodes : 1 \in DOMAIN nodeVnodes[m]
    BY RingAssumption DEF RingInv, RingTypeOK, CountsBounded
  <2> QED BY <2>1 DEF RingInv, RingConsistent
<1>4. positions' # {}
  <2>1. PICK m \in RingNodes' : 1 \in DOMAIN nodeVnodes'[m]
    BY RingAssumption DEF RingInv, RingTypeOK, CountsBounded
  <2> QED BY <2>1 DEF RingInv, RingConsistent
<1>5. s \in positions /\ t \in positions'
  BY <1>2, <1>3, <1>4, FirstFromIsFirst
<1>6. s \in positions' /\ t \in positions => s = t
  BY <1>2, <1>3, <1>4, SameFirst
<1> HIDE DEF s, t
<1> QED BY <1>1, <1>5, <1>6 DEF ConcernsOnly

\* Consistent hashing: a change of the ring moves keys only to and from the node
\* that changed, to it when it grew and from it when it shrank.
THEOREM KeyMovement == Spec => MinimalMovement
<1> DEFINE Moves == RingNodes # {} /\ RingNodes' # {} =>
        \E n \in Node : \A h \in HashPos :
            GetNode(h)' # GetNode(h) =>
                /\ n \in {GetNode(h), GetNode(h)'}
                /\ positions \subseteq positions' => GetNode(h)' = n
                /\ positions' \subseteq positions => GetNode(h) = n
<1>1. ASSUME RingInv, RingInv', Next PROVE Moves
  <2>1. PICK n \in Node : ConcernsOnly(n)
    BY <1>1, NextConcernsOnly
  <2> QED BY <1>1, <2>1, MovedKeys
<1>2. RingInv /\ RingInv' /\ [Next]_ringVars => [Moves]_ringVars
  BY <1>1
<1> QED BY <1>2, RingInvariance, PTL DEF Spec, MinimalMovement

-----------------------------------------------------------------------------
\* Without collisions the first position tried is free if no vnode on the ring
\* is at it, so no vnode is rehashed.  By contradiction, with the least index
\* of a vnode that is.
LEMMA NoRehash ==
    ASSUME CollisionFree, NEW n, NEW lo, NEW hi, NEW tries, NEW occupied,
           Placement(n, lo, hi, occupied, tries),
           \A i \in lo..hi : VnodeHash[n][i][1] \notin occupied
    PROVE  \A i \in lo..hi : tries[i] = 1
<1>0. /\ n \in Node /\ lo \in Nat \ {0} /\ hi \in lo..MaxVnodes
      /\ tries \in [lo..hi -> 1..MaxProbes]
      /\ Placed(n, lo, hi, occupied, tries)
  BY DEF Placement
<1> DEFINE rehashed == {i \in lo..hi : tries[i] # 1}
<1>1. SUFFICES ASSUME rehashed # {} PROVE FALSE
  OBVIOUS
<1>2. rehashed \subseteq Nat
  BY <1>0
<1>3. PICK x \in rehashed : \A y \in rehashed : x <= y
  BY <1>1, <1>2, LeastNatural
<1>4. \A j \in lo..(x - 1) : j \in lo..hi /\ tries[j] = 1
  BY <1>0, <1>3, RingAssumption
<1>5. VnodeHash[n][x][1] \in occupied \cup {VnodeHash[n][j][tries[j]] : j \in lo..(x - 1)}
  <2>1. 1 \in 1..(tries[x] - 1)
    BY <1>0, <1>3, RingAssumption
  <2> QED BY <2>1, <1>0, <1>3 DEF Placed, FirstFree
<1>6. PICK j \in lo..(x - 1) : VnodeHash[n][x][1] = VnodeHash[n][j][1]
  BY <1>3, <1>4, <1>5
<1>7. x \in 1..MaxVnodes /\ j \in 1..MaxVnodes /\ x # j
  BY <1>0, <1>3, RingAssumption
<1> QED BY <1>0, <1>6, <1>7 DEF CollisionFree

\* The positions of n among "occupied" are those of vnodes numbered below lo.
OwnBelow(n, lo, occupied) ==
    \A p \in occupied : positionToNode[p] = n =>
        \E i \in DOMAIN nodeVnodes[n] : i < lo /\ nodeVnodes[n][i] = p

\* The vnodes new of n, numbered from lo on, are at their own hashes.
AtHome(n, lo, hi, new) ==
    \A k \in 1..(hi - lo + 1) : new[k] = VnodeHash[n][lo + k - 1][1]

\* The new vnodes of a node are at their own hashes when the other vnodes of the
\* ring are, and the node's own are numbered below them.
LEMMA NewVnodesAtHome ==
    ASSUME RingInv, HistoryIndependent, CollisionFree,
           NEW n, NEW lo, NEW hi, NEW tries, NEW occupied,
           occupied \subseteq DOMAIN positionToNode, OwnBelow(n, lo, occupied),
           Placement(n, lo, hi, occupied, tries)
    PROVE  AtHome(n, lo, hi, NewVnodes(n, lo, hi, tries))
<1>0. /\ n \in Node /\ lo \in Nat \ {0} /\ hi \in lo..MaxVnodes
  BY DEF Placement
<1>1. ASSUME NEW i \in lo..hi, VnodeHash[n][i][1] \in occupied PROVE FALSE
  <2> DEFINE p == VnodeHash[n][i][1]
  <2> DEFINE m == positionToNode[p]
  <2>1. i \in 1..MaxVnodes
    BY <1>0, RingAssumption
  <2>2. PICK j \in DOMAIN nodeVnodes[m] : nodeVnodes[m][j] = p
    BY <1>1 DEF RingInv, RingConsistent
  <2>3. m \in RingNodes /\ m \in Node
    BY <1>1 DEF RingInv, RingConsistent, RingTypeOK
  <2>4. j \in 1..MaxVnodes
    BY <2>2, <2>3, RingAssumption DEF RingInv, RingTypeOK, CountsBounded
  <2>5. nodeVnodes[m][j] = VnodeHash[m][j][1]
    BY <2>2, <2>3 DEF HistoryIndependent
  <2>6. m = n /\ j = i
    <3>1. VnodeHash[n][i][1] = VnodeHash[m][j][1]
      BY <2>2, <2>5
    <3> HIDE DEF p, m
    <3> QED BY <3>1, <1>0, <2>1, <2>3, <2>4 DEF CollisionFree
  <2>7. PICK l \in DOMAIN nodeVnodes[n] : l < lo /\ nodeVnodes[n][l] = p
    BY <1>1, <2>6 DEF OwnBelow
  <2>8. l = j
    BY <2>2, <2>3, <2>6, <2>7 DEF RingInv, RingConsistent
  <2> QED BY <1>0, <2>6, <2>7, <2>8
<1>2. \A i \in lo..hi : tries[i] = 1
  <2>1. \A i \in lo..hi : VnodeHash[n][i][1] \notin occupied
    BY <1>1
  <2> QED BY ONLY <2>1, NoRehash, CollisionFree, Placement(n, lo, hi, occupied, tries)
<1>3. \A k \in 1..(hi - lo + 1) : lo + k - 1 \in lo..hi
  BY <1>0, RingAssumption
<1> QED BY <1>2, <1>3 DEF NewVnodes, AtHome

\* Every step leaves each vnode at its own hash when no two hashes are equal.
LEMMA NextHistoryIndependent ==
    ASSUME RingInv, HistoryIndependent, CollisionFree, Next
    PROVE  HistoryIndependent'
<1>1. ASSUME NEW n \in Node, NEW cap \in Capacity, AddNode(n, cap)
      PROVE  HistoryIndependent'
  <2> DEFINE gone == IF n \in RingNodes THEN Range(nodeVnodes[n]) ELSE {}
  <2> DEFINE occupied == DOMAIN positionToNode \ gone
  <2>1. PICK count \in MinCount..MaxVnodes :
           \E tries \in [1..count -> 1..MaxProbes] :
               /\ Placed(n, 1, count, occupied, tries)
               /\ nodeVnodes' = [m \in RingNodes \cup {n} |->
                       IF m = n THEN NewVnodes(n, 1, count, tries) ELSE nodeVnodes[m]]
    BY <1>1 DEF AddNode
  <2>2. PICK tries \in [1..count -> 1..MaxProbes] :
           /\ Placed(n, 1, count, occupied, tries)
           /\ nodeVnodes' = [m \in RingNodes \cup {n} |->
                   IF m = n THEN NewVnodes(n, 1, count, tries) ELSE nodeVnodes[m]]
    BY <2>1
  <2>3. \A p \in occupied : positionToNode[p] # n
    BY DEF RingInv, RingConsistent, Range
  <2>4. OwnBelow(n, 1, occupied) /\ occupied \subseteq DOMAIN positionToNode
    BY <2>3 DEF OwnBelow
  <2>5. \A k \in 1..count : NewVnodes(n, 1, count, tries)[k] = VnodeHash[n][k][1]
    <3>1. Placement(n, 1, count, occupied, tries)
      BY <2>2, RingAssumption DEF Placement
    <3> HIDE DEF occupied
    <3>2. AtHome(n, 1, count, NewVnodes(n, 1, count, tries))
      BY ONLY <2>4, <3>1, NewVnodesAtHome, RingInv, HistoryIndependent, CollisionFree
    <3>3. count - 1 + 1 = count /\ \A k \in 1..count : 1 + k - 1 = k
      BY RingAssumption
    <3> QED BY <3>2, <3>3 DEF AtHome
  <2>6. DOMAIN NewVnodes(n, 1, count, tries) = 1..count
    BY RingAssumption DEF NewVnodes
  <2> QED BY <2>2, <2>5, <2>6 DEF HistoryIndependent, RingNodes
<1>2. ASSUME NEW n \in Node, RemoveNode(n)
      PROVE  HistoryIndependent'
  BY <1>2 DEF RemoveNode, Restrict, HistoryIndependent, RingNodes
<1>3. ASSUME NEW n \in RingNodes, NEW count \in MinCount..MaxVnodes, GrowVnodes(n, count)
      PROVE  HistoryIndependent'
  <2> DEFINE current == Len(nodeVnodes[n])
  <2>1. /\ n \in Node /\ current \in MinCount..MaxVnodes /\ current < count
        /\ nodeVnodes[n] \in Seq(HashPos)
        /\ DOMAIN nodeVnodes[n] = 1..current
    BY <1>3 DEF RingInv, RingTypeOK, CountsBounded, GrowVnodes
  <2>2. PICK tries \in [(current + 1)..count -> 1..MaxProbes] :
           LET new == NewVnodes(n, current + 1, count, tries)
           IN  /\ Placed(n, current + 1, count, DOMAIN positionToNode, tries)
               /\ nodeVnodes' = [nodeVnodes EXCEPT ![n] = @ \o new]
    BY <1>3 DEF GrowVnodes
  <2> DEFINE new == NewVnodes(n, current + 1, count, tries)
  <2>3. Placement(n, current + 1, count, DOMAIN positionToNode, tries)
    BY <2>1, <2>2, RingAssumption DEF Placement
  <2>4. OwnBelow(n, current + 1, DOMAIN positionToNode)
    <3>1. ASSUME NEW p \in DOMAIN positionToNode, positionToNode[p] = n
          PROVE  \E i \in 1..current : nodeVnodes[n][i] = p
      BY <2>1, <3>1 DEF RingInv, RingConsistent
    <3>2. \A i \in 1..current : i < current + 1
      BY <2>1, RingAssumption
    <3> QED BY <2>1, <3>1, <3>2 DEF OwnBelow
  <2>5. count - (current + 1) + 1 = count - current
    BY <2>1, RingAssumption
  <2>6. nodeVnodes' = [nodeVnodes EXCEPT ![n] = nodeVnodes[n] \o new]
    BY <2>2
  <2>a. Len(nodeVnodes[n]) = current
    OBVIOUS
  <2> HIDE DEF current
  <2>7. \A k \in 1..(count - current) : new[k] = VnodeHash[n][(current + 1) + k - 1][1]
    <3>1. AtHome(n, current + 1, count, new)
      BY ONLY <2>3, <2>4, NewVnodesAtHome, RingInv, HistoryIndependent, CollisionFree
    <3> HIDE DEF new
    <3> QED BY <3>1, <2>5 DEF AtHome
  <2>8. new \in Seq(HashPos) /\ Len(new) = count - current
    <3>1. FreeVnodes(new, count - (current + 1) + 1, DOMAIN positionToNode)
      BY ONLY <2>3, NewVnodesAreFree
    <3> HIDE DEF new
    <3> QED BY <3>1, <2>5 DEF FreeVnodes
  <2> HIDE DEF new
  <2> DEFINE grown == nodeVnodes[n] \o new
  <2>9. /\ Len(grown) = current + (count - current) /\ grown \in Seq(HashPos)
        /\ \A i \in 1..(current + (count - current)) :
              grown[i] = IF i <= current THEN nodeVnodes[n][i] ELSE new[i - current]
    <3>1. nodeVnodes[n] \in Seq(HashPos) /\ new \in Seq(HashPos)
      BY <2>1, <2>8
    <3>2. /\ Len(grown) = Len(nodeVnodes[n]) + Len(new) /\ grown \in Seq(HashPos)
          /\ \A i \in 1..(Len(nodeVnodes[n]) + Len(new)) :
                grown[i] = IF i <= Len(nodeVnodes[n]) THEN nodeVnodes[n][i]
                                                      ELSE new[i - Len(nodeVnodes[n])]
      BY ONLY <3>1, ConcatProperties
    <3> HIDE DEF grown
    <3> QED BY <3>2, <2>8, <2>a
  <2> HIDE DEF grown
  <2>10. ASSUME NEW i \in DOMAIN grown PROVE grown[i] = VnodeHash[n][i][1]
    <3>1. i \in 1..count /\ current + (count - current) = count
      BY <2>1, <2>9
    <3>2. CASE i <= current
      <4>1. i \in DOMAIN nodeVnodes[n] /\ grown[i] = nodeVnodes[n][i]
        BY <3>1, <3>2, <2>1, <2>9
      <4> QED BY <4>1 DEF HistoryIndependent
    <3>3. CASE i > current
      <4>1. i - current \in 1..(count - current) /\ (current + 1) + (i - current) - 1 = i
        BY <3>1, <3>3, <2>1, RingAssumption
      <4>2. grown[i] = new[i - current]
        BY <3>1, <3>3, <2>1, <2>9
      <4> QED BY <4>1, <4>2, <2>7
    <3> QED BY <3>1, <3>2, <3>3, <2>1
  <2>11. nodeVnodes' = [nodeVnodes EXCEPT ![n] = grown]
    BY <2>6 DEF grown
  <2> QED BY <2>10, <2>11 DEF HistoryIndependent, RingNodes
<1>4. ASSUME NEW n \in RingNodes, NEW count \in MinCount..MaxVnodes, ShrinkVnodes(n, count)
      PROVE  HistoryIndependent'
  <2> DEFINE short == SubSeq(nodeVnodes[n], 1, count)
  <2>1. nodeVnodes' = [nodeVnodes EXCEPT ![n] = short] /\ count < Len(nodeVnodes[n])
    BY <1>4 DEF ShrinkVnodes
  <2>2. /\ nodeVnodes[n] \in Seq(HashPos) /\ Len(nodeVnodes[n]) \in Nat
        /\ DOMAIN nodeVnodes[n] = 1..Len(nodeVnodes[n])
    BY DEF RingInv, RingTypeOK
  <2>3. \A i \in 1..count : i \in DOMAIN nodeVnodes[n] /\ nodeVnodes[n][i] \in HashPos
    BY <2>1, <2>2, RingAssumption
  <2>4. /\ short \in Seq(HashPos) /\ Len(short) = IF 1 <= count THEN count - 1 + 1 ELSE 0
        /\ \A i \in 1..(count - 1 + 1) : short[i] = nodeVnodes[n][1 + i - 1]
    BY ONLY <2>3, SubSeqProperties, 1 \in Int, count \in Int, RingAssumption
  <2> HIDE DEF short
  <2>5. DOMAIN short = 1..count /\ \A i \in 1..count : short[i] = nodeVnodes[n][i]
    BY <2>4, RingAssumption
  <2> QED BY <2>1, <2>3, <2>5 DEF HistoryIndependent, RingNodes
<1>5. ASSUME NEW n \in Node, NEW newCount \in 0..MaxVnodes, UpdateNodeVnodes(n, newCount)
      PROVE  HistoryIndependent'
  <2> DEFINE count == IF newCount > MinCount THEN newCount ELSE MinCount
  <2>1. count \in MinCount..MaxVnodes
    BY RingAssumption
  <2>2. n \in RingNodes /\ (GrowVnodes(n, count) \/ ShrinkVnodes(n, count))
    BY <1>5 DEF UpdateNodeVnodes
  <2> QED BY <2>1, <2>2, <1>3, <1>4
<1> QED BY <1>1, <1>2, <1>5 DEF Next

\* When no vnode keys collide, the ring is a function of the vnode counts: it
\* does not depend on the order in which nodes came, left and were resized.
THEOREM HistoryIndependence == Spec => []HistoryIndependent
<1>1. Init => HistoryIndependent
  BY DEF Init, HistoryIndependent, RingNodes
<1>2. RingInv /\ HistoryIndependent /\ [Next]_ringVars => HistoryIndependent'
  <2>1. CASE ~CollisionFree
    BY <2>1 DEF HistoryIndependent, CollisionFree
  <2>2. CASE CollisionFree /\ Next
    BY <2>2, NextHistoryIndependent
  <2>3. CASE UNCHANGED ringVars
    BY <2>3 DEF ringVars, HistoryIndependent, RingNodes
  <2> QED BY <2>1, <2>2, <2>3
<1> QED BY <1>1, <1>2, RingInvariance, PTL DEF Spec

-----------------------------------------------------------------------------
\* get_candidates: the positions as they are met clockwise from a key.

Below(S, h) == {q \in S : q < h}

\* bisect_left is monotone.
LEMMA BelowMonotone ==
    ASSUME NEW S, S \subseteq Nat, IsFiniteSet(S), NEW h \in Nat, NEW p \in S
    PROVE  /\ Cardinality(Below(S, h)) \in 0..Cardinality(S) /\ Cardinality(S) \in Nat
           /\ Cardinality(Below(S, p)) \in 0..(Cardinality(S) - 1)
           /\ h <= p => Cardinality(Below(S, h)) <= Cardinality(Below(S, p))
           /\ p < h => Cardinality(Below(S, p)) < Cardinality(Below(S, h))
<1>1. /\ IsFiniteSet(Below(S, h)) /\ Cardinality(Below(S, h)) <= Cardinality(S)
      /\ IsFiniteSet(Below(S, p)) /\ Cardinality(Below(S, p)) <= Cardinality(S)
      /\ IsFiniteSet(Below(S, p) \cup {p})
      /\ Cardinality(Below(S, p) \cup {p}) = Cardinality(Below(S, p)) + 1
  <2>1. Below(S, h) \in SUBSET S /\ Below(S, p) \in SUBSET S /\ p \notin Below(S, p)
    BY DEF Below
  <2>2. IsFiniteSet(Below(S, h)) /\ IsFiniteSet(Below(S, p))
    BY <2>1, FS_Subset
  <2> QED BY <2>1, <2>2, FS_Subset, FS_AddElement
<1>2. /\ Cardinality(S) \in Nat /\ Cardinality(Below(S, h)) \in Nat
      /\ Cardinality(Below(S, p)) \in Nat
  BY <1>1, FS_CardinalityType
<1>3. Cardinality(Below(S, p)) + 1 <= Cardinality(S)
  <2>1. Below(S, p) \cup {p} \in SUBSET S
    BY DEF Below
  <2> QED BY <1>1, <2>1, FS_Subset
<1>4. ASSUME h <= p PROVE Cardinality(Below(S, h)) <= Cardinality(Below(S, p))
  <2>1. ASSUME NEW q \in Below(S, h) PROVE q \in Below(S, p)
    <3>1. q \in S /\ q \in Nat /\ p \in Nat /\ q < h
      BY DEF Below
    <3> QED BY <1>4, <3>1 DEF Below
  <2> QED BY <1>1, <2>1, FS_Subset
<1>5. ASSUME p < h PROVE Cardinality(Below(S, p)) + 1 <= Cardinality(Below(S, h))
  <2>1. ASSUME NEW q \in Below(S, p) \cup {p} PROVE q \in Below(S, h)
    <3>1. q \in S /\ q \in Nat /\ p \in Nat /\ q <= p
      BY DEF Below
    <3> QED BY <1>5, <3>1 DEF Below
  <2> QED BY <1>1, <2>1, FS_Subset
<1> QED BY <1>1, <1>2, <1>3, <1>4, <1>5

\* Every index of the sorted list has one position.
LEMMA IndexHasPosition ==
    ASSUME NEW S, S \subseteq Nat, IsFiniteSet(S), NEW k \in 0..(Cardinality(S) - 1)
    PROVE  \E p \in S : Cardinality(Below(S, p)) = k
<1> DEFINE f == [p \in S |-> Cardinality(Below(S, p))]
           T == 0..(Cardinality(S) - 1)
<1>1. Cardinality(S) \in Nat
  BY FS_CardinalityType
<1>2. \A p \in S : f[p] \in T
  BY BelowMonotone
<1>3. \A p, q \in S : f[p] = f[q] => p = q
  <2>1. SUFFICES ASSUME NEW p \in S, NEW q \in S, p # q PROVE f[p] # f[q]
    OBVIOUS
  <2>2. /\ f[p] \in Nat /\ f[q] \in Nat /\ p \in Nat /\ q \in Nat
    BY <1>1, <1>2
  <2>3. (p < q => f[p] < f[q]) /\ (q < p => f[q] < f[p])
    BY <2>2, BelowMonotone
  <2> HIDE DEF f
  <2> QED BY <2>1, <2>2, <2>3
<1>4. f \in Injection(S, T)
  <2>1. f \in [S -> T]
    BY <1>2
  <2> HIDE DEF f, T
  <2> QED BY <1>3, <2>1 DEF Injection, IsInjective
<1>5. IsFiniteSet(T) /\ Cardinality(T) = Cardinality(S)
  BY <1>1, FS_Interval
<1>6. f \in Surjection(S, T)
  BY <1>4, <1>5, FS_Injection
<1>7. \E p \in S : f[p] = k
  BY <1>6 DEF Surjection
<1> QED BY <1>7

LEMMA RingIsFinite ==
    ASSUME RingInv
    PROVE  /\ positions \subseteq Nat /\ positions \subseteq HashPos /\ IsFiniteSet(positions)
           /\ Cardinality(positions) \in Nat /\ HashSpace \in Nat /\ HashPos = 0..(HashSpace - 1)
<1>1. HashPos = 0..(HashSpace - 1) /\ HashSpace \in Nat /\ positions \subseteq HashPos
  BY RingAssumption DEF HashPos, RingInv, RingTypeOK
<1>2. IsFiniteSet(HashPos)
  BY <1>1, FS_Interval
<1>3. IsFiniteSet(positions)
  BY <1>1, <1>2, FS_Subset
<1> QED BY <1>1, <1>3, FS_CardinalityType

\* PositionAt finds it.
LEMMA PositionAtIndex ==
    ASSUME RingInv, NEW k \in 0..(Cardinality(positions) - 1)
    PROVE  PositionAt(k) \in positions /\ Cardinality(Below(positions, PositionAt(k))) = k
<1>1. \E p \in positions : Cardinality({q \in positions : q < p}) = k
  BY RingIsFinite, IndexHasPosition DEF Below
<1> QED BY <1>1 DEF PositionAt, Below

\* The clockwise distance, without the remainder.
LEMMA DistanceIs ==
    ASSUME NEW h \in HashPos, NEW p \in HashPos
    PROVE  Distance(h, p) = (IF h <= p THEN p - h ELSE p - h + HashSpace)
           /\ Distance(h, p) \in Nat
<1>1. h \in 0..(HashSpace - 1) /\ p \in 0..(HashSpace - 1) /\ HashSpace \in Nat \ {0}
  BY RingAssumption DEF HashPos
<1>2. CASE h <= p
  <2>1. p - h + HashSpace = 1 * HashSpace + (p - h) /\ p - h \in 0..(HashSpace - 1)
    BY <1>1, <1>2
  <2>2. (p - h + HashSpace) % HashSpace = p - h
    BY <1>1, <2>1
  <2> QED BY <1>1, <1>2, <2>2 DEF Distance
<1>3. CASE ~(h <= p)
  <2>1. p - h + HashSpace \in 0..(HashSpace - 1)
    BY <1>1, <1>3
  <2>2. (p - h + HashSpace) % HashSpace = p - h + HashSpace
    BY <1>1, <2>1
  <2> QED BY <1>1, <1>3, <2>1, <2>2 DEF Distance
<1> QED BY <1>2, <1>3

\* place lists the positions in the order in which they are met from h.
Clockwise(h, place) ==
    /\ place \in [1..Cardinality(positions) -> positions]
    /\ \A i, j \in 1..Cardinality(positions) :
          i < j => Distance(h, place[i]) < Distance(h, place[j])
    /\ \A p \in positions : \E i \in 1..Cardinality(positions) : place[i] = p
    /\ Walk(h) = [i \in 1..Cardinality(positions) |-> positionToNode[place[i]]]

LEMMA WalkIsClockwise ==
    ASSUME RingInv, NEW h \in HashPos
    PROVE  \E place : Clockwise(h, place)
<1> DEFINE total == Cardinality(positions)
           b == BisectLeft(h)
           index(i) == (b + i - 1) % total
           place == [i \in 1..total |-> PositionAt(index(i))]
           rank(p) == Cardinality(Below(positions, p))
<1>1. /\ positions \subseteq Nat /\ positions \subseteq HashPos /\ IsFiniteSet(positions)
      /\ total \in Nat /\ HashSpace \in Nat /\ h \in 0..(HashSpace - 1) /\ h \in Nat
      /\ HashPos = 0..(HashSpace - 1)
  BY RingIsFinite
<1>2. b = Cardinality(Below(positions, h))
  BY DEF BisectLeft, Below
<1>3. \A p \in positions :
         /\ b \in 0..total /\ rank(p) \in 0..(total - 1)
         /\ h <= p => b <= rank(p)
         /\ p < h => rank(p) < b
  BY <1>1, <1>2, BelowMonotone
<1>4. \A p, q \in positions : rank(p) < rank(q) => p < q
  <2> SUFFICES ASSUME NEW p \in positions, NEW q \in positions, rank(p) < rank(q) PROVE p < q
    OBVIOUS
  <2>1. p \in Nat /\ q \in Nat /\ rank(p) \in Nat /\ rank(q) \in Nat
    BY <1>1, <1>3
  <2>2. q <= p => rank(q) <= rank(p)
    BY <1>1, <2>1, BelowMonotone
  <2> HIDE DEF rank
  <2> QED BY <2>1, <2>2
<1> HIDE DEF b
<1>5. ASSUME NEW i \in 1..total
      PROVE  /\ b \in 0..total
             /\ index(i) = (IF b + i - 1 < total THEN b + i - 1 ELSE b + i - 1 - total)
             /\ index(i) \in 0..(total - 1)
  <2>1. PICK p : p \in positions
    <3>1. positions # {}
      BY <1>1, FS_EmptySet
    <3> QED BY <3>1
  <2>2. b \in 0..total /\ total \in Nat \ {0}
    BY <1>1, <1>3, <2>1
  <2> HIDE DEF total
  <2>3. CASE b + i - 1 < total
    <3>1. b + i - 1 \in 0..(total - 1)
      BY <2>2, <2>3
    <3>2. (b + i - 1) % total = b + i - 1
      BY <2>2, <3>1
    <3> QED BY <2>2, <2>3, <3>1, <3>2
  <2>4. CASE ~ (b + i - 1 < total)
    <3>1. b + i - 1 - total \in 0..(total - 1) /\ b + i - 1 = 1 * total + (b + i - 1 - total)
      BY <2>2, <2>4
    <3>2. (b + i - 1) % total = b + i - 1 - total
      BY <2>2, <3>1
    <3> QED BY <2>2, <2>4, <3>1, <3>2
  <2> QED BY <2>3, <2>4
<1>6. \A i \in 1..total : /\ place[i] \in positions /\ place[i] \in HashPos /\ place[i] \in Nat
                          /\ rank(place[i]) = index(i)
  <2> SUFFICES ASSUME NEW i \in 1..total
               PROVE  PositionAt(index(i)) \in positions /\ rank(PositionAt(index(i))) = index(i)
    BY <1>1
  <2>1. index(i) \in 0..(total - 1)
    BY <1>5
  <2> HIDE DEF index
  <2> QED BY <2>1, PositionAtIndex
<1> HIDE DEF place, index, rank, total
<1>7. ASSUME NEW i \in 1..total, NEW j \in 1..total, i < j
      PROVE  Distance(h, place[i]) < Distance(h, place[j])
  <2> DEFINE p == place[i]
             q == place[j]
  <2>1. /\ p \in positions /\ q \in positions /\ p \in HashPos /\ q \in HashPos
        /\ rank(p) = index(i) /\ rank(q) = index(j)
    BY <1>6
  <2>2. /\ index(i) = (IF b + i - 1 < total THEN b + i - 1 ELSE b + i - 1 - total)
        /\ index(j) = (IF b + j - 1 < total THEN b + j - 1 ELSE b + j - 1 - total)
        /\ b \in 0..total
    BY <1>5
  <2>3. (h <= p => b <= rank(p)) /\ (p < h => rank(p) < b)
        /\ (h <= q => b <= rank(q)) /\ (q < h => rank(q) < b)
        /\ (rank(p) < rank(q) => p < q)
    BY <1>3, <1>4, <2>1
  <2>4. /\ Distance(h, p) = (IF h <= p THEN p - h ELSE p - h + HashSpace)
        /\ Distance(h, q) = (IF h <= q THEN q - h ELSE q - h + HashSpace)
    BY <2>1, DistanceIs
  <2>5. p \in 0..(HashSpace - 1) /\ q \in 0..(HashSpace - 1) /\ i \in Nat /\ j \in Nat
    BY <1>1, <2>1
  <2> HIDE DEF p, q
  <2>6. CASE b + i - 1 < total /\ b + j - 1 < total
    <3>1. h <= p /\ h <= q /\ p < q
      BY <1>1, <1>7, <2>1, <2>2, <2>3, <2>5, <2>6
    <3> QED BY <1>1, <2>4, <2>5, <3>1 DEF p, q
  <2>7. CASE b + i - 1 < total /\ ~(b + j - 1 < total)
    <3>1. h <= p /\ q < h
      BY <1>1, <1>7, <2>1, <2>2, <2>3, <2>5, <2>7
    <3> QED BY <1>1, <2>4, <2>5, <3>1 DEF p, q
  <2>8. CASE ~(b + i - 1 < total)
    <3>1. p < h /\ q < h /\ p < q
      BY <1>1, <1>7, <2>1, <2>2, <2>3, <2>5, <2>8
    <3> QED BY <1>1, <2>4, <2>5, <3>1 DEF p, q
  <2> QED BY <2>6, <2>7, <2>8
<1>8. ASSUME NEW p \in positions PROVE \E i \in 1..total : place[i] = p
  <2>1. rank(p) \in 0..(total - 1) /\ b \in 0..total
    BY <1>3
  <2>2. PICK i \in 1..total : index(i) = rank(p)
    <3>1. CASE b <= rank(p)
      <4>1. rank(p) - b + 1 \in 1..total /\ b + (rank(p) - b + 1) - 1 = rank(p)
        BY <1>1, <2>1, <3>1
      <4> QED BY <1>1, <1>5, <2>1, <4>1
    <3>2. CASE rank(p) < b
      <4>1. rank(p) - b + 1 + total \in 1..total /\ b + (rank(p) - b + 1 + total) - 1 = rank(p) + total
        BY <1>1, <2>1, <3>2
      <4> QED BY <1>1, <1>5, <2>1, <4>1
    <3> QED BY <1>1, <2>1, <3>1, <3>2
  <2>3. rank(place[i]) = rank(p) /\ place[i] \in positions
    BY <1>6, <2>2
  <2>4. ~(place[i] < p) /\ ~(p < place[i])
    <3>1. rank(p) \in Int
      BY <2>1
    <3>2. \A q \in positions : q < p => rank(q) < rank(p)
      BY <1>1, BelowMonotone DEF rank
    <3>3. \A q \in positions : p < q => rank(p) < rank(q)
      BY <1>1, BelowMonotone DEF rank
    <3> QED BY <2>3, <3>1, <3>2, <3>3
  <2>5. place[i] \in Nat /\ p \in Nat
    BY <1>1, <2>3
  <2> QED BY <2>4, <2>5
<1>9. place \in [1..total -> positions]
  <2>1. place = [i \in 1..total |-> place[i]]
    BY DEF place
  <2> QED BY <1>6, <2>1
<1>10. Walk(h) = [i \in 1..total |-> positionToNode[place[i]]]
  BY DEF Walk, total, place, index, b
<1>11. Clockwise(h, place)
  BY <1>7, <1>8, <1>9, <1>10 DEF Clockwise, total
<1> QED BY <1>11

-----------------------------------------------------------------------------
\* The fold over the nodes met.

\* Induction up to n, over the set of the numbers for which a fact holds.
LEMMA UpTo ==
    ASSUME NEW n \in Nat, NEW S, 0 \in S,
           \A k \in 1..n : k - 1 \in S => k \in S
    PROVE  0..n \subseteq S
<1> DEFINE T == {k \in 0..n : k \notin S}
<1> SUFFICES ASSUME T # {} PROVE FALSE
  OBVIOUS
<1>1. PICK m \in T : \A y \in T : m <= y
  <2>1. T \subseteq Nat
    OBVIOUS
  <2> HIDE DEF T
  <2> QED BY <2>1, LeastNatural
<1>2. m \in 1..n /\ m - 1 \in 0..n /\ m \notin S /\ ~(m <= m - 1)
  BY <1>1
<1>3. m - 1 \in S
  BY <1>1, <1>2
<1> QED BY <1>2, <1>3

\* Max finds the greatest of a set of indices.
LEMMA MaxIsGreatest ==
    ASSUME NEW k \in Nat, NEW s, s \subseteq 1..k, s # {}
    PROVE  Max(s) \in s /\ \A y \in s : y <= Max(s)
<1> DEFINE T == {k - x : x \in s}
<1>0. \A y \in s : y \in Nat /\ k - y \in Nat
  <2> SUFFICES ASSUME NEW y \in s PROVE y \in Nat /\ k - y \in Nat
    OBVIOUS
  <2>1. y \in 1..k
    OBVIOUS
  <2> QED BY <2>1
<1>1. T \subseteq Nat /\ T # {}
  BY <1>0
<1>2. PICK z \in T : \A y \in T : z <= y
  <2> HIDE DEF T
  <2> QED BY <1>1, LeastNatural
<1>3. PICK x \in s : z = k - x
  BY <1>2
<1>4. \A y \in s : x >= y
  <2> SUFFICES ASSUME NEW y \in s PROVE x >= y
    OBVIOUS
  <2>1. k - x <= k - y
    BY <1>2, <1>3
  <2>2. x \in Nat /\ y \in Nat
    BY <1>0, <1>3
  <2> QED BY <2>1, <2>2
<1>5. Max(s) \in s /\ \A y \in s : Max(s) >= y
  BY <1>3, <1>4 DEF Max
<1> QED BY <1>0, <1>5

\* What the fold over the first k of walk is defined by.
Folds(g, k, walk, count) ==
    g = [s \in SUBSET (1..k) |->
            IF s = {} THEN <<>> ELSE Collect(g[s \ {Max(s)}], walk[Max(s)], count)]

LEMMA FoldExists ==
    ASSUME NEW n \in Nat, NEW walk, NEW count
    PROVE  \E g : Folds(g, n, walk, count)
<1> DEFINE S == {k \in 0..n : \E g : Folds(g, k, walk, count)}
<1>1. 0 \in S
  <2> DEFINE g == [s \in SUBSET (1..0) |-> <<>>]
  <2>1. \A s \in SUBSET (1..0) : s = {}
    OBVIOUS
  <2>2. g = [s \in SUBSET (1..0) |->
                IF s = {} THEN <<>> ELSE Collect(g[s \ {Max(s)}], walk[Max(s)], count)]
    BY <2>1
  <2>3. Folds(g, 0, walk, count)
    BY <2>2 DEF Folds
  <2> QED BY <2>3
<1>2. ASSUME NEW k \in 1..n, k - 1 \in S PROVE k \in S
  <2>1. PICK f : Folds(f, k - 1, walk, count)
    BY <1>2
  <2> DEFINE g == [s \in SUBSET (1..k) |->
                      IF k \in s THEN Collect(f[s \ {k}], walk[k], count) ELSE f[s]]
             body(s) == IF s = {} THEN <<>> ELSE Collect(g[s \ {Max(s)}], walk[Max(s)], count)
  <2>2. k \in Nat /\ k # 0
    OBVIOUS
  <2>3. \A s \in SUBSET (1..k) : k \notin s => s \in SUBSET (1..(k - 1)) /\ g[s] = f[s]
    OBVIOUS
  <2>4. ASSUME NEW s \in SUBSET (1..k) PROVE g[s] = body(s)
    <3>1. CASE k \in s
      <4>1. Max(s) = k
        <5>1. Max(s) \in s /\ k <= Max(s) /\ Max(s) \in 1..k
          BY <2>2, <3>1, MaxIsGreatest
        <5> QED BY <2>2, <5>1
      <4>2. s \ {k} \in SUBSET (1..k) /\ k \notin s \ {k}
        OBVIOUS
      <4>3. g[s \ {k}] = f[s \ {k}]
        BY <2>3, <4>2
      <4>4. g[s] = Collect(f[s \ {k}], walk[k], count)
        BY <3>1
      <4> HIDE DEF g
      <4> QED BY <3>1, <4>1, <4>3, <4>4
    <3>2. CASE k \notin s
      <4>1. g[s] = f[s] /\ s \in SUBSET (1..(k - 1))
        BY <2>3, <3>2
      <4>2. f[s] = IF s = {} THEN <<>> ELSE Collect(f[s \ {Max(s)}], walk[Max(s)], count)
        BY <2>1, <4>1 DEF Folds
      <4>3. s \ {Max(s)} \in SUBSET (1..k) /\ k \notin s \ {Max(s)}
        BY <3>2
      <4>4. g[s \ {Max(s)}] = f[s \ {Max(s)}]
        BY <2>3, <4>3
      <4> HIDE DEF g
      <4> QED BY <4>1, <4>2, <4>4
    <3> QED BY <3>1, <3>2
  <2>5. g = [s \in SUBSET (1..k) |-> g[s]]
    OBVIOUS
  <2> HIDE DEF g
  <2>6. g = [s \in SUBSET (1..k) |-> body(s)]
    BY <2>4, <2>5
  <2>7. Folds(g, k, walk, count)
    BY <2>6 DEF Folds
  <2> QED BY <2>7
<1> HIDE DEF S
<1>3. n \in S
  <2>1. 0..n \subseteq S
    BY <1>1, <1>2, UpTo
  <2> QED BY <2>1
<1> QED BY <1>3 DEF S

\* get_candidates, one node of the walk at a time: seen[i] is what the first i leave.
LEMMA CandidatesStepwise ==
    ASSUME NEW h, NEW count, NEW S, Walk(h) \in Seq(S)
    PROVE  \E seen : /\ seen[0] = <<>>
                     /\ \A i \in 1..Len(Walk(h)) :
                           seen[i] = Collect(seen[i - 1], Walk(h)[i], count)
                     /\ GetCandidates(h, count) = seen[Len(Walk(h))]
<1> DEFINE walk == Walk(h)
           n == Len(walk)
           iter == CHOOSE g : Folds(g, n, walk, count)
           seen == [i \in 0..n |-> iter[1..i]]
<1>1. n \in Nat /\ DOMAIN walk = 1..n
  OBVIOUS
<1>2. Folds(iter, n, walk, count)
  <2>1. \E g : Folds(g, n, walk, count)
    BY <1>1, FoldExists
  <2> QED BY <2>1
<1>3. GetCandidates(h, count) = iter[DOMAIN walk]
  <2>1. GetCandidates(h, count)
          = (CHOOSE g : g = [s \in SUBSET DOMAIN walk |->
                IF s = {} THEN <<>>
                ELSE Collect(g[s \ {Max(s)}], walk[Max(s)], count)])[DOMAIN walk]
    BY DEF GetCandidates, FoldLeft, MapThenFoldSet
  <2> HIDE DEF walk
  <2> QED BY <1>1, <2>1 DEF Folds
<1> HIDE DEF walk, n, iter
<1>4. \A s \in SUBSET (1..n) :
         iter[s] = IF s = {} THEN <<>> ELSE Collect(iter[s \ {Max(s)}], walk[Max(s)], count)
  BY <1>2 DEF Folds
<1>5. seen[0] = <<>>
  <2>1. 1..0 = {} /\ {} \in SUBSET (1..n)
    OBVIOUS
  <2>2. iter[{}] = <<>>
    BY <1>4, <2>1
  <2> QED BY <1>1, <2>1, <2>2
<1>6. ASSUME NEW i \in 1..n PROVE seen[i] = Collect(seen[i - 1], walk[i], count)
  <2>1. 1..i \in SUBSET (1..n) /\ 1..i # {}
    <3>1. i \in 1..i /\ \A j \in 1..i : j \in 1..n
      BY <1>1
    <3> QED BY <3>1
  <2>2. Max(1..i) = i
    <3>1. i \in Nat /\ 1..i \subseteq 1..i
      BY <1>1
    <3>2. i \in 1..i
      BY <1>1
    <3>3. Max(1..i) \in 1..i /\ \A y \in 1..i : y <= Max(1..i)
      BY ONLY <3>1, <3>2, MaxIsGreatest
    <3> QED BY <3>1, <3>2, <3>3
  <2>3. (1..i) \ {i} = 1..(i - 1)
    BY <1>1
  <2>4. iter[1..i] = Collect(iter[1..(i - 1)], walk[i], count)
    BY <1>4, <2>1, <2>2, <2>3
  <2>5. i \in 0..n /\ i - 1 \in 0..n
    BY <1>1
  <2> QED BY <2>4, <2>5
<1>7. GetCandidates(h, count) = seen[n]
  <2>1. seen[n] = iter[1..n]
    BY <1>1
  <2> QED BY <1>1, <1>3, <2>1
<1> HIDE DEF seen
<1> QED BY <1>5, <1>6, <1>7 DEF walk, n

\* On walk some visit to m is before all visits to n.
Precedes(walk, m, n) ==
    \E i \in 1..Len(walk) : walk[i] = m /\ \A j \in 1..Len(walk) : walk[j] = n => i < j

\* What the first k of walk leave: nodes met, in the order in which they are met first,
\* and all of them unless there are enough.
Collected(seen, walk, k, count) ==
    /\ \A a \in 1..Len(seen) : \E i \in 1..k : walk[i] = seen[a]
    /\ \A a, b \in 1..Len(seen) : a < b => Precedes(walk, seen[a], seen[b])
    /\ Len(seen) <= count
    /\ \A i \in 1..k :
          \/ \E a \in 1..Len(seen) : seen[a] = walk[i]
          \/ Len(seen) = count /\ \A a \in 1..Len(seen) : Precedes(walk, seen[a], walk[i])

\* One more node is looked at.
LEMMA CollectKeeps ==
    ASSUME NEW S, NEW walk \in Seq(S), NEW k \in 1..Len(walk), NEW seen \in Seq(S),
           NEW count \in Nat, Collected(seen, walk, k - 1, count)
    PROVE  /\ Collect(seen, walk[k], count) \in Seq(S)
           /\ Collected(Collect(seen, walk[k], count), walk, k, count)
<1> DEFINE x == walk[k]
           new == Collect(seen, x, count)
<1>1. x \in S /\ Len(seen) \in Nat /\ Len(walk) \in Nat /\ k \in Nat
      /\ \A i \in 1..k : i \in 1..(k - 1) \/ i = k
  OBVIOUS
<1>2. CASE \E i \in 1..Len(seen) : seen[i] = x
  <2>1. new = seen
    BY <1>2 DEF Collect, Contains
  <2>2. \A i \in 1..(k - 1) : i \in 1..k
    BY <1>1
  <2> HIDE DEF new
  <2>3. Collected(seen, walk, k, count)
    BY <1>1, <1>2, <2>2 DEF Collected
  <2> QED BY <2>1, <2>3 DEF new
<1>3. CASE ~(\E i \in 1..Len(seen) : seen[i] = x) /\ ~(Len(seen) < count)
  <2>1. new = seen /\ Len(seen) = count
    BY <1>1, <1>3 DEF Collect, Contains, Collected
  <2>2. \A a \in 1..Len(seen) : Precedes(walk, seen[a], x)
    <3>1. CASE \E i \in 1..(k - 1) : walk[i] = x
      BY <1>3, <3>1 DEF Collected
    <3>2. CASE ~ \E i \in 1..(k - 1) : walk[i] = x
      <4> SUFFICES ASSUME NEW a \in 1..Len(seen) PROVE Precedes(walk, seen[a], x)
        OBVIOUS
      <4>1. PICK i \in 1..(k - 1) : walk[i] = seen[a]
        BY DEF Collected
      <4>2. i \in 1..Len(walk) /\ i \in Nat /\ i < k
        BY <1>1
      <4>3. \A j \in 1..Len(walk) : walk[j] = x => i < j
        BY <1>1, <3>2, <4>2
      <4> QED BY <4>1, <4>2, <4>3 DEF Precedes
    <3> QED BY <3>1, <3>2
  <2>3. \A i \in 1..(k - 1) : i \in 1..k
    BY <1>1
  <2> HIDE DEF new
  <2>4. Collected(seen, walk, k, count)
    BY <1>1, <2>1, <2>2, <2>3 DEF Collected
  <2> QED BY <2>1, <2>4 DEF new
<1>4. CASE ~(\E i \in 1..Len(seen) : seen[i] = x) /\ Len(seen) < count
  <2>1. /\ new = Append(seen, x) /\ new \in Seq(S) /\ Len(new) = Len(seen) + 1
        /\ \A a \in 1..Len(seen) : new[a] = seen[a] /\ a \in 1..Len(new)
        /\ new[Len(seen) + 1] = x /\ Len(seen) + 1 \in 1..Len(new)
        /\ \A a \in 1..Len(new) : a \in 1..Len(seen) \/ a = Len(seen) + 1
    <3>1. new = Append(seen, x)
      BY <1>4 DEF Collect, Contains
    <3> HIDE DEF new
    <3> QED BY <1>1, <3>1
  <2> HIDE DEF new
  <2>2. \A i \in 1..(k - 1) : i \in 1..k /\ \E a \in 1..Len(seen) : seen[a] = walk[i]
    BY <1>1, <1>4 DEF Collected
  <2>3. \A a \in 1..Len(new) : \E i \in 1..k : walk[i] = new[a]
    <3>1. \A a \in 1..Len(seen) : \E i \in 1..(k - 1) : walk[i] = seen[a]
      BY DEF Collected
    <3>2. k \in 1..k /\ walk[k] = x
      BY <1>1
    <3>3. \A a \in 1..Len(seen) : \E i \in 1..k : walk[i] = new[a]
      BY <2>1, <2>2, <3>1
    <3>4. \E i \in 1..k : walk[i] = new[Len(seen) + 1]
      BY <2>1, <3>2
    <3> HIDE DEF x
    <3> QED BY ONLY <2>1, <3>3, <3>4
  <2>4. \A a \in 1..Len(seen) : Precedes(walk, seen[a], x)
    <3> SUFFICES ASSUME NEW a \in 1..Len(seen) PROVE Precedes(walk, seen[a], x)
      OBVIOUS
    <3>1. PICK i \in 1..(k - 1) : walk[i] = seen[a]
      BY DEF Collected
    <3>2. i \in 1..Len(walk) /\ i \in Nat /\ i < k
      BY <1>1
    <3>3. \A j \in 1..Len(walk) : walk[j] = x => i < j
      <4> SUFFICES ASSUME NEW j \in 1..Len(walk), walk[j] = x, ~(i < j) PROVE FALSE
        OBVIOUS
      <4>1. j \in 1..(k - 1)
        BY <1>1, <3>2
      <4> QED BY <1>4, <2>2, <4>1
    <3> QED BY <3>1, <3>2, <3>3 DEF Precedes
  <2>5. ASSUME NEW a \in 1..Len(new), NEW b \in 1..Len(new), a < b
        PROVE  Precedes(walk, new[a], new[b])
    <3>1. a \in 1..Len(seen)
      <4>1. ~(a = Len(seen) + 1 /\ b = Len(seen) + 1)
        BY <1>1, <2>5
      <4>2. ~(a = Len(seen) + 1 /\ b \in 1..Len(seen))
        BY <1>1, <2>5
      <4> QED BY <2>1, <4>1, <4>2
    <3>2. CASE b \in 1..Len(seen)
      <4>1. Precedes(walk, seen[a], seen[b])
        BY <2>5, <3>1, <3>2 DEF Collected
      <4> QED BY <2>1, <3>1, <3>2, <4>1
    <3>3. CASE b = Len(seen) + 1
      BY <2>1, <2>4, <3>1, <3>3
    <3> QED BY <2>1, <3>2, <3>3
  <2>6. \A i \in 1..k : \E a \in 1..Len(new) : new[a] = walk[i]
    BY <1>1, <2>1, <2>2
  <2>7. Len(new) <= count
    BY <1>1, <1>4, <2>1
  <2>8. Collected(new, walk, k, count)
    BY <2>3, <2>5, <2>6, <2>7 DEF Collected
  <2> QED BY <2>1, <2>8 DEF new
<1> QED BY <1>2, <1>3, <1>4

\* What get_candidates returns, in terms of the walk.
LEMMA CandidatesCollected ==
    ASSUME NEW h, NEW count \in Nat, NEW S, Walk(h) \in Seq(S)
    PROVE  /\ GetCandidates(h, count) \in Seq(S)
           /\ Collected(GetCandidates(h, count), Walk(h), Len(Walk(h)), count)
<1> DEFINE walk == Walk(h)
           n == Len(walk)
<1>1. n \in Nat /\ walk \in Seq(S)
  OBVIOUS
<1>2. PICK seen : /\ seen[0] = <<>>
                  /\ \A i \in 1..n : seen[i] = Collect(seen[i - 1], walk[i], count)
                  /\ GetCandidates(h, count) = seen[n]
  BY CandidatesStepwise
<1> HIDE DEF walk, n
<1> DEFINE G == {i \in 0..n : seen[i] \in Seq(S) /\ Collected(seen[i], walk, i, count)}
<1>3. 0 \in G
  <2>1. Len(<<>>) = 0 /\ <<>> \in Seq(S) /\ 1..0 = {}
    OBVIOUS
  <2>2. Collected(<<>>, walk, 0, count)
    BY <2>1, 0 <= count DEF Collected
  <2>3. 0 \in 0..n /\ seen[0] = <<>>
    BY <1>1, <1>2
  <2> QED BY <2>1, <2>2, <2>3
<1>4. ASSUME NEW k \in 1..n, k - 1 \in G PROVE k \in G
  <2>1. seen[k - 1] \in Seq(S) /\ Collected(seen[k - 1], walk, k - 1, count)
    BY <1>4
  <2>2. k \in 1..Len(walk)
    BY DEF n
  <2>3. /\ Collect(seen[k - 1], walk[k], count) \in Seq(S)
        /\ Collected(Collect(seen[k - 1], walk[k], count), walk, k, count)
    BY <1>1, <2>1, <2>2, CollectKeeps
  <2> QED BY <1>1, <1>2, <2>3
<1> HIDE DEF G
<1>5. n \in G
  <2>1. 0..n \subseteq G
    BY <1>1, <1>3, <1>4, UpTo
  <2> QED BY <1>1, <2>1
<1> QED BY <1>2, <1>5 DEF G, walk, n

-----------------------------------------------------------------------------
\* The candidates by distance.

\* The nearest vnode of a node, on the ring.
LEMMA NearestIs ==
    ASSUME RingInv, NEW h \in HashPos, NEW n \in RingNodes
    PROVE  \E p \in positions :
              /\ positionToNode[p] = n /\ Nearest(h, n) = Distance(h, p)
              /\ \A q \in positions : positionToNode[q] = n => Distance(h, p) <= Distance(h, q)
<1> DEFINE own == {p \in positions : positionToNode[p] = n}
           T == {Distance(h, p) : p \in own}
<1>1. Range(nodeVnodes[n]) = own
  BY DEF RingInv, RingConsistent, Range
<1>2. own # {}
  <2>1. 1 \in DOMAIN nodeVnodes[n]
    BY RingAssumption DEF RingInv, RingTypeOK, CountsBounded
  <2> QED BY <1>1, <2>1 DEF Range
<1>3. \A p \in own : p \in positions /\ Distance(h, p) \in Nat
  BY RingIsFinite, DistanceIs
<1>4. Nearest(h, n) = Min(T)
  BY <1>1 DEF Nearest
<1> HIDE DEF own
<1>5. T \subseteq Nat /\ T # {}
  BY <1>2, <1>3
<1>6. Min(T) \in T /\ \A y \in T : Min(T) <= y
  <2> HIDE DEF T
  <2> QED BY <1>5, MinIsLeast
<1>7. PICK p \in own : Min(T) = Distance(h, p)
  BY <1>6
<1>8. \A q \in own : Distance(h, p) <= Distance(h, q)
  BY <1>6, <1>7
<1> HIDE DEF T
<1> QED BY <1>4, <1>7, <1>8 DEF own

LEMMA NearestType ==
    ASSUME RingInv, NEW h \in HashPos, NEW n \in RingNodes
    PROVE  Nearest(h, n) \in Nat
<1>1. PICK p \in positions : Nearest(h, n) = Distance(h, p)
  BY NearestIs
<1> QED BY <1>1, RingIsFinite, DistanceIs

\* The walk meets every node, the nearest first.
LEMMA WalkMeetsNearestFirst ==
    ASSUME RingInv, NEW h \in HashPos
    PROVE  /\ Walk(h) \in Seq(RingNodes)
           /\ \A n \in RingNodes : \E i \in 1..Len(Walk(h)) : Walk(h)[i] = n
           /\ \A m, n \in RingNodes :
                 Precedes(Walk(h), m, n) => Nearest(h, m) < Nearest(h, n)
<1> DEFINE total == Cardinality(positions)
<1>1. PICK place : Clockwise(h, place)
  BY WalkIsClockwise
<1>2. /\ total \in Nat /\ positions \subseteq HashPos
      /\ \A p \in positions : positionToNode[p] \in RingNodes /\ Distance(h, p) \in Nat
  BY RingIsFinite, DistanceIs DEF RingInv, RingConsistent
<1> DEFINE walk == Walk(h)
<1>3. /\ walk \in Seq(RingNodes) /\ Len(walk) = total
      /\ \A i \in 1..total : place[i] \in positions /\ walk[i] = positionToNode[place[i]]
  <2>1. \A i \in 1..total : place[i] \in positions
    BY <1>1 DEF Clockwise
  <2>2. walk = [i \in 1..total |-> positionToNode[place[i]]]
    BY <1>1 DEF Clockwise
  <2> HIDE DEF total, walk
  <2>3. \A i \in 1..total : positionToNode[place[i]] \in RingNodes
    BY <1>2, <2>1
  <2> QED BY <1>2, <2>1, <2>2, <2>3
<1>4. \A p \in positions : \E i \in 1..total : place[i] = p
  BY <1>1 DEF Clockwise
<1>5. \A i, j \in 1..total : i < j => Distance(h, place[i]) < Distance(h, place[j])
  BY <1>1 DEF Clockwise
<1> HIDE DEF total, walk
<1>6. ASSUME NEW n \in RingNodes PROVE \E i \in 1..total : walk[i] = n
  <2>1. PICK p \in positions : positionToNode[p] = n
    BY NearestIs
  <2> QED BY <1>3, <1>4, <2>1
<1>7. ASSUME NEW m \in RingNodes, NEW n \in RingNodes, Precedes(walk, m, n)
      PROVE  Nearest(h, m) < Nearest(h, n)
  <2>1. PICK i \in 1..total : walk[i] = m /\ \A j \in 1..total : walk[j] = n => i < j
    BY <1>3, <1>7 DEF Precedes
  <2>2. PICK p \in positions :
           /\ Nearest(h, m) = Distance(h, p)
           /\ \A r \in positions : positionToNode[r] = m => Distance(h, p) <= Distance(h, r)
    BY NearestIs
  <2>3. PICK q \in positions : positionToNode[q] = n /\ Nearest(h, n) = Distance(h, q)
    BY NearestIs
  <2>4. PICK j \in 1..total : place[j] = q
    BY <1>4
  <2>5. i < j
    BY <1>3, <2>1, <2>3, <2>4
  <2>6. Distance(h, place[i]) < Distance(h, q)
    BY <1>5, <2>4, <2>5
  <2>7. place[i] \in positions /\ positionToNode[place[i]] = m
    BY <1>3, <2>1
  <2>8. Distance(h, p) <= Distance(h, place[i])
    BY <2>2, <2>7
  <2> QED BY <1>2, <2>2, <2>3, <2>6, <2>7, <2>8
<1> QED BY <1>3, <1>6, <1>7 DEF walk

\* c lists nodes of the ring by their distance from h, nearest first: count of them, or
\* all of them.
ByDistance(h, c, count) ==
    /\ c \in Seq(RingNodes)
    /\ Len(c) <= count
    /\ \A i, j \in 1..Len(c) : i < j => Nearest(h, c[i]) < Nearest(h, c[j])
    /\ \A n \in RingNodes :
          \/ \E i \in 1..Len(c) : c[i] = n
          \/ Len(c) = count /\ \A i \in 1..Len(c) : Nearest(h, c[i]) < Nearest(h, n)

LEMMA CandidatesByDistance ==
    ASSUME RingInv, NEW h \in HashPos, NEW count \in Nat
    PROVE  ByDistance(h, GetCandidates(h, count), count)
<1> DEFINE c == GetCandidates(h, count)
           walk == Walk(h)
<1>1. /\ walk \in Seq(RingNodes)
      /\ \A n \in RingNodes : \E i \in 1..Len(walk) : walk[i] = n
      /\ \A m, n \in RingNodes : Precedes(walk, m, n) => Nearest(h, m) < Nearest(h, n)
  BY WalkMeetsNearestFirst
<1>2. c \in Seq(RingNodes) /\ Collected(c, walk, Len(walk), count)
  BY <1>1, CandidatesCollected
<1> HIDE DEF c, walk
<1>3. \A i \in 1..Len(c) : c[i] \in RingNodes
  BY <1>2
<1>4. \A i, j \in 1..Len(c) : i < j => Nearest(h, c[i]) < Nearest(h, c[j])
  BY <1>1, <1>2, <1>3 DEF Collected
<1>5. ASSUME NEW n \in RingNodes
      PROVE  \/ \E i \in 1..Len(c) : c[i] = n
             \/ Len(c) = count /\ \A i \in 1..Len(c) : Nearest(h, c[i]) < Nearest(h, n)
  <2>1. PICK i \in 1..Len(walk) : walk[i] = n
    BY <1>1
  <2>2. \/ \E a \in 1..Len(c) : c[a] = n
        \/ Len(c) = count /\ \A a \in 1..Len(c) : Precedes(walk, c[a], n)
    BY <1>2, <2>1 DEF Collected
  <2> QED BY <1>1, <1>3, <2>2
<1>6. Len(c) <= count
  BY <1>2 DEF Collected
<1>7. ByDistance(h, c, count)
  BY <1>2, <1>4, <1>5, <1>6 DEF ByDistance
<1> QED BY <1>7 DEF c

\* There are finitely many nodes on the ring.
LEMMA RingNodesFinite ==
    ASSUME RingInv
    PROVE  IsFiniteSet(RingNodes) /\ Cardinality(RingNodes) \in Nat
<1> DEFINE f == [p \in positions |-> positionToNode[p]]
<1>1. \A p \in positions : f[p] \in RingNodes
  BY DEF RingInv, RingConsistent
<1>2. \A n \in RingNodes : \E p \in positions : f[p] = n
  <2> SUFFICES ASSUME NEW n \in RingNodes PROVE \E p \in positions : f[p] = n
    OBVIOUS
  <2>1. 1 \in DOMAIN nodeVnodes[n]
    BY RingAssumption DEF RingInv, RingTypeOK, CountsBounded
  <2> QED BY <2>1 DEF RingInv, RingConsistent
<1>3. f \in Surjection(positions, RingNodes)
  <2>1. f \in [positions -> RingNodes]
    BY <1>1
  <2> HIDE DEF f
  <2> QED BY <1>2, <2>1 DEF Surjection
<1>4. IsFiniteSet(positions)
  BY RingIsFinite
<1> QED BY <1>3, <1>4, FS_Surjection, FS_CardinalityType

\* A list by distance has no node twice.
LEMMA ByDistanceDistinct ==
    ASSUME RingInv, NEW h \in HashPos, NEW c, NEW count \in Nat, ByDistance(h, c, count)
    PROVE  \A i, j \in 1..Len(c) : c[i] = c[j] => i = j
<1> SUFFICES ASSUME NEW i \in 1..Len(c), NEW j \in 1..Len(c), c[i] = c[j], i # j
             PROVE  FALSE
  OBVIOUS
<1>1. c[i] \in RingNodes /\ i \in Nat /\ j \in Nat
  BY DEF ByDistance
<1>2. Nearest(h, c[i]) \in Nat
  BY <1>1, NearestType
<1>3. i < j => Nearest(h, c[i]) < Nearest(h, c[j])
  BY DEF ByDistance
<1>4. j < i => Nearest(h, c[j]) < Nearest(h, c[i])
  BY DEF ByDistance
<1> QED BY <1>1, <1>2, <1>3, <1>4

LEMMA ByDistanceLength ==
    ASSUME RingInv, NEW h \in HashPos, NEW c, NEW count \in Nat, ByDistance(h, c, count)
    PROVE  Len(c) = Min({count, Cardinality(RingNodes)})
<1> DEFINE size == Cardinality(RingNodes)
<1>1. /\ IsFiniteSet(RingNodes) /\ size \in Nat /\ c \in Seq(RingNodes)
      /\ Len(c) \in Nat /\ Len(c) <= count /\ DOMAIN c = 1..Len(c)
      /\ \A i \in 1..Len(c) : c[i] \in RingNodes
  BY RingNodesFinite DEF ByDistance
<1>2. IsFiniteSet(1..Len(c)) /\ Cardinality(1..Len(c)) = Len(c)
  <2> DEFINE l == Len(c)
  <2>1. l \in Nat
    BY <1>1
  <2> HIDE DEF l
  <2>2. IsFiniteSet(1..l) /\ Cardinality(1..l) = (IF 1 > l THEN 0 ELSE l - 1 + 1)
    BY <2>1, 1 \in Int, l \in Int, FS_Interval
  <2>3. Cardinality(1..l) = l
    BY <2>1, <2>2
  <2> QED BY <2>2, <2>3 DEF l
<1>3. c \in Injection(1..Len(c), RingNodes)
  <2>1. c \in [1..Len(c) -> RingNodes]
    BY <1>1
  <2> QED BY <2>1, ByDistanceDistinct DEF Injection, IsInjective
<1>4. Len(c) <= size
  BY <1>1, <1>2, <1>3, FS_Injection
<1>5. ASSUME Len(c) # count PROVE Len(c) = size
  <2>1. \A n \in RingNodes : \E i \in 1..Len(c) : c[i] = n
    BY <1>5 DEF ByDistance
  <2>2. c \in Surjection(1..Len(c), RingNodes)
    <3>1. c \in [1..Len(c) -> RingNodes]
      BY <1>1
    <3> QED BY <2>1, <3>1 DEF Surjection
  <2>3. size <= Len(c)
    BY <1>2, <2>2, FS_Surjection
  <2> QED BY <1>1, <1>4, <2>3
<1> HIDE DEF size
<1>6. Min({count, size}) \in {count, size} /\ \A y \in {count, size} : Min({count, size}) <= y
  <2>1. {count, size} \subseteq Nat /\ {count, size} # {}
    BY <1>1
  <2> QED BY <2>1, MinIsLeast
<1>7. Len(c) = Min({count, size})
  <2>1. Len(c) \in {count, size}
    BY <1>5
  <2>2. Min({count, size}) \in Nat /\ Min({count, size}) <= count /\ Min({count, size}) <= size
    BY <1>1, <1>6
  <2>3. Len(c) <= Min({count, size})
    BY <1>1, <1>4, <1>6
  <2>4. Min({count, size}) <= Len(c)
    BY <2>1, <2>2
  <2>5. Len(c) \in Nat
    BY <1>1
  <2> QED BY ONLY <2>2, <2>3, <2>4, <2>5
<1> QED BY <1>7 DEF size

\* The node get_node returns is nearer than any other.
LEMMA GetNodeIsNearest ==
    ASSUME RingInv, RingNodes # {}, NEW h \in HashPos
    PROVE  /\ GetNode(h) \in RingNodes
           /\ \A n \in RingNodes : Nearest(h, GetNode(h)) <= Nearest(h, n)
<1> DEFINE f == FirstFrom(h, positions)
           g == GetNode(h)
<1>1. positions \subseteq Nat /\ positions \subseteq HashPos /\ h \in 0..(HashSpace - 1)
      /\ HashSpace \in Nat /\ HashPos = 0..(HashSpace - 1)
  BY RingIsFinite
<1>2. positions # {}
  <2>1. PICK n : n \in RingNodes
    OBVIOUS
  <2> QED BY <2>1, NearestIs
<1>3. f \in positions /\ \A q \in positions : q # f => Before(h, f, q)
  <2>1. h \in Nat
    BY <1>1
  <2> QED BY <1>1, <1>2, <2>1, FirstFromIsFirst
<1>4. g = positionToNode[f]
  BY GetNodeIsFirst
<1> HIDE DEF f, g
<1>5. g \in RingNodes
  BY <1>3, <1>4 DEF RingInv, RingConsistent
<1>6. ASSUME NEW q \in positions PROVE Distance(h, f) <= Distance(h, q)
  <2>1. /\ f \in 0..(HashSpace - 1) /\ q \in 0..(HashSpace - 1)
        /\ Distance(h, f) = (IF h <= f THEN f - h ELSE f - h + HashSpace)
        /\ Distance(h, q) = (IF h <= q THEN q - h ELSE q - h + HashSpace)
    BY <1>1, <1>3, DistanceIs
  <2>2. q = f \/ Before(h, f, q)
    BY <1>3
  <2> QED BY <1>1, <2>1, <2>2 DEF Before
<1>7. ASSUME NEW n \in RingNodes PROVE Nearest(h, g) <= Nearest(h, n)
  <2>1. PICK p \in positions :
           /\ Nearest(h, g) = Distance(h, p)
           /\ \A r \in positions : positionToNode[r] = g => Distance(h, p) <= Distance(h, r)
    BY <1>5, NearestIs
  <2>2. PICK q \in positions : Nearest(h, n) = Distance(h, q)
    BY NearestIs
  <2>3. Distance(h, p) <= Distance(h, f) /\ Distance(h, f) <= Distance(h, q)
    BY <1>3, <1>4, <1>6, <2>1
  <2>4. Distance(h, p) \in Nat /\ Distance(h, f) \in Nat /\ Distance(h, q) \in Nat
    BY <1>1, <1>3, DistanceIs
  <2> QED BY <2>1, <2>2, <2>3, <2>4
<1> QED BY <1>5, <1>7 DEF g

\* and so the first candidate.
LEMMA FirstCandidate ==
    ASSUME RingInv, RingNodes # {}, NEW h \in HashPos, NEW c, NEW count \in Nat \ {0},
           ByDistance(h, c, count)
    PROVE  c[1] = GetNode(h)
<1> DEFINE g == GetNode(h)
<1>1. g \in RingNodes /\ \A n \in RingNodes : Nearest(h, g) <= Nearest(h, n)
  BY GetNodeIsNearest
<1> HIDE DEF g
<1>2. \/ \E i \in 1..Len(c) : c[i] = g
      \/ Len(c) = count /\ \A i \in 1..Len(c) : Nearest(h, c[i]) < Nearest(h, g)
  BY <1>1 DEF ByDistance
<1>3. 1 \in 1..Len(c) /\ c[1] \in RingNodes
  <2>1. c \in Seq(RingNodes)
    BY DEF ByDistance
  <2> QED BY <1>2, <2>1
<1>4. Nearest(h, c[1]) \in Nat /\ Nearest(h, g) \in Nat /\ Nearest(h, g) <= Nearest(h, c[1])
  BY <1>1, <1>3, NearestType
<1>5. PICK i \in 1..Len(c) : c[i] = g
  BY <1>2, <1>3, <1>4
<1>6. 1 < i => Nearest(h, c[1]) < Nearest(h, g)
  BY <1>3, <1>5 DEF ByDistance
<1>7. i = 1
  BY <1>4, <1>5, <1>6
<1> QED BY <1>5, <1>7 DEF g

\* Whatever the key and the number asked for, the candidates are the nearest nodes, nearest
\* first and without a repetition, and get_node's is the first.
THEOREM NearestCandidates == Spec => []CandidatesNearestFirst
<1>1. RingInv => CandidatesNearestFirst
  <2> SUFFICES ASSUME RingInv, NEW h \in HashPos, NEW count \in 1..(Cardinality(Node) + 1)
               PROVE  LET c == GetCandidates(h, count)
                      IN  /\ Len(c) = Min({count, Cardinality(RingNodes)})
                          /\ RingNodes # {} => c[1] = GetNode(h)
                          /\ \A i, j \in 1..Len(c) :
                                i < j => Nearest(h, c[i]) < Nearest(h, c[j])
                          /\ \A n \in RingNodes \ Range(c) :
                                \A i \in 1..Len(c) : Nearest(h, c[i]) < Nearest(h, n)
    BY DEF CandidatesNearestFirst
  <2> DEFINE c == GetCandidates(h, count)
  <2>1. count \in Nat \ {0}
    OBVIOUS
  <2>2. ByDistance(h, c, count)
    BY <2>1, CandidatesByDistance
  <2> HIDE DEF c
  <2>3. Len(c) = Min({count, Cardinality(RingNodes)})
    BY <2>1, <2>2, ByDistanceLength
  <2>4. RingNodes # {} => c[1] = GetNode(h)
    BY <2>1, <2>2, FirstCandidate
  <2>5. \A i, j \in 1..Len(c) : i < j => Nearest(h, c[i]) < Nearest(h, c[j])
    BY <2>2 DEF ByDistance
  <2>6. \A n \in RingNodes \ Range(c) : \A i \in 1..Len(c) : Nearest(h, c[i]) < Nearest(h, n)
    <3>1. \A n : (\E i \in 1..Len(c) : c[i] = n) => n \in Range(c)
      <4>1. DOMAIN c = 1..Len(c)
        BY <2>2 DEF ByDistance
      <4> QED BY <4>1 DEF Range
    <3> QED BY <2>2, <3>1 DEF ByDistance
  <2> QED BY <2>3, <2>4, <2>5, <2>6 DEF c
<1> QED BY <1>1, RingInvariance, PTL

-----------------------------------------------------------------------------
\* Failover.

\* c lists S by increasing key.
Ordered(key, S, c) ==
    /\ c \in Seq(S)
    /\ \A i, j \in 1..Len(c) : i < j => key[c[i]] < key[c[j]]
    /\ \A x \in S : \E i \in 1..Len(c) : c[i] = x

\* Of two lists by the same key that agree up to i, neither ends first, and the element of
\* the second is not the greater one.
LEMMA OrderedAgree ==
    ASSUME NEW S, NEW key \in [S -> Nat], NEW c, NEW d, Ordered(key, S, c), Ordered(key, S, d),
           NEW i \in 1..Len(c),
           \A j \in 1..(i - 1) : j \in 1..Len(d) => c[j] = d[j]
    PROVE  i \in 1..Len(d) /\ (d[i] = c[i] \/ key[d[i]] < key[c[i]])
<1>1. /\ Len(c) \in Nat /\ Len(d) \in Nat /\ i \in Nat /\ i >= 1
      /\ \A j \in 1..Len(c) : c[j] \in S /\ key[c[j]] \in Nat
      /\ \A j \in 1..Len(d) : d[j] \in S /\ key[d[j]] \in Nat
  <2>1. c \in Seq(S) /\ d \in Seq(S) /\ i \in Nat /\ i >= 1
    BY DEF Ordered
  <2>2. \A x \in S : key[x] \in Nat
    OBVIOUS
  <2>3. \A j \in 1..Len(c) : c[j] \in S
    BY <2>1
  <2>4. \A j \in 1..Len(d) : d[j] \in S
    BY <2>1
  <2> QED BY <2>1, <2>2, <2>3, <2>4
<1>2. PICK j \in 1..Len(d) : d[j] = c[i]
  BY <1>1 DEF Ordered
<1>3. ~(j < i)
  <2>1. SUFFICES ASSUME j < i PROVE FALSE
    OBVIOUS
  <2>2. j \in 1..(i - 1) /\ j \in 1..Len(c)
    BY <1>1, <2>1
  <2>3. c[j] = c[i]
    BY <1>2, <2>2
  <2>4. key[c[j]] < key[c[i]]
    BY <2>1, <2>2 DEF Ordered
  <2> QED BY <1>1, <2>3, <2>4
<1>4. i \in 1..Len(d)
  BY <1>1, <1>3
<1>5. CASE j = i
  BY <1>2, <1>4, <1>5
<1>6. CASE i < j
  <2>1. key[d[i]] < key[d[j]]
    BY <1>4, <1>6 DEF Ordered
  <2> QED BY <1>2, <1>4, <2>1
<1> QED BY <1>1, <1>3, <1>5, <1>6

\* A set is listed by a key in one way.
LEMMA OrderedUnique ==
    ASSUME NEW S, NEW key \in [S -> Nat], NEW c, NEW d, Ordered(key, S, c), Ordered(key, S, d)
    PROVE  c = d
<1> DEFINE Differ(i) == \/ i \in 1..Len(c) /\ ~(i \in 1..Len(d) /\ c[i] = d[i])
                        \/ i \in 1..Len(d) /\ ~(i \in 1..Len(c) /\ c[i] = d[i])
           T == {i \in Nat : Differ(i)}
<1>1. /\ c \in Seq(S) /\ d \in Seq(S) /\ Len(c) \in Nat /\ Len(d) \in Nat
      /\ \A j \in 1..Len(c) : key[c[j]] \in Nat
      /\ \A j \in 1..Len(d) : key[d[j]] \in Nat
  <2>1. c \in Seq(S) /\ d \in Seq(S)
    BY DEF Ordered
  <2>2. \A x \in S : key[x] \in Nat
    OBVIOUS
  <2>3. \A j \in 1..Len(c) : c[j] \in S
    BY <2>1
  <2>4. \A j \in 1..Len(d) : d[j] \in S
    BY <2>1
  <2> QED BY <2>1, <2>2, <2>3, <2>4
<1>2. T = {}
  <2> SUFFICES ASSUME T # {} PROVE FALSE
    OBVIOUS
  <2>1. PICK i \in T : \A y \in T : i <= y
    <3>1. T \subseteq Nat
      OBVIOUS
    <3> HIDE DEF T
    <3> QED BY <3>1, LeastNatural
  <2>2. i \in Nat /\ i >= 1
    BY <1>1, <2>1
  <2>3. ASSUME NEW j \in 1..(i - 1) PROVE j \notin T
    BY <2>1, <2>2, <2>3
  <2>4. \A j \in 1..(i - 1) : /\ j \in 1..Len(d) => c[j] = d[j]
                              /\ j \in 1..Len(c) => d[j] = c[j]
    BY <2>3
  <2>5. i \in 1..Len(c) =>
           i \in 1..Len(d) /\ (d[i] = c[i] \/ key[d[i]] < key[c[i]])
    BY <2>4, OrderedAgree
  <2>6. i \in 1..Len(d) =>
           i \in 1..Len(c) /\ (c[i] = d[i] \/ key[c[i]] < key[d[i]])
    BY <2>4, OrderedAgree
  <2>7. i \in 1..Len(c) /\ i \in 1..Len(d) /\ c[i] # d[i]
    BY <2>1, <2>5, <2>6
  <2> QED BY <1>1, <2>5, <2>6, <2>7
<1>3. ASSUME NEW i \in 1..Len(c) PROVE i \in 1..Len(d) /\ c[i] = d[i]
  <2>1. i \in Nat
    OBVIOUS
  <2>2. ~Differ(i)
    <3> HIDE DEF Differ
    <3> QED BY <1>2, <2>1
  <2> QED BY <2>2
<1>4. ASSUME NEW i \in 1..Len(d) PROVE i \in 1..Len(c)
  <2>1. i \in Nat
    OBVIOUS
  <2>2. ~Differ(i)
    <3> HIDE DEF Differ
    <3> QED BY <1>2, <2>1
  <2> QED BY <2>2
<1>5. Len(c) = Len(d)
  <2>1. ~(Len(c) < Len(d))
    <3>1. Len(d) \in 1..Len(d) => Len(d) \in 1..Len(c)
      BY <1>4
    <3> QED BY <1>1, <3>1
  <2>2. ~(Len(d) < Len(c))
    <3>1. Len(c) \in 1..Len(c) => Len(c) \in 1..Len(d)
      BY <1>3
    <3> QED BY <1>1, <3>1
  <2> QED BY <1>1, <2>1, <2>2
<1> QED BY <1>1, <1>3, <1>5, SeqEqual

\* A list by a key without one of its elements is the list of the others.
LEMMA OrderedRemove ==
    ASSUME NEW S, NEW key, NEW c, Ordered(key, S, c),
           \A i, j \in 1..Len(c) : c[i] = c[j] => i = j,
           NEW k \in 1..Len(c)
    PROVE  Ordered(key, S \ {c[k]}, RemoveAt(c, k))
<1> DEFINE before == SubSeq(c, 1, k - 1)
           after == SubSeq(c, k + 1, Len(c))
           e == before \o after
           T == S \ {c[k]}
           to(i) == IF i < k THEN i ELSE i + 1
<1>1. /\ c \in Seq(S) /\ Len(c) \in Nat /\ k \in Nat /\ k >= 1 /\ k <= Len(c)
      /\ \A i \in 1..Len(c) : c[i] \in S
  BY DEF Ordered
<1>2. /\ before \in Seq(T) /\ Len(before) = k - 1
      /\ \A i \in 1..(k - 1) : before[i] = c[i]
  <2>1. \A i \in 1..(k - 1) : i \in 1..Len(c) /\ c[i] \in T
    BY <1>1
  <2>2. /\ before \in Seq(T) /\ Len(before) = (IF 1 <= k - 1 THEN k - 1 - 1 + 1 ELSE 0)
        /\ \A i \in 1..(k - 1 - 1 + 1) : before[i] = c[1 + i - 1]
    BY <1>1, <2>1, 1 \in Int, k - 1 \in Int, SubSeqProperties
  <2> HIDE DEF before
  <2> QED BY <1>1, <2>2
<1>3. /\ after \in Seq(T) /\ Len(after) = Len(c) - k
      /\ \A i \in 1..(Len(c) - k) : after[i] = c[k + i]
  <2>1. \A i \in (k + 1)..Len(c) : i \in 1..Len(c) /\ c[i] \in T
    BY <1>1
  <2>2. /\ after \in Seq(T)
        /\ Len(after) = (IF k + 1 <= Len(c) THEN Len(c) - (k + 1) + 1 ELSE 0)
        /\ \A i \in 1..(Len(c) - (k + 1) + 1) : after[i] = c[k + 1 + i - 1]
    BY <1>1, <2>1, k + 1 \in Int, Len(c) \in Int, SubSeqProperties
  <2> HIDE DEF after
  <2> QED BY <1>1, <2>2
<1> HIDE DEF before, after
<1>4. /\ e \in Seq(T) /\ Len(e) = Len(c) - 1
      /\ \A i \in 1..(Len(c) - 1) : to(i) \in 1..Len(c) /\ to(i) # k /\ e[i] = c[to(i)]
  <2>1. /\ e \in Seq(T) /\ Len(e) = Len(before) + Len(after)
        /\ \A i \in 1..(Len(before) + Len(after)) :
              e[i] = IF i <= Len(before) THEN before[i] ELSE after[i - Len(before)]
    <3>1. PICK p \in Seq(T), q \in Seq(T) : p = before /\ q = after
      BY <1>2, <1>3
    <3>2. /\ p \o q \in Seq(T) /\ Len(p \o q) = Len(p) + Len(q)
          /\ \A i \in 1..(Len(p) + Len(q)) :
                (p \o q)[i] = IF i <= Len(p) THEN p[i] ELSE q[i - Len(p)]
      BY ONLY ConcatProperties
    <3> QED BY ONLY <3>1, <3>2, Zenon
  <2> HIDE DEF e
  <2>2. Len(before) + Len(after) = Len(c) - 1
    BY <1>1, <1>2, <1>3
  <2>3. ASSUME NEW i \in 1..(Len(c) - 1)
        PROVE  to(i) \in 1..Len(c) /\ to(i) # k /\ e[i] = c[to(i)]
    <3>1. CASE i < k
      <4>1. i \in 1..(k - 1) /\ i <= Len(before)
        BY <1>1, <1>2, <3>1
      <4> QED BY <1>1, <1>2, <2>1, <2>2, <3>1, <4>1
    <3>2. CASE ~(i < k)
      <4>1. i - Len(before) \in 1..(Len(c) - k) /\ ~(i <= Len(before)) /\ k + (i - Len(before)) = i + 1
        BY <1>1, <1>2, <3>2
      <4>2. e[i] = c[i + 1]
        BY <1>3, <2>1, <2>2, <4>1
      <4> QED BY <1>1, <3>2, <4>2
    <3> QED BY <3>1, <3>2
  <2> HIDE DEF to
  <2> QED BY <2>1, <2>2, <2>3
<1>5. RemoveAt(c, k) = e
  BY DEF RemoveAt, before, after
<1> HIDE DEF e
<1>6. \A i, j \in 1..Len(e) : i < j => key[e[i]] < key[e[j]]
  <2> SUFFICES ASSUME NEW i \in 1..Len(e), NEW j \in 1..Len(e), i < j
               PROVE  key[e[i]] < key[e[j]]
    OBVIOUS
  <2>1. to(i) \in 1..Len(c) /\ to(j) \in 1..Len(c) /\ e[i] = c[to(i)] /\ e[j] = c[to(j)]
    BY <1>4
  <2>2. to(i) < to(j)
    BY <1>1, <1>4
  <2> HIDE DEF to
  <2> QED BY <2>1, <2>2 DEF Ordered
<1>7. \A x \in T : \E i \in 1..Len(e) : e[i] = x
  <2> SUFFICES ASSUME NEW x \in T PROVE \E i \in 1..Len(e) : e[i] = x
    OBVIOUS
  <2>1. PICK j \in 1..Len(c) : c[j] = x
    BY DEF Ordered
  <2>2. j # k
    BY <2>1
  <2>3. CASE j < k
    <3>1. j \in 1..(Len(c) - 1) /\ to(j) = j
      BY <1>1, <2>3
    <3> HIDE DEF to
    <3> QED BY <1>4, <2>1, <3>1
  <2>4. CASE k < j
    <3>1. j - 1 \in 1..(Len(c) - 1) /\ to(j - 1) = j
      BY <1>1, <2>4
    <3> HIDE DEF to
    <3> QED BY <1>4, <2>1, <3>1
  <2> QED BY <1>1, <2>2, <2>3, <2>4
<1>8. Ordered(key, T, e)
  <2> HIDE DEF T
  <2> QED BY <1>4, <1>6, <1>7 DEF Ordered
<1> QED BY <1>5, <1>8

-----------------------------------------------------------------------------
\* How far the nodes are from h.
Farness(h) == [n \in RingNodes |-> Nearest(h, n)]

\* The failover order of a key lists every node once, the nearest first.
FailoverOrdered ==
    \A h \in HashPos : /\ Farness(h) \in [RingNodes -> Nat]
                       /\ Ordered(Farness(h), RingNodes, FailoverOrder(h))
                       /\ \A i, j \in 1..Len(FailoverOrder(h)) :
                             FailoverOrder(h)[i] = FailoverOrder(h)[j] => i = j

LEMMA FailoverIsOrdered == RingInv => FailoverOrdered
<1> SUFFICES ASSUME RingInv, NEW h \in HashPos
             PROVE  /\ Farness(h) \in [RingNodes -> Nat]
                    /\ Ordered(Farness(h), RingNodes, FailoverOrder(h))
                    /\ \A i, j \in 1..Len(FailoverOrder(h)) :
                          FailoverOrder(h)[i] = FailoverOrder(h)[j] => i = j
  BY DEF FailoverOrdered
<1> DEFINE size == Cardinality(RingNodes)
           c == FailoverOrder(h)
<1>1. Farness(h) \in [RingNodes -> Nat]
  BY NearestType DEF Farness
<1>2. IsFiniteSet(RingNodes) /\ size \in Nat
  BY RingNodesFinite
<1>3. ByDistance(h, c, size)
  BY <1>2, CandidatesByDistance DEF FailoverOrder
<1> HIDE DEF size, c
<1>4. \A i, j \in 1..Len(c) : c[i] = c[j] => i = j
  BY <1>2, <1>3, ByDistanceDistinct
<1>5. /\ c \in Seq(RingNodes) /\ Len(c) \in Nat /\ DOMAIN c = 1..Len(c)
      /\ \A i \in 1..Len(c) : c[i] \in RingNodes
  BY <1>3 DEF ByDistance
<1>6. Len(c) = size
  <2>1. Len(c) = Min({size, Cardinality(RingNodes)})
    BY <1>2, <1>3, ByDistanceLength
  <2>2. {size} \subseteq Nat /\ {size} # {} /\ {size, Cardinality(RingNodes)} = {size}
    BY <1>2 DEF size
  <2>3. Min({size}) \in {size}
    BY <2>2, MinIsLeast
  <2> QED BY <2>1, <2>2, <2>3
<1>7. \A n \in RingNodes : \E i \in 1..Len(c) : c[i] = n
  <2>1. c \in Injection(1..Len(c), RingNodes)
    <3>1. c \in [1..Len(c) -> RingNodes]
      BY <1>5
    <3> QED BY <1>4, <3>1 DEF Injection, IsInjective
  <2>2. Cardinality(1..Len(c)) = Cardinality(RingNodes)
    <3>1. size \in Nat /\ Cardinality(1..size) = (IF 1 > size THEN 0 ELSE size - 1 + 1)
      BY <1>2, 1 \in Int, size \in Int, FS_Interval
    <3>2. Cardinality(1..size) = size
      BY <3>1
    <3> QED BY <1>6, <3>2 DEF size
  <2>3. c \in Surjection(1..Len(c), RingNodes)
    BY <1>2, <2>1, <2>2, FS_Injection
  <2> QED BY <2>3 DEF Surjection
<1>8. Ordered(Farness(h), RingNodes, c)
  <2>1. \A i, j \in 1..Len(c) : i < j => Farness(h)[c[i]] < Farness(h)[c[j]]
    BY <1>3, <1>5 DEF ByDistance, Farness
  <2> QED BY <1>5, <1>7, <2>1 DEF Ordered
<1> QED BY <1>1, <1>4, <1>8 DEF c

\* The ring loses a node only when the node is removed, which leaves the others where they
\* are.
LEMMA OnlyRemoved ==
    ASSUME RingInv, Next, NEW n \in RingNodes, RingNodes' = RingNodes \ {n}
    PROVE  \A m \in RingNodes' : nodeVnodes'[m] = nodeVnodes[m]
<1>1. ASSUME NEW m \in Node, NEW cap \in Capacity, AddNode(m, cap) PROVE FALSE
  <2>1. RingNodes' = RingNodes \cup {m}
    BY <1>1 DEF AddNode, RingNodes
  <2> QED BY <2>1
<1>2. ASSUME NEW m \in Node, NEW newCount \in 0..MaxVnodes, UpdateNodeVnodes(m, newCount)
      PROVE  FALSE
  <2>1. RingNodes' = RingNodes
    BY <1>2 DEF UpdateNodeVnodes, GrowVnodes, ShrinkVnodes, RingNodes
  <2> QED BY <2>1
<1>3. ASSUME NEW m \in Node, RemoveNode(m)
      PROVE  \A q \in RingNodes' : nodeVnodes'[q] = nodeVnodes[q]
  <2>1. nodeVnodes' = [q \in RingNodes \ {m} |-> nodeVnodes[q]]
    BY <1>3 DEF RemoveNode, Restrict
  <2> QED BY <2>1 DEF RingNodes
<1> QED BY <1>1, <1>2, <1>3 DEF Next

\* When a node leaves the ring, every key's failover order loses that node and nothing else.
THEOREM FailoverOrderKept == Spec => FailoverInCandidateOrder
<1> DEFINE Kept == \A h \in HashPos, n \in RingNodes :
          RingNodes' = RingNodes \ {n} =>
              \E k \in DOMAIN FailoverOrder(h) :
                  /\ FailoverOrder(h)[k] = n
                  /\ FailoverOrder(h)' = RemoveAt(FailoverOrder(h), k)
<1>1. ASSUME RingInv, FailoverOrdered, FailoverOrdered', Next PROVE Kept
  <2> SUFFICES ASSUME NEW h \in HashPos, NEW n \in RingNodes, RingNodes' = RingNodes \ {n}
               PROVE  \E k \in DOMAIN FailoverOrder(h) :
                         /\ FailoverOrder(h)[k] = n
                         /\ FailoverOrder(h)' = RemoveAt(FailoverOrder(h), k)
    OBVIOUS
  <2> DEFINE c == FailoverOrder(h)
             d == FailoverOrder(h)'
             far == Farness(h)
             far2 == Farness(h)'
             rest == RingNodes \ {n}
  <2>1. /\ far \in [RingNodes -> Nat] /\ Ordered(far, RingNodes, c)
        /\ \A i, j \in 1..Len(c) : c[i] = c[j] => i = j
        /\ far2 \in [rest -> Nat] /\ Ordered(far2, rest, d)
    <3>1. /\ far2 \in [RingNodes' -> Nat] /\ Ordered(far2, RingNodes', d)
      BY <1>1 DEF FailoverOrdered
    <3> QED BY <1>1, <3>1 DEF FailoverOrdered
  <2>2. \A m \in rest : far2[m] = far[m]
    <3>1. \A m \in RingNodes' : nodeVnodes'[m] = nodeVnodes[m]
      BY <1>1, OnlyRemoved
    <3> QED BY <3>1 DEF Farness, Nearest, Distance
  <2> HIDE DEF c, d, far, far2
  <2>3. PICK k \in 1..Len(c) : c[k] = n
    BY <2>1 DEF Ordered
  <2>4. Ordered(far, rest, RemoveAt(c, k))
    BY <2>1, <2>3, OrderedRemove
  <2>5. Ordered(far2, rest, RemoveAt(c, k))
    <3> DEFINE e == RemoveAt(c, k)
    <3> HIDE DEF e, rest
    <3>1. \A i \in 1..Len(e) : e[i] \in rest
      BY <2>4 DEF Ordered, e
    <3>2. Ordered(far2, rest, e)
      BY <2>2, <2>4, <3>1 DEF Ordered, e
    <3> QED BY <3>2 DEF e
  <2>6. d = RemoveAt(c, k)
    <3> HIDE DEF rest
    <3> QED BY <2>1, <2>5, OrderedUnique
  <2>7. k \in DOMAIN c
    BY <2>1, <2>3 DEF Ordered
  <2> QED BY <2>3, <2>6, <2>7 DEF c, d
<1>2. Spec => [](RingInv /\ FailoverOrdered)
  BY RingInvariance, FailoverIsOrdered, PTL
<1>3. RingInv /\ FailoverOrdered /\ FailoverOrdered' /\ [Next]_ringVars => [Kept]_ringVars
  BY <1>1
<1> QED BY <1>2, <1>3, PTL DEF Spec, FailoverInCandidateOrder
=============================================================================
