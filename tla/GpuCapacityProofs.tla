-------------------------- MODULE GpuCapacityProofs --------------------------
(***************************************************************************)
(* The pools of GPUs for any number of nodes, types and GPUs, and whatever *)
(* the scheduler reports: a pool never offers more than its nodes have     *)
(* left, and exactly that if the scheduler agrees with itself.             *)
(*                                                                         *)
(* Both hold of total - allocated after every node the loop has come to,   *)
(* not only at the end: PoolInv compares it with what those nodes have     *)
(* left.  What is left on nodes is a number of GPUs, hence a cardinality.  *)
(***************************************************************************)
EXTENDS GpuCapacity, FiniteSetTheorems, TLAPS

\* The k GPUs of one node.
LEMMA GpusOfNode ==
    ASSUME NEW n, NEW k \in Nat
    PROVE  IsFiniteSet({n} \X (1..k)) /\ Cardinality({n} \X (1..k)) = k
<1> DEFINE node == {n}
           numbers == 1..k
<1>1. IsFiniteSet(node) /\ Cardinality(node) = 1
  BY FS_Singleton
<1>2. IsFiniteSet(numbers) /\ Cardinality(numbers) = k
  BY FS_Interval
<1>3. /\ IsFiniteSet(node \X numbers)
      /\ Cardinality(node \X numbers) = Cardinality(node) * Cardinality(numbers)
  <2> HIDE DEF node, numbers
  <2> QED BY <1>1, <1>2, FS_Product, Zenon
<1>4. Cardinality(node) * Cardinality(numbers) = k
  BY <1>1, <1>2
<1> QED BY <1>3, <1>4

\* However many GPUs nodes have left, they are a natural number of them.
LEMMA LeftCounted ==
    ASSUME NEW free
    PROVE  IsFiniteSet(Left(free)) /\ Cardinality(Left(free)) \in Nat
<1>1. IsFiniteSet(1..MaxOfType)
  BY MaxOfTypeAssumption, FS_Interval
<1>2. IsFiniteSet(Nodes \X (1..MaxOfType))
  BY <1>1, NodesAssumption, FS_Product, Zenon
<1>3. Left(free) \in SUBSET (Nodes \X (1..MaxOfType))
  BY DEF Left
<1> QED BY <1>2, <1>3, FS_Subset, FS_CardinalityType

\* A node that had none left adds what it has left now.
LEMMA LeftGrows ==
    ASSUME NEW free \in [Nodes -> -1..MaxOfType], NEW n \in Nodes, free[n] <= 0,
           NEW k \in 0..MaxOfType
    PROVE  Cardinality(Left([free EXCEPT ![n] = k])) = Cardinality(Left(free)) + k
<1> DEFINE then == [free EXCEPT ![n] = k]
           new == {n} \X (1..k)
<1>1. Left(then) = Left(free) \cup new
  BY MaxOfTypeAssumption DEF Left
<1>2. Left(free) \cap new = {}
  BY MaxOfTypeAssumption DEF Left
<1>3. IsFiniteSet(new) /\ Cardinality(new) = k
  <2>1. k \in Nat
    BY MaxOfTypeAssumption
  <2> QED BY <2>1, GpusOfNode
<1>4. Cardinality(Left(free) \cup new)
        = Cardinality(Left(free)) + Cardinality(new) - Cardinality({})
  BY <1>2, <1>3, LeftCounted, FS_Union
<1>5. Cardinality(Left(free)) \in Nat /\ Cardinality({}) = 0
  BY LeftCounted, FS_EmptySet
<1>6. Cardinality(Left(then)) = Cardinality(Left(free)) + k
  <2> HIDE DEF then, new
  <2> QED BY <1>1, <1>3, <1>4, <1>5
<1> QED BY <1>6

----------------------------------------------------------------------------
\* What a pool has after the nodes the loop has come to.
Pooled(g) ==
    LET rest == pools[g].total - pools[g].allocated IN
    /\ \A n \in todo : pools[g].free[n] = -1
    /\ rest <= FreeOnNodes(g)
    /\ Consistent => rest = FreeOnNodes(g)

PoolInv == TypeOK /\ \A g \in GpuTypes : Pooled(g)

\* What one turn of the loop does to the pool of one type (spur_client.rs:449-487).
Turn(n, g) ==
    LET p == pools[g]
        node == nodes[n]
        counted == is_node_schedulable(node.state)
    IN /\ pools'[g] \in GpuPool
       /\ pools'[g].free = IF node.total[g] > 0 THEN [p.free EXCEPT ![n] = node_free(n, g)]
                           ELSE p.free
       /\ pools'[g].total = p.total + counted_total(n, g)
       /\ pools'[g].allocated = p.allocated \/ pools'[g].allocated = p.allocated + counted_alloc(n, g)
       /\ node.total[g] > 0 => pools'[g].allocated = p.allocated + counted_alloc(n, g)

\* What a node reports is counted as it is, or not at all.
LEMMA NodeCounts ==
    ASSUME TypeOK, NEW n \in Nodes, NEW g \in GpuTypes
    PROVE  /\ nodes[n].total[g] \in 0..MaxOfType
           /\ counted_total(n, g) \in 0..MaxOfType /\ counted_alloc(n, g) \in 0..MaxOfType
           /\ node_free(n, g) \in 0..MaxOfType
           /\ counted_total(n, g) - counted_alloc(n, g) <= node_free(n, g)
           /\ nodes[n].total[g] = 0 => counted_total(n, g) = 0
           /\ Consistent => /\ counted_alloc(n, g) <= counted_total(n, g)
                            /\ node_free(n, g) = counted_total(n, g) - counted_alloc(n, g)
<1>1. nodes[n].total[g] \in 0..MaxOfType /\ nodes[n].alloc[g] \in 0..MaxOfType
  BY DEF TypeOK, Node, Counts
<1> QED BY <1>1, MaxOfTypeAssumption
        DEF counted_total, counted_alloc, node_free, saturating_sub, Consistent

LEMMA CountNodeTurns ==
    ASSUME TypeOK, NEW n \in Nodes, CountNode(n), NEW g \in GpuTypes
    PROVE  Turn(n, g)
<1> DEFINE p == pools[g]
<1>1. /\ p \in GpuPool
      /\ p.free \in [Nodes -> -1..MaxOfType] /\ p.total \in Nat /\ p.allocated \in Nat
      /\ p.known \in BOOLEAN
  BY DEF TypeOK, GpuPool
<1>2. PICK known \in BOOLEAN :
        /\ nodes[n].total[g] > 0 => known
        /\ pools'[g] =
             [known |-> known,
              total |-> p.total + counted_total(n, g),
              allocated |-> p.allocated + IF known THEN counted_alloc(n, g) ELSE 0,
              available |-> p.available,
              free |-> [p.free EXCEPT ![n] =
                          IF nodes[n].total[g] > 0 THEN node_free(n, g) ELSE p.free[n]]]
  BY <1>1, NodeCounts DEF CountNode, GpuPool
<1>3. /\ known \in BOOLEAN
      /\ p.total + counted_total(n, g) \in Nat
      /\ p.allocated + (IF known THEN counted_alloc(n, g) ELSE 0) \in Nat
      /\ (IF nodes[n].total[g] > 0 THEN node_free(n, g) ELSE p.free[n]) \in -1..MaxOfType
  BY <1>1, <1>2, NodeCounts, MaxOfTypeAssumption
<1>4. pools'[g] \in GpuPool
  BY <1>1, <1>2, <1>3 DEF GpuPool
<1> QED BY <1>1, <1>2, <1>4, NodeCounts, MaxOfTypeAssumption DEF Turn

\* A node that is counted leaves the pool no more than it adds to what nodes have
\* left, and as much if its counts agree.
LEMMA CountNodeKeeps ==
    ASSUME PoolInv, NEW n \in Nodes, CountNode(n)
    PROVE  PoolInv'
<1>1. /\ UNCHANGED nodes /\ todo' = todo \ {n} /\ n \in todo
      /\ pools' \in [GpuTypes -> GpuPool]
  <2>1. pools' = [g \in GpuTypes |-> pools'[g]]
    BY DEF CountNode
  <2> QED BY <2>1, CountNodeTurns DEF CountNode, PoolInv, Turn
<1>2. ASSUME NEW g \in GpuTypes
      PROVE  Pooled(g)'
  <2> DEFINE p == pools[g]
             q == pools'[g]
             ct == counted_total(n, g)
             ca == counted_alloc(n, g)
             before == Cardinality(Left(p.free))
             after == Cardinality(Left(q.free))
  <2>1. Turn(n, g)
    BY CountNodeTurns DEF PoolInv
  <2>2. /\ p.free \in [Nodes -> -1..MaxOfType] /\ p.total \in Nat /\ p.allocated \in Nat
        /\ p.free[n] = -1
    BY <1>1 DEF PoolInv, TypeOK, GpuPool, Pooled
  <2>3. /\ ct \in 0..MaxOfType /\ ca \in 0..MaxOfType /\ node_free(n, g) \in 0..MaxOfType
        /\ nodes[n].total[g] \in 0..MaxOfType
        /\ ct - ca <= node_free(n, g)
        /\ nodes[n].total[g] = 0 => ct = 0
        /\ Consistent => ca <= ct /\ node_free(n, g) = ct - ca
    BY NodeCounts DEF PoolInv
  <2>4. before \in Nat
    BY LeftCounted
  <2>5. p.total - p.allocated <= before /\ (Consistent => p.total - p.allocated = before)
    BY DEF PoolInv, Pooled, FreeOnNodes
  <2>6. q.total - q.allocated <= after /\ (Consistent => q.total - q.allocated = after)
    <3>1. CASE nodes[n].total[g] > 0
      <4>1. after = before + node_free(n, g)
        BY <2>1, <2>2, <2>3, <3>1, LeftGrows DEF Turn
      <4>2. q.total = p.total + ct /\ q.allocated = p.allocated + ca
        BY <2>1, <3>1 DEF Turn
      <4> HIDE DEF p, q, ct, ca, before, after
      <4> QED BY <2>2, <2>3, <2>4, <2>5, <4>1, <4>2, MaxOfTypeAssumption
    <3>2. CASE nodes[n].total[g] = 0
      <4>1. after = before /\ q.total = p.total + 0
        BY <2>1, <2>3, <3>2 DEF Turn
      <4>2. q.allocated = p.allocated \/ q.allocated = p.allocated + ca
        BY <2>1 DEF Turn
      <4>3. ct = 0
        BY <2>3, <3>2
      <4> HIDE DEF p, q, ct, ca, before, after
      <4> QED BY <2>2, <2>3, <2>4, <2>5, <4>1, <4>2, <4>3, MaxOfTypeAssumption
    <3> QED BY <2>3, <3>1, <3>2, MaxOfTypeAssumption
  <2>7. \A m \in todo' : q.free[m] = -1
    BY <1>1, <2>1, <2>2 DEF PoolInv, Pooled, Turn
  <2>8. Consistent' = Consistent
    BY <1>1 DEF Consistent
  <2> QED BY <2>6, <2>7, <2>8 DEF Pooled, FreeOnNodes
<1>3. TypeOK'
  BY <1>1 DEF PoolInv, TypeOK
<1> QED BY <1>2, <1>3 DEF PoolInv

\* The last pass fills in what is available and leaves the rest.
LEMMA ComputeKeeps ==
    ASSUME PoolInv, ComputeAvailable
    PROVE  PoolInv'
<1>1. ASSUME NEW g \in GpuTypes
      PROVE  /\ pools'[g] \in GpuPool
             /\ pools'[g].total = pools[g].total /\ pools'[g].allocated = pools[g].allocated
             /\ pools'[g].free = pools[g].free
  <2>1. pools[g] \in GpuPool
    BY DEF PoolInv, TypeOK
  <2>2. saturating_sub(pools[g].total, pools[g].allocated) \in Nat
    BY <2>1 DEF GpuPool, saturating_sub
  <2> QED BY <2>1, <2>2 DEF ComputeAvailable, GpuPool
<1>2. pools' \in [GpuTypes -> GpuPool] /\ UNCHANGED <<nodes, todo>>
  BY <1>1 DEF ComputeAvailable
<1>3. \A g \in GpuTypes : Pooled(g)'
  BY <1>1, <1>2 DEF PoolInv, Pooled, FreeOnNodes, Consistent
<1> QED BY <1>2, <1>3 DEF PoolInv, TypeOK

LEMMA PoolsHold == Spec => []PoolInv
<1>1. Init => PoolInv
  <2> SUFFICES ASSUME Init PROVE PoolInv
    OBVIOUS
  <2>1. TypeOK
    BY MaxOfTypeAssumption DEF Init, TypeOK, GpuPool
  <2>2. ASSUME NEW g \in GpuTypes
        PROVE  Pooled(g)
    <3>1. pools[g].total = 0 /\ pools[g].allocated = 0
          /\ pools[g].free = [n \in Nodes |-> -1]
      BY DEF Init
    <3>2. Left(pools[g].free) = {}
      BY <3>1, MaxOfTypeAssumption DEF Left
    <3>3. FreeOnNodes(g) = 0
      BY <3>2, FS_EmptySet DEF FreeOnNodes
    <3>4. \A n \in todo : pools[g].free[n] = -1
      BY <3>1 DEF Init
    <3> QED BY <3>1, <3>3, <3>4 DEF Pooled
  <2> QED BY <2>1, <2>2 DEF PoolInv
<1>2. PoolInv /\ [Next]_vars => PoolInv'
  <2>1. ASSUME PoolInv, UNCHANGED vars PROVE PoolInv'
    BY <2>1 DEF PoolInv, TypeOK, Pooled, FreeOnNodes, Consistent, vars
  <2> QED BY <2>1, CountNodeKeeps, ComputeKeeps DEF Next
<1> QED BY <1>1, <1>2, PTL DEF Spec

----------------------------------------------------------------------------
\* Whatever the nodes report, what a pool counts is a number of GPUs, never less than
\* none (types.rs, GpuPool of u32).
THEOREM PoolsTyped == Spec => []TypeOK
<1>1. PoolInv => TypeOK
  BY DEF PoolInv
<1> QED BY <1>1, PoolsHold, PTL

\* For any number of nodes in any order, and whatever the scheduler reports of them: a
\* pool offers no more GPUs than its nodes have left (spur_client.rs:436-487).
THEOREM PoolsNeverOverstate == Spec => []NeverOverstated
<1>1. PoolInv => NeverOverstated
  <2> SUFFICES ASSUME PoolInv, Answered, NEW g \in GpuTypes
               PROVE  pools[g].available <= FreeOnNodes(g)
    BY DEF NeverOverstated
  <2>1. FreeOnNodes(g) \in Nat
    BY LeftCounted DEF FreeOnNodes
  <2>2. pools[g].total \in Nat /\ pools[g].allocated \in Nat
        /\ pools[g].total - pools[g].allocated <= FreeOnNodes(g)
    BY DEF PoolInv, TypeOK, GpuPool, Pooled
  <2> QED BY <2>1, <2>2 DEF Answered, saturating_sub
<1> QED BY <1>1, PoolsHold, PTL

\* If no node has more GPUs allocated than it has, what a pool offers is what its nodes
\* have left, all of it (issue #41, spur_client.rs:438-493).
THEOREM PoolsAreExact == Spec => []PoolMatchesNodes
<1>1. PoolInv => PoolMatchesNodes
  <2> SUFFICES ASSUME PoolInv, Answered, Consistent, NEW g \in GpuTypes
               PROVE  pools[g].available = FreeOnNodes(g)
    BY DEF PoolMatchesNodes
  <2>1. FreeOnNodes(g) \in Nat
    BY LeftCounted DEF FreeOnNodes
  <2>2. pools[g].total \in Nat /\ pools[g].allocated \in Nat
        /\ pools[g].total - pools[g].allocated = FreeOnNodes(g)
    BY DEF PoolInv, TypeOK, GpuPool, Pooled
  <2> QED BY <2>1, <2>2 DEF Answered, saturating_sub
<1> QED BY <1>1, PoolsHold, PTL
=============================================================================
