----------------------------- MODULE GpuCapacity -----------------------------
(***************************************************************************)
(* get_gpu_capacity: the pools of GPUs, one per type, that GET /api/gpus   *)
(* shows and that POST /api/sessions compares a request with.  The nodes   *)
(* come in the order the scheduler happens to answer in.  What a node      *)
(* reports as allocated is the scheduler's own bookkeeping and need not    *)
(* agree with what it reports as its total.                                *)
(***************************************************************************)
EXTENDS Integers, FiniteSets

CONSTANTS
    Nodes,
    GpuTypes,
    MaxOfType    \* bound: GPUs of one type a node reports

ASSUME NodesAssumption == IsFiniteSet(Nodes)
ASSUME MaxOfTypeAssumption == MaxOfType \in Nat

VARIABLES
    nodes,    \* the answer of get_nodes: state and GPUs, counted by type
    todo,     \* the nodes the loop has not come to
    pools     \* the HashMap of GpuPool; known is membership

vars == <<nodes, todo, pools>>

\* One state for the schedulable ones (idle, allocated, mixed), one for the rest.
NodeStates == {"NodeIdle", "NodeDrain"}
Counts == [GpuTypes -> 0..MaxOfType]
Node == [state : NodeStates, total : Counts, alloc : Counts]

\* free: available_gpus of the nodes listed, -1 for those that are not.
GpuPool == [known : BOOLEAN, total : Nat, allocated : Nat, available : Nat,
            free : [Nodes -> -1..MaxOfType]]

\* A pool counts GPUs, never less than none (GpuPool is made of u32).
TypeOK ==
    /\ nodes \in [Nodes -> Node]
    /\ todo \subseteq Nodes
    /\ pools \in [GpuTypes -> GpuPool]

Init ==
    /\ nodes \in [Nodes -> Node]
    /\ todo = Nodes
    /\ pools = [g \in GpuTypes |->
                  [known |-> FALSE, total |-> 0, allocated |-> 0, available |-> 0,
                   free |-> [n \in Nodes |-> -1]]]

is_node_schedulable(state) == state = "NodeIdle"

\* Broken form: plain subtraction.
less(a, b) == a - b

saturating_sub(a, b) == IF a < b THEN 0 ELSE a - b

\* Broken forms: GPUs of any node are counted, on one side only.
every_total(n, g) == nodes[n].total[g]
every_alloc(n, g) == nodes[n].alloc[g]

counted_total(n, g) ==
    IF is_node_schedulable(nodes[n].state) THEN nodes[n].total[g] ELSE 0
counted_alloc(n, g) ==
    IF is_node_schedulable(nodes[n].state) THEN nodes[n].alloc[g] ELSE 0

node_free(n, g) ==
    IF is_node_schedulable(nodes[n].state)
      THEN saturating_sub(nodes[n].total[g], nodes[n].alloc[g]) ELSE 0

\* One turn of the loop.  An allocated GPU of a type no node had so far is
\* passed over; one of a type only another node has is counted.
CountNode(n) ==
    /\ n \in todo
    /\ todo' = todo \ {n}
    /\ pools' = [g \in GpuTypes |->
         LET reported == nodes[n].total[g] > 0
             known == pools[g].known \/ reported
         IN [pools[g] EXCEPT
               !.known = known,
               !.total = @ + counted_total(n, g),
               !.allocated = @ + IF known THEN counted_alloc(n, g) ELSE 0,
               !.free[n] = IF reported THEN node_free(n, g) ELSE @]]
    /\ UNCHANGED nodes

\* The last loop fills in what is available; todo is then as it was.
ComputeAvailable ==
    /\ todo = {}
    /\ pools' = [g \in GpuTypes |->
         [pools[g] EXCEPT !.available = saturating_sub(pools[g].total, pools[g].allocated)]]
    /\ pools' # pools
    /\ UNCHANGED <<nodes, todo>>

Next == ComputeAvailable \/ \E n \in Nodes : CountNode(n)

Spec == Init /\ [][Next]_vars

----------------------------------------------------------------------------
\* Both passes over the nodes are over.
Answered ==
    /\ todo = {}
    /\ \A g \in GpuTypes : pools[g].available = saturating_sub(pools[g].total, pools[g].allocated)

\* The GPUs that nodes have left, each a node and a number.
Left(free) == {gpu \in Nodes \X (1..MaxOfType) : gpu[2] <= free[gpu[1]]}
FreeOnNodes(g) == Cardinality(Left(pools[g].free))

\* A scheduler that agrees with itself: no node has more GPUs allocated than it has.
Consistent == \A n \in Nodes : \A g \in GpuTypes : nodes[n].alloc[g] <= nodes[n].total[g]

\* When the scheduler agrees with itself, what a pool calls available is what its
\* nodes have left, in whatever order they came (issue #41, spur_client.rs:438-493).
PoolMatchesNodes ==
    Answered /\ Consistent => \A g \in GpuTypes : pools[g].available = FreeOnNodes(g)

\* Whatever the scheduler reports, a pool never offers more GPUs than its nodes
\* have left: a request is not let through on the strength of a drained node or
\* of an allocation that was dropped (spur_client.rs:436-446).
NeverOverstated ==
    Answered => \A g \in GpuTypes : pools[g].available <= FreeOnNodes(g)
=============================================================================
