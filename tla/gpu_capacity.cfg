\* Three nodes with up to two GPUs; types share nothing, so one is enough.
SPECIFICATION Spec
CONSTANTS
    Nodes = {n1, n2, n3}
    GpuTypes = {mi300x}
    MaxOfType = 2
INVARIANT TypeOK
INVARIANT PoolMatchesNodes
INVARIANT NeverOverstated
CHECK_DEADLOCK FALSE
