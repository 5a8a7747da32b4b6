\* native-host: two replicas, no failure, no delete.
SPECIFICATION Spec
CONSTANTS
    s1 = s1
    s2 = s2
    s3 = s3
    u1 = u1
    r1 = r1
    r2 = r2
    none = none
    unlimited = unlimited
    Sessions = {s1}
    NoSession = none
    Users = {u1}
    Owner <- OneOwner
    NoQuota = unlimited
    CrdWord <- Words4Crd
    Replicas = {r1, r2}
    GpuCount <- OneGpu
    SshEnabled <- WithSsh
    Backend = "native_host"
    MaxFaults = 0
    Endings <- OneOfEach
    MaxRequeues = 0
    Forgetful = FALSE
    LostReplies = FALSE
    GpuTotal = 8
    MaxGpus <- Unlimited
    MaxInFlight = 1
    MaxDeletes = 0
    Deletable <- Active
    EarlyDelete = TRUE
INVARIANT SingleBilling
SYMMETRY ReplicaSymmetry
CHECK_DEADLOCK FALSE
