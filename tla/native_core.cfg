\* native-host: one session, two replicas, one of which may hang, and everything
\* that can go wrong once; a DELETE may come for a session that has ended.
SPECIFICATION FairSpec
CONSTANTS
    s1 = s1
    s2 = s2
    s3 = s3
    u1 = u1
    r1 = r1
    r2 = r2
    none = none
    unlimited = unlimited
    Sessions = {s1}
    NoSession = none
    Users = {u1}
    Owner <- OneOwner
    NoQuota = unlimited
    CrdWord <- Words4Crd
    Replicas = {r1, r2}
    GpuCount <- OneGpu
    SshEnabled <- WithSsh
    Backend = "native_host"
    MaxFaults = 1
    Endings <- Normal
    MaxRequeues = 1
    Forgetful = TRUE
    LostReplies = TRUE
    GpuTotal = 8
    MaxGpus <- Unlimited
    MaxInFlight = 1
    MaxDeletes = 1
    Deletable <- AnyState
    EarlyDelete = TRUE
INVARIANT TypeOK
INVARIANT EndedMeansJobOver
INVARIANT RunningIsBilled
INVARIANT NoOrphanJob
PROPERTY ImplementsContract
PROPERTY EndLasts
CHECK_DEADLOCK FALSE
