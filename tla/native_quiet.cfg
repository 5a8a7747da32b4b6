\* native-host: three sessions of one user, two of them created at once, against a
\* quota with room for one; one replica, nobody deletes, nothing is requeued.
SPECIFICATION Spec
CONSTANTS
    s1 = s1
    s2 = s2
    s3 = s3
    u1 = u1
    r1 = r1
    r2 = r2
    none = none
    unlimited = unlimited
    Sessions = {s1, s2, s3}
    NoSession = none
    Users = {u1}
    Owner <- OneOwner
    NoQuota = unlimited
    CrdWord <- Words4Crd
    Replicas = {r1}
    GpuCount <- TwoGpus
    SshEnabled <- WithSsh
    Backend = "native_host"
    MaxFaults = 1
    Endings <- CompletedOrKilled
    MaxRequeues = 0
    Forgetful = TRUE
    LostReplies = TRUE
    GpuTotal = 8
    MaxGpus <- QuotaOfThree
    MaxInFlight = 2
    MaxDeletes = 0
    Deletable <- Active
    EarlyDelete = TRUE
INVARIANT VerdictMatchesJob
INVARIANT SingleBilling
INVARIANT OverrunIsBounded
PROPERTY ImplementsContract
SYMMETRY SessionSymmetry
CHECK_DEADLOCK FALSE
