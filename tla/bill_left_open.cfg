\* native-host: one replica, no failure, the scheduler drops finished jobs.
SPECIFICATION FairSpec
CONSTANTS
    s1 = s1
    s2 = s2
    s3 = s3
    u1 = u1
    r1 = r1
    r2 = r2
    none = none
    unlimited = unlimited
    Sessions = {s1}
    NoSession = none
    Users = {u1}
    Owner <- OneOwner
    NoQuota = unlimited
    CrdWord <- Words4Crd
    Replicas = {r1}
    GpuCount <- OneGpu
    SshEnabled <- WithSsh
    Backend = "native_host"
    MaxFaults = 0
    Endings <- OneOfEach
    MaxRequeues = 1
    Forgetful = TRUE
    LostReplies = FALSE
    GpuTotal = 8
    MaxGpus <- Unlimited
    MaxInFlight = 1
    MaxDeletes = 0
    Deletable <- Active
    EarlyDelete = TRUE
PROPERTY BillingCloses
CHECK_DEADLOCK FALSE
