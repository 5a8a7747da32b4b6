\* native-host: a delete overtakes the creation, no failure.
SPECIFICATION FairSpec
CONSTANTS
    s1 = s1
    s2 = s2
    s3 = s3
    u1 = u1
    r1 = r1
    r2 = r2
    none = none
    unlimited = unlimited
    Sessions = {s1}
    NoSession = none
    Users = {u1}
    Owner <- OneOwner
    NoQuota = unlimited
    CrdWord <- Words4Crd
    Replicas = {r1}
    GpuCount <- OneGpu
    SshEnabled <- WithSsh
    Backend = "native_host"
    MaxFaults = 0
    Endings <- OneOfEach
    MaxRequeues = 1
    Forgetful = FALSE
    LostReplies = FALSE
    GpuTotal = 8
    MaxGpus <- Unlimited
    MaxInFlight = 1
    MaxDeletes = 1
    Deletable <- Active
    EarlyDelete = TRUE
PROPERTY StoppingTerminates
CHECK_DEADLOCK FALSE
