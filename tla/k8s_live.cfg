\* K8s: one replica, one failure (a lost answer among them), one requeue.
SPECIFICATION FairSpec
CONSTANTS
    s1 = s1
    s2 = s2
    s3 = s3
    u1 = u1
    r1 = r1
    r2 = r2
    none = none
    unlimited = unlimited
    Sessions = {s1}
    NoSession = none
    Users = {u1}
    Owner <- OneOwner
    NoQuota = unlimited
    CrdWord <- Words4Crd
    Replicas = {r1}
    GpuCount <- NoGpu
    SshEnabled <- WithSsh
    Backend = "k8s"
    MaxFaults = 1
    Endings <- Normal
    MaxRequeues = 1
    Forgetful = FALSE
    LostReplies = TRUE
    GpuTotal = 8
    MaxGpus <- Unlimited
    MaxInFlight = 1
    MaxDeletes = 1
    Deletable <- Active
    EarlyDelete = TRUE
INVARIANT StartedFirst
PROPERTY RunningIsDetected
PROPERTY JobEndIsNoticed
PROPERTY BillingCloses
PROPERTY ServiceIsRemoved
CHECK_DEADLOCK FALSE
