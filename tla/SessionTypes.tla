---------------------------- MODULE SessionTypes ----------------------------
(***************************************************************************)
(* The vocabulary every part of spur-cloud shares: the states of a session *)
(* (common/session_types.rs), the states in which Spur reports a job, and  *)
(* the verdict the control plane draws from a job that is over.            *)
(***************************************************************************)
EXTENDS Integers, FiniteSets

CONSTANTS
    Sessions,      \* the sessions that are ever requested
    NoSession,     \* "no session", for a loop that is between sessions
    Users,         \* the accounts
    Owner,         \* the user a session belongs to
    GpuCount,      \* the GPUs a session asks for; 0 is a CPU-only session
    SshEnabled,    \* whether a session asks for SSH
    Backend        \* config.server.backend

ASSUME NoSessionAssumption == NoSession \notin Sessions
ASSUME OwnerAssumption == Owner \in [Sessions -> Users]
ASSUME GpuCountAssumption == GpuCount \in [Sessions -> 0..8]
ASSUME SshAssumption == SshEnabled \in [Sessions -> BOOLEAN]
ASSUME BackendAssumption == Backend \in {"k8s", "native_host"}

ActiveStates == {"creating", "pending", "starting", "running", "stopping"}
TerminalStates == {"completed", "failed", "cancelled"}
SessionStates == ActiveStates \cup TerminalStates

\* The GPUs that sessions ask for, each by itself: how many there are is the sum of
\* what each session asks for.
Gpus(S) == {g \in S \X (1..8) : g[2] <= GpuCount[g[1]]}

is_terminal(state) == state \in TerminalStates

\* A word the enum does not know is taken for a failure.
parse(word) == IF word \in SessionStates THEN word ELSE "failed"

(***************************************************************************)
(* Job states as Spur reports them.  JobSuspended stands for every value   *)
(* the sync loop does not match.  An exit code is one of the three classes *)
(* the loop tells apart: zero, a SIGINT/SIGTERM/SIGKILL code, any other.   *)
(***************************************************************************)
LiveJobStates == {"JobPending", "JobRunning", "JobSuspended", "JobCompleting"}
EndedJobStates ==
    {"JobCompleted", "JobFailed", "JobCancelled", "JobTimeout", "JobNodeFail"}
JobStates == LiveJobStates \cup EndedJobStates
ExitClasses == {"zero", "signal", "other"}

\* Broken form: the state of the job alone decides, whatever its exit code.
state_alone(js, exit) ==
    IF js = "JobCancelled" THEN "cancelled"
    ELSE IF js = "JobCompleted" THEN "completed" ELSE "failed"

\* The session state a job that is over leaves behind.
ended_state(js, exit) ==
    IF \/ js = "JobCancelled"
       \/ js \in {"JobCompleted", "JobFailed"} /\ exit = "signal"
      THEN "cancelled"
      ELSE IF js = "JobCompleted" /\ exit = "zero" THEN "completed" ELSE "failed"

\* Broken forms: a job that is winding down already counts as completed, or is
\* stored under the scheduler's own name for it.
completing_is_completed(js) ==
    [JobPending |-> "pending", JobRunning |-> "running",
     JobCompleting |-> "completed"][js]
completing_kept(js) ==
    [JobPending |-> "pending", JobRunning |-> "running",
     JobCompleting |-> "completing"][js]

\* The session state of a job that is not over, pods aside.
live_state(js) ==
    [JobPending |-> "pending", JobRunning |-> "running",
     JobCompleting |-> "stopping"][js]

session_state(js, exit) ==
    IF js \in EndedJobStates THEN ended_state(js, exit) ELSE live_state(js)
=============================================================================
