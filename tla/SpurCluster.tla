----------------------------- MODULE SpurCluster -----------------------------
(***************************************************************************)
(* What the control plane talks to: the Spur scheduler (spurctld, gRPC),   *)
(* and on the K8s backend the SpurJob custom resource, the spur-k8s        *)
(* operator behind it, the pod of the job and the NodePort service that    *)
(* exposes its sshd.  None of it is in this repository: it is modelled     *)
(* from the calls the code makes and the answers it distinguishes.         *)
(*                                                                         *)
(* A session submits at most one job, so a job is named by its session.    *)
(***************************************************************************)
EXTENDS SessionTypes

CONSTANTS
    Endings,       \* bound: the <<state, exit class>> pairs in which jobs end here
    MaxRequeues,   \* bound: running jobs put back in the queue in one behaviour
    Forgetful,     \* whether the scheduler may drop the record of a finished job
    LostReplies,   \* whether a creation can succeed and still report an error
    GpuTotal,      \* GPUs of the schedulable nodes
    CrdWord        \* status.state the operator writes for each job state

ASSUME EndingsAssumption == Endings \subseteq EndedJobStates \X ExitClasses
ASSUME ClusterAssumption ==
    /\ MaxRequeues \in Nat
    /\ GpuTotal \in Nat
    /\ Forgetful \in BOOLEAN
    /\ LostReplies \in BOOLEAN
\* The sync loop parses this word with a default of 'failed', so only words it
\* knows keep a live job's session alive.  The vocabulary is the operator's.
ASSUME CrdWordAssumption ==
    /\ DOMAIN CrdWord = JobStates
    /\ \A js \in LiveJobStates : ~ is_terminal(parse(CrdWord[js]))

VARIABLES
    jobs,       \* the scheduler's view of each session's job
    crd,        \* the SpurJob resource and the status published on it
    pods,       \* the job's pod, as the ContainersReady check sees it
    services,   \* sessions whose ssh service exists
    requeues    \* running jobs requeued so far

clusterVars == <<jobs, crd, pods, services, requeues>>

\* cancel: a cancellation was accepted; known: get_job still finds the job.
Job == [state : JobStates \cup {"none"}, exit : ExitClasses,
        cancel : BOOLEAN, known : BOOLEAN]
\* word "none": no status yet; id: status.spur_job_id is set; node: assigned_nodes is not empty.
Words == {CrdWord[js] : js \in JobStates} \cup {"pending", "none"}
Crd == [exists : BOOLEAN, word : Words, id : BOOLEAN, node : BOOLEAN]
NoCrd == [exists |-> FALSE, word |-> "none", id |-> FALSE, node |-> FALSE]
PodStates == {"absent", "waiting", "ready"}

ClusterTypeOK ==
    /\ jobs \in [Sessions -> Job]
    /\ crd \in [Sessions -> Crd]
    /\ pods \in [Sessions -> PodStates]
    /\ services \in [Sessions -> BOOLEAN]
    /\ requeues \in 0..MaxRequeues

ClusterInit ==
    /\ jobs = [s \in Sessions |-> [state |-> "none", exit |-> "zero",
                                   cancel |-> FALSE, known |-> TRUE]]
    /\ crd = [s \in Sessions |-> NoCrd]
    /\ pods = [s \in Sessions |-> "absent"]
    /\ services = [s \in Sessions |-> FALSE]
    /\ requeues = 0

Submitted(s) == jobs[s].state # "none"
Live(s) == jobs[s].state \in LiveJobStates
Over(s) == jobs[s].state \in EndedJobStates

\* The pool get_gpu_capacity reports as available: what running jobs leave.
available ==
    GpuTotal - Cardinality(
        Gpus({s \in Sessions : jobs[s].state \in {"JobRunning", "JobCompleting"}}))

----------------------------------------------------------------------------
(* The effect of the calls the control plane makes. *)

submit_job(s) == [jobs EXCEPT ![s].state = "JobPending"]

\* Accepted for a live job; the job winds down in its own time.
cancel_job(s) == IF Live(s) THEN [jobs EXCEPT ![s].cancel = TRUE] ELSE jobs

create_crd(s) == [crd EXCEPT ![s] = [NoCrd EXCEPT !.exists = TRUE]]
delete_crd(s) == [crd EXCEPT ![s] = NoCrd]

----------------------------------------------------------------------------
(* What the scheduler, the kubelet and the operator do on their own. *)

JobMoves(s, from, to) ==
    /\ jobs[s].state = from
    /\ jobs' = [jobs EXCEPT ![s].state = to]
    /\ UNCHANGED <<crd, services>>

StartJob(s) ==
    /\ ~ jobs[s].cancel
    /\ JobMoves(s, "JobPending", "JobRunning")
    /\ UNCHANGED <<pods, requeues>>

SuspendJob(s) == JobMoves(s, "JobRunning", "JobSuspended") /\ UNCHANGED <<pods, requeues>>
ResumeJob(s) == JobMoves(s, "JobSuspended", "JobRunning") /\ UNCHANGED <<pods, requeues>>
CompleteJob(s) == JobMoves(s, "JobRunning", "JobCompleting") /\ UNCHANGED <<pods, requeues>>

RequeueJob(s) ==
    /\ requeues < MaxRequeues
    /\ ~ jobs[s].cancel
    /\ JobMoves(s, "JobRunning", "JobPending")
    /\ pods' = [pods EXCEPT ![s] = "absent"]
    /\ requeues' = requeues + 1

EndJob(s) ==
    /\ Live(s)
    /\ \E e \in Endings :
          jobs' = [jobs EXCEPT ![s].state = e[1], ![s].exit = e[2]]
    /\ pods' = [pods EXCEPT ![s] = "absent"]
    /\ UNCHANGED <<crd, services, requeues>>

ForgetJob(s) ==
    /\ Forgetful /\ Over(s) /\ jobs[s].known
    /\ jobs' = [jobs EXCEPT ![s].known = FALSE]
    /\ UNCHANGED <<crd, pods, services, requeues>>

\* The image is pulled, then the containers become ready.
PodProgress(s) ==
    /\ Backend = "k8s"
    /\ jobs[s].state = "JobRunning"
    /\ \/ pods[s] = "absent" /\ pods' = [pods EXCEPT ![s] = "waiting"]
       \/ pods[s] = "waiting" /\ pods' = [pods EXCEPT ![s] = "ready"]
    /\ UNCHANGED <<jobs, crd, services, requeues>>

OperatorSubmits(s) ==
    /\ crd[s].exists /\ ~ Submitted(s)
    /\ jobs' = submit_job(s)
    /\ UNCHANGED <<crd, pods, services, requeues>>

\* The status may name the job and its node later than its state.
OperatorPublishes(s) ==
    /\ crd[s].exists
    /\ \E id \in {crd[s].id, Submitted(s)}, node \in {crd[s].node, Submitted(s)} :
          crd' = [crd EXCEPT ![s] =
                     [exists |-> TRUE,
                      word |-> IF Submitted(s) THEN CrdWord[jobs[s].state] ELSE "pending",
                      id |-> id, node |-> node]]
    /\ crd' # crd
    /\ UNCHANGED <<jobs, pods, services, requeues>>

\* A job whose resource was deleted is cancelled.
OperatorReaps(s) ==
    /\ Backend = "k8s"
    /\ ~ crd[s].exists /\ Live(s) /\ ~ jobs[s].cancel
    /\ jobs' = cancel_job(s)
    /\ UNCHANGED <<crd, pods, services, requeues>>

SpurStep(s) ==
    \/ StartJob(s) \/ SuspendJob(s) \/ ResumeJob(s) \/ CompleteJob(s)
    \/ RequeueJob(s) \/ EndJob(s) \/ ForgetJob(s)

OperatorStep(s) ==
    OperatorSubmits(s) \/ OperatorPublishes(s) \/ OperatorReaps(s)
=============================================================================
