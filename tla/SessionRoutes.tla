---------------------------- MODULE SessionRoutes ----------------------------
(***************************************************************************)
(* POST /api/sessions and DELETE /api/sessions/:id (routes/sessions.rs).   *)
(* Each handler runs as a task of its own, next to the other handlers and  *)
(* to the sync loops of every replica; every await is a step at which they *)
(* interleave.  The future of a request is dropped when its client hangs   *)
(* up or its replica dies: AbandonCreate and AbandonDelete.                *)
(***************************************************************************)
EXTENDS SessionStore, SpurCluster

CONSTANTS
    MaxGpus,      \* users.max_gpus; NoQuota is NULL, unlimited
    NoQuota,
    MaxInFlight,  \* bound: creations of one user in progress together
    MaxDeletes,   \* bound: DELETE requests in one behaviour
    Deletable,    \* the states in which clients send DELETE
    EarlyDelete   \* whether a DELETE may come before the creation was answered

ASSUME QuotaAssumption == \A u \in Users : MaxGpus[u] \in Nat \cup {NoQuota}
ASSUME RoutesAssumption ==
    /\ MaxInFlight \in Nat \ {0}
    /\ MaxDeletes \in Nat
    /\ Deletable \subseteq SessionStates
    /\ EarlyDelete \in BOOLEAN

VARIABLES
    creator,   \* where the POST handler of each session stands
    deleter,   \* where the DELETE handler of each session stands
    deletes    \* DELETE requests so far

routeVars == <<creator, deleter, deletes>>

CreatorSteps == {"idle", "quota", "capacity", "insert", "submit", "bind", "fail", "replied"}
InFlight == CreatorSteps \ {"idle", "replied"}
DeleterSteps == {"idle", "cancel", "mark"}

RoutesTypeOK ==
    /\ creator \in [Sessions -> CreatorSteps]
    /\ deleter \in [Sessions -> DeleterSteps]
    /\ deletes \in 0..MaxDeletes

RoutesInit ==
    /\ creator = [s \in Sessions |-> "idle"]
    /\ deleter = [s \in Sessions |-> "idle"]
    /\ deletes = 0

----------------------------------------------------------------------------
(* create_session *)

CreateAt(s, from, to) ==
    /\ creator[s] = from
    /\ creator' = [creator EXCEPT ![s] = to]
    /\ UNCHANGED <<deleter, deletes>>

PostSession(s) ==
    /\ Cardinality({t \in Sessions : Owner[t] = Owner[s] /\ creator[t] \in InFlight})
         < MaxInFlight
    /\ CreateAt(s, "idle", IF GpuCount[s] > 0 THEN "quota" ELSE "insert")
    /\ UNCHANGED <<storeVars, clusterVars>>

\* Broken form: compares what is in use and forgets what is asked for.
within_without_request(s, active_gpus) ==
    MaxGpus[Owner[s]] = NoQuota \/ active_gpus < MaxGpus[Owner[s]]

within_quota(s, active_gpus) ==
    MaxGpus[Owner[s]] = NoQuota \/ active_gpus + GpuCount[s] <= MaxGpus[Owner[s]]

\* A failed user lookup skips the check; a failed count is taken for 0.
CheckQuota(s) ==
    /\ \/ /\ CreateAt(s, "quota",
                IF within_quota(s, count_active_gpus_for_user(Owner[s]))
                  THEN "capacity" ELSE "replied")
          /\ NoFault
       \/ CreateAt(s, "quota", IF within_quota(s, 0) THEN "capacity" ELSE "replied") /\ Fault
       \/ CreateAt(s, "quota", "capacity") /\ Fault
    /\ UNCHANGED <<rows, usage, clusterVars>>

\* A scheduler that does not answer does not stop the request.
CheckCapacity(s) ==
    /\ \/ /\ CreateAt(s, "capacity", IF GpuCount[s] > available THEN "replied" ELSE "insert")
          /\ NoFault
       \/ CreateAt(s, "capacity", "insert") /\ Fault
    /\ UNCHANGED <<rows, usage, clusterVars>>

InsertRow(s) ==
    /\ \/ CreateAt(s, "insert", "submit") /\ rows' = create_session(s) /\ NoFault
       \/ CreateAt(s, "insert", "replied") /\ UNCHANGED rows /\ Fault
    /\ UNCHANGED <<usage, clusterVars>>

\* create_spurjob_crd.  An error may be an answer that was lost.
CreateCrd(s) ==
    /\ Backend = "k8s"
    /\ \/ CreateAt(s, "submit", "replied") /\ crd' = create_crd(s) /\ NoFault
       \/ CreateAt(s, "submit", "fail") /\ UNCHANGED crd /\ Fault
       \/ LostReplies /\ CreateAt(s, "submit", "fail") /\ crd' = create_crd(s) /\ Fault
    /\ UNCHANGED <<rows, usage, jobs, pods, services, requeues>>

\* submit_session.  The user is looked up first, and a failure there answers
\* 500 with the row left as it is.
SubmitJob(s) ==
    /\ Backend = "native_host"
    /\ \/ CreateAt(s, "submit", "bind") /\ jobs' = submit_job(s) /\ NoFault
       \/ CreateAt(s, "submit", "fail") /\ UNCHANGED jobs /\ Fault
       \/ LostReplies /\ CreateAt(s, "submit", "fail") /\ jobs' = submit_job(s) /\ Fault
       \/ CreateAt(s, "submit", "replied") /\ UNCHANGED jobs /\ Fault
    /\ UNCHANGED <<rows, usage, crd, pods, services, requeues>>

BindJob(s) ==
    /\ CreateAt(s, "bind", "replied")
    /\ Try(update_session_spur_job(s))
    /\ UNCHANGED <<usage, clusterVars>>

MarkFailed(s) ==
    /\ CreateAt(s, "fail", "replied")
    /\ Try(update_session_failed(s))
    /\ UNCHANGED <<usage, clusterVars>>

AbandonCreate(s) ==
    /\ creator[s] \in InFlight
    /\ CreateAt(s, creator[s], "replied")
    /\ Fault
    /\ UNCHANGED <<rows, usage, clusterVars>>

----------------------------------------------------------------------------
(* delete_session *)

DeleteAt(s, from, to) ==
    /\ deleter[s] = from
    /\ deleter' = [deleter EXCEPT ![s] = to]
    /\ UNCHANGED creator

\* Reads the row once: without a job id the native backend has nothing to cancel.
DeleteRequest(s) ==
    /\ deletes < MaxDeletes
    /\ rows[s].state \in Deletable
    /\ EarlyDelete \/ creator[s] = "replied"
    /\ DeleteAt(s, "idle",
          IF Backend = "k8s" \/ rows[s].bound THEN "cancel" ELSE "mark")
    /\ deletes' = deletes + 1
    /\ UNCHANGED <<storeVars, clusterVars>>

\* The call that ends the work: the resource on K8s, the job itself otherwise.
cancel_work(s) ==
    IF Backend = "k8s" THEN crd' = delete_crd(s) /\ UNCHANGED jobs
                       ELSE jobs' = cancel_job(s) /\ UNCHANGED crd

\* An error is logged and the handler goes on.
CancelWork(s) ==
    /\ DeleteAt(s, "cancel", "mark")
    /\ \/ cancel_work(s) /\ NoFault
       \/ UNCHANGED <<jobs, crd>> /\ Fault
    /\ UNCHANGED <<deletes, rows, usage, pods, services, requeues>>

MarkStopping(s) ==
    /\ DeleteAt(s, "mark", "idle")
    /\ Try(update_session_state(s, "stopping"))
    /\ UNCHANGED <<deletes, usage, clusterVars>>

AbandonDelete(s) ==
    /\ deleter[s] # "idle"
    /\ DeleteAt(s, deleter[s], "idle")
    /\ Fault
    /\ UNCHANGED <<deletes, rows, usage, clusterVars>>

----------------------------------------------------------------------------
CreateStep(s) ==
    \/ CheckQuota(s) \/ CheckCapacity(s) \/ InsertRow(s) \/ CreateCrd(s)
    \/ SubmitJob(s) \/ BindJob(s) \/ MarkFailed(s) \/ AbandonCreate(s)

DeleteStep(s) == CancelWork(s) \/ MarkStopping(s) \/ AbandonDelete(s)

RouteStep(s) == PostSession(s) \/ DeleteRequest(s) \/ CreateStep(s) \/ DeleteStep(s)
=============================================================================
