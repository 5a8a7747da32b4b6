------------------------------ MODULE SyncLoop ------------------------------
(***************************************************************************)
(* session_sync_loop of main.rs: each replica of the API server runs one.  *)
(* A tick lists the active sessions and then deals with them one by one on *)
(* that snapshot, in the order the database happened to return them.       *)
(* Between two awaits anything else may move; no write looks at the row it *)
(* overwrites.                                                             *)
(*                                                                         *)
(* A loop is described by the snapshot it still has to work through, and   *)
(* the await it stands at:                                                 *)
(*   idle     about to take the next session of the snapshot, or to tick   *)
(*   pod      check_k8s_pod_readiness, the job is running                  *)
(*   set      update_session_state                                         *)
(*   run, svc, ssh, bill    the awaits of transition_session_to_running    *)
(*   gone     update_session_failed, the scheduler does not know the job   *)
(*   end, unbill, unsvc     the awaits of the terminal branch              *)
(*   crdBind, crdPod, crdEnd    the awaits of handle_k8s_crd_session       *)
(***************************************************************************)
EXTENDS SessionStore, SpurCluster

CONSTANT Replicas   \* the API server processes

VARIABLE sync       \* the loop of each replica

syncVars == <<sync>>

SyncSteps == {"idle", "pod", "set", "run", "svc", "ssh", "bill", "gone",
              "end", "unbill", "unsvc", "crdBind", "crdPod", "crdEnd"}
CrdSteps == {"crdBind", "crdPod", "crdEnd"}

\* seen: the rows of the snapshot still to be dealt with, "absent" for the others;
\* next: the state the loop decided on, "none" when it decided on nothing.
Seen == [state : SessionStates \cup {"absent"}, bound : BOOLEAN]
NotSeen == [state |-> "absent", bound |-> FALSE]
Loop == [pc : SyncSteps, seen : [Sessions -> Seen],
         cur : Sessions \cup {NoSession}, next : SessionStates \cup {"none"}]
Resting == [pc |-> "idle", seen |-> [s \in Sessions |-> NotSeen],
            cur |-> NoSession, next |-> "none"]

SyncTypeOK == sync \in [Replicas -> Loop]
SyncInit == sync = [r \in Replicas |-> Resting]

----------------------------------------------------------------------------
Todo(r) == {s \in Sessions : sync[r].seen[s].state # "absent"}

\* Replica r goes on with session s at step pc, having decided on next.
Go(r, s, pc, next) ==
    sync' = [sync EXCEPT ![r].pc = pc, ![r].cur = s, ![r].next = next]

\* `continue`, or the end of the loop body.
Done(r, s) ==
    sync' = [sync EXCEPT ![r] =
                [Resting EXCEPT !.seen = [sync[r].seen EXCEPT ![s] = NotSeen]]]

At(r, pc) == sync[r].pc = pc

\* An unbound session of the native backend is passed over without an await.
polled == {s \in list_active_sessions : rows[s].bound \/ Backend = "k8s"}

\* Broken form: the session is billed before its row says it runs.
bill_first(next) ==
    IF next = "running" THEN "bill" ELSE IF is_terminal(next) THEN "end" ELSE "set"

step_for(next) ==
    IF next = "running" THEN "run" ELSE IF is_terminal(next) THEN "end" ELSE "set"

\* Broken form: acts on the state of the job even when the row already shows it.
always_enact(r, s, next) == Go(r, s, step_for(next), next)

Enact(r, s, next) ==
    IF next = sync[r].seen[s].state THEN Done(r, s) ELSE Go(r, s, step_for(next), next)

\* check_pod_containers_ready: a pod that is missing is an error as well.
Readiness == {"ready", "waiting", "error"}
PodAnswers(s, answer) ==
    \/ answer = (IF pods[s] = "absent" THEN "error" ELSE pods[s]) /\ NoFault
    \/ answer = "error" /\ Fault

----------------------------------------------------------------------------
(* session_sync_loop *)

\* A failed query is the tick that did nothing.
SyncList(r) ==
    /\ At(r, "idle") /\ Todo(r) = {}
    /\ polled # {}
    /\ sync' = [sync EXCEPT ![r].seen =
                   [s \in Sessions |->
                      IF s \in polled
                        THEN [state |-> rows[s].state, bound |-> rows[s].bound]
                        ELSE NotSeen]]
    /\ UNCHANGED <<storeVars, clusterVars>>

GetJob(r) == \E s \in Todo(r) :
    /\ At(r, "idle") /\ sync[r].seen[s].bound
    /\ \/ ~ jobs[s].known /\ Go(r, s, "gone", "failed") /\ NoFault
       \/ jobs[s].known /\ jobs[s].state = "JobSuspended" /\ Done(r, s) /\ NoFault
       \/ /\ jobs[s].known /\ jobs[s].state = "JobRunning" /\ Backend = "k8s"
          /\ Go(r, s, "pod", "none") /\ NoFault
       \/ /\ jobs[s].known /\ jobs[s].state # "JobSuspended"
          /\ ~ (jobs[s].state = "JobRunning" /\ Backend = "k8s")
          /\ Enact(r, s, session_state(jobs[s].state, jobs[s].exit)) /\ NoFault
       \/ Done(r, s) /\ Fault
    /\ UNCHANGED <<rows, usage, clusterVars>>

\* Broken form: only a pending session is taken to running.
only_from_pending(answer, current) ==
    IF current # "pending" THEN current
    ELSE IF answer = "ready" THEN "running" ELSE "starting"

\* While the pod is not ready a pending session is shown as starting; any other
\* one, and every one of whose pod nothing is learnt, keeps its state.
pod_state(answer, current) ==
    IF answer = "ready" THEN "running"
    ELSE IF answer = "waiting" /\ current = "pending" THEN "starting" ELSE current

PodCheck(r) == LET s == sync[r].cur IN
    /\ At(r, "pod")
    /\ \E answer \in Readiness :
          /\ PodAnswers(s, answer)
          /\ Enact(r, s, pod_state(answer, sync[r].seen[s].state))
    /\ UNCHANGED <<rows, usage, clusterVars>>

SetState(r) == LET s == sync[r].cur IN
    /\ At(r, "set")
    /\ Try(update_session_state(s, sync[r].next))
    /\ Done(r, s)
    /\ UNCHANGED <<usage, clusterVars>>

SetFailed(r) == LET s == sync[r].cur IN
    /\ At(r, "gone")
    /\ Try(update_session_failed(s))
    /\ Done(r, s)
    /\ UNCHANGED <<usage, clusterVars>>

----------------------------------------------------------------------------
(* transition_session_to_running: any `?` that fails leaves the rest undone. *)

after_running(s) ==
    IF ~ SshEnabled[s] THEN "bill" ELSE IF Backend = "k8s" THEN "svc" ELSE "ssh"

SetRunning(r) == LET s == sync[r].cur IN
    /\ At(r, "run")
    /\ \/ rows' = update_session_running(s) /\ Go(r, s, after_running(s), "running") /\ NoFault
       \/ UNCHANGED rows /\ Done(r, s) /\ Fault
    /\ UNCHANGED <<usage, clusterVars>>

\* create_ssh_service.  A name that is taken, or any other error, is logged
\* and the session goes on to be billed without an address; an error may be an
\* answer that was lost.
CreateService(r) == LET s == sync[r].cur IN
    /\ At(r, "svc")
    /\ \/ /\ ~ services[s] /\ services' = [services EXCEPT ![s] = TRUE]
          /\ Go(r, s, "ssh", "running") /\ NoFault
       \/ services[s] /\ UNCHANGED services /\ Go(r, s, "bill", "running") /\ NoFault
       \/ UNCHANGED services /\ Go(r, s, "bill", "running") /\ Fault
       \/ /\ LostReplies /\ services' = [services EXCEPT ![s] = TRUE]
          /\ Go(r, s, "bill", "running") /\ Fault
    /\ UNCHANGED <<rows, usage, jobs, crd, pods, requeues>>

SetSsh(r) == LET s == sync[r].cur IN
    /\ At(r, "ssh")
    /\ \/ rows' = update_session_ssh(s) /\ Go(r, s, "bill", "running") /\ NoFault
       \/ UNCHANGED rows /\ Done(r, s) /\ Fault
    /\ UNCHANGED <<usage, clusterVars>>

BillStart(r) == LET s == sync[r].cur IN
    /\ At(r, "bill")
    /\ \/ usage' = record_usage_start(s) /\ NoFault
       \/ UNCHANGED usage /\ Fault
    /\ Done(r, s)
    /\ UNCHANGED <<rows, clusterVars>>

----------------------------------------------------------------------------
(* The terminal branch: three writes, each attempted whatever came of the others. *)

SetEnded(r) == LET s == sync[r].cur IN
    /\ At(r, "end")
    /\ Try(update_session_ended(s, sync[r].next))
    /\ Go(r, s, "unbill", sync[r].next)
    /\ UNCHANGED <<usage, clusterVars>>

\* Broken form: the backends are swapped.
cleanup_on_native(s) == SshEnabled[s] /\ Backend = "native_host"

\* A native host's sshd dies with the job.
has_service(s) == SshEnabled[s] /\ Backend = "k8s"

BillEnd(r) == LET s == sync[r].cur IN
    /\ At(r, "unbill")
    /\ \/ usage' = record_usage_end(s) /\ NoFault
       \/ UNCHANGED usage /\ Fault
    /\ IF has_service(s)
         THEN Go(r, s, "unsvc", sync[r].next) ELSE Done(r, s)
    /\ UNCHANGED <<rows, clusterVars>>

DeleteService(r) == LET s == sync[r].cur IN
    /\ At(r, "unsvc")
    /\ \/ services' = [services EXCEPT ![s] = FALSE] /\ NoFault
       \/ UNCHANGED services /\ Fault
    /\ Done(r, s)
    /\ UNCHANGED <<rows, usage, jobs, crd, pods, requeues>>

----------------------------------------------------------------------------
(* handle_k8s_crd_session: the session has no job id yet. *)

\* What the published status asks for; a running job without its id or its
\* node asks for nothing yet.
crd_state(status) ==
    IF parse(status.word) = "running" /\ ~ (status.id /\ status.node)
      THEN "none" ELSE parse(status.word)

FollowCrd(r, s, next) ==
    IF next = "running" THEN Go(r, s, "crdPod", next)
    ELSE IF is_terminal(next) THEN Go(r, s, "crdEnd", next)
    ELSE IF next = "pending" /\ sync[r].seen[s].state # "pending" THEN Go(r, s, "set", next)
    ELSE Done(r, s)

GetCrd(r) == \E s \in Todo(r) :
    /\ At(r, "idle") /\ ~ sync[r].seen[s].bound
    /\ \/ crd[s].word = "none" /\ Done(r, s) /\ NoFault
       \/ /\ crd[s].word # "none" /\ NoFault
          /\ IF crd[s].id THEN Go(r, s, "crdBind", crd_state(crd[s]))
                          ELSE FollowCrd(r, s, crd_state(crd[s]))
       \/ Done(r, s) /\ Fault
    /\ UNCHANGED <<rows, usage, clusterVars>>

CrdBind(r) == LET s == sync[r].cur IN
    /\ At(r, "crdBind")
    /\ Try(update_session_spur_job(s))
    /\ FollowCrd(r, s, sync[r].next)
    /\ UNCHANGED <<usage, clusterVars>>

\* Unlike in PodCheck an error is taken for "not ready", and only a session seen
\* pending or starting moves on.
CrdPodCheck(r) == LET s == sync[r].cur IN
    /\ At(r, "crdPod")
    /\ \E answer \in Readiness :
          /\ PodAnswers(s, answer)
          /\ IF answer = "ready" /\ sync[r].seen[s].state \in {"pending", "starting"}
               THEN Go(r, s, "run", "running")
             ELSE IF answer # "ready" /\ sync[r].seen[s].state = "pending"
               THEN Go(r, s, "set", "starting")
             ELSE Done(r, s)
    /\ UNCHANGED <<rows, usage, clusterVars>>

\* The bill is not closed here, nor the ssh service deleted.
CrdEnded(r) == LET s == sync[r].cur IN
    /\ At(r, "crdEnd")
    /\ Try(update_session_ended(s, sync[r].next))
    /\ Done(r, s)
    /\ UNCHANGED <<usage, clusterVars>>

----------------------------------------------------------------------------
\* The process dies and is started again: the snapshot is lost.
Crash(r) ==
    /\ sync[r] # Resting
    /\ sync' = [sync EXCEPT ![r] = Resting]
    /\ Fault
    /\ UNCHANGED <<rows, usage, clusterVars>>

CrdStep(r) == GetCrd(r) \/ CrdBind(r) \/ CrdPodCheck(r) \/ CrdEnded(r)

SyncStep(r) ==
    \/ SyncList(r) \/ GetJob(r) \/ PodCheck(r) \/ SetState(r) \/ SetFailed(r)
    \/ SetRunning(r) \/ CreateService(r) \/ SetSsh(r) \/ BillStart(r)
    \/ SetEnded(r) \/ BillEnd(r) \/ DeleteService(r) \/ CrdStep(r)
=============================================================================
