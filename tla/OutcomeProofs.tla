---------------------------- MODULE OutcomeProofs ----------------------------
(***************************************************************************)
(* What one step of a handler, of a loop or of the cluster does to the     *)
(* session it is about, whatever the constants; and, from that, HandInv:   *)
(* what a handler or a loop works on exists, and its job was submitted, or *)
(* is over, when the await it stands at needs it.                          *)
(*                                                                         *)
(* The proofs that rest on this read the effects below and not the actions *)
(* of SessionRoutes and SyncLoop.                                          *)
(***************************************************************************)
EXTENDS SessionControlProofs

RowInv(s) ==
    /\ creator[s] \in {"idle", "quota", "capacity", "insert"} => rows[s].state = "absent"
    /\ creator[s] \in {"submit", "bind", "fail"} => rows[s].state # "absent"
    /\ Submitted(s) \/ crd[s].exists \/ deleter[s] # "idle" => rows[s].state # "absent"

HeldInv(r) ==
    /\ sync[r].pc # "idle" => rows[sync[r].cur].state # "absent"
    /\ sync[r].pc = "idle" => sync[r].cur = NoSession
    /\ \A s \in Sessions : sync[r].seen[s].state # "absent" => rows[s].state # "absent"
    /\ sync[r].pc \in {"pod", "run", "crdPod"} => Submitted(sync[r].cur)
    /\ sync[r].pc \in {"unbill", "unsvc"} => Over(sync[r].cur)

HandInv ==
    /\ \A s \in Sessions : RowInv(s)
    /\ \A r \in Replicas : HeldInv(r)

USE DEF Submitted, Over, Live

(***************************************************************************)
(* What the cluster does on its own leads a job forward only.              *)
(***************************************************************************)
Forward(t) ==
    /\ Over(t) => jobs'[t].state = jobs[t].state /\ jobs'[t].exit = jobs[t].exit
    /\ ~ jobs[t].known => ~ jobs'[t].known
    /\ Submitted(t) => Submitted(t)'
    /\ Submitted(t)' => Submitted(t) \/ crd[t].exists
    /\ ~ Submitted(t) => ~ Over(t)'
    /\ jobs[t].state = "JobCompleting" => jobs'[t].state = "JobCompleting" \/ Over(t)'
    /\ MaxRequeues = 0 /\ jobs'[t].state = "JobPending" => jobs[t].state \in {"none", "JobPending"}
    /\ crd'[t].exists = crd[t].exists

\* A step of the cluster leaves the tables, the handlers and the loops alone, and is
\* about one job.
LEMMA EnvironmentMoves ==
    ASSUME IInv, NEW s \in Sessions, Environment(s)
    PROVE  /\ UNCHANGED <<rows, usage, faults, services, creator, deleter, sync>>
           /\ \A t \in Sessions : Forward(t)
           /\ \A t \in Sessions : t # s => jobs'[t] = jobs[t]
<1> USE JobStatesApart, ClusterAssumption, EndingsAssumption
<1>1. /\ jobs \in [Sessions -> Job] /\ crd \in [Sessions -> Crd]
      /\ requeues \in 0..MaxRequeues
      /\ \A t \in Sessions : ~ jobs[t].known => Over(t)
  BY DEF IInv, TypeOK, ClusterTypeOK, JobInv
<1>2. UNCHANGED <<rows, usage, faults, services, creator, deleter, sync>>
  BY DEF Environment, storeVars, routeVars, syncVars, SpurStep, OperatorStep, PodProgress,
         StartJob, SuspendJob, ResumeJob, CompleteJob, RequeueJob, JobMoves, EndJob, ForgetJob,
         OperatorSubmits, OperatorPublishes, OperatorReaps
<1>3. ASSUME NEW from \in LiveJobStates, NEW to \in LiveJobStates, JobMoves(s, from, to),
             from # "JobCompleting", to # "JobPending" \/ requeues < MaxRequeues
      PROVE  /\ \A t \in Sessions : Forward(t)
             /\ \A t \in Sessions : t # s => jobs'[t] = jobs[t]
  <2>1. /\ jobs' = [jobs EXCEPT ![s].state = to] /\ jobs[s].state = from
        /\ UNCHANGED <<crd, services>>
    BY <1>3 DEF JobMoves
  <2>2. from \notin EndedJobStates /\ from # "none" /\ to # "none" /\ to \notin EndedJobStates
    BY DEF LiveJobStates, EndedJobStates
  <2>3. to = "JobPending" => MaxRequeues # 0
    BY <1>1, <1>3
  <2>4. \A t \in Sessions : /\ jobs'[t].exit = jobs[t].exit /\ jobs'[t].known = jobs[t].known
                            /\ jobs'[t].state = IF t = s THEN to ELSE jobs[t].state
    BY <1>1, <2>1 DEF Job
  <2>5. \A t \in Sessions : Forward(t)
    BY <1>3, <2>1, <2>2, <2>3, <2>4 DEF Forward, EndedJobStates
  <2> QED BY <1>1, <2>1, <2>5
<1>4. CASE StartJob(s) \/ SuspendJob(s) \/ ResumeJob(s) \/ CompleteJob(s) \/ RequeueJob(s)
  BY <1>2, <1>3, <1>4
     DEF StartJob, SuspendJob, ResumeJob, CompleteJob, RequeueJob, LiveJobStates
<1>5. CASE EndJob(s)
  <2>1. PICK e \in Endings : jobs' = [jobs EXCEPT ![s].state = e[1], ![s].exit = e[2]]
    BY <1>5 DEF EndJob
  <2>2. e[1] \in EndedJobStates /\ e[1] # "none" /\ e[1] # "JobPending"
    BY DEF EndedJobStates
  <2>3. jobs[s].state \in LiveJobStates /\ UNCHANGED crd
    BY <1>5 DEF EndJob
  <2>4. /\ jobs'[s].state = e[1] /\ jobs'[s].known = jobs[s].known
        /\ \A t \in Sessions : t # s => jobs'[t] = jobs[t]
    BY <1>1, <2>1 DEF Job
  <2>5. \A t \in Sessions : Forward(t)
    BY <1>1, <2>2, <2>3, <2>4 DEF Forward, LiveJobStates, EndedJobStates
  <2> QED BY <1>2, <2>4, <2>5
<1>6. CASE ForgetJob(s)
  <2>1. jobs' = [jobs EXCEPT ![s].known = FALSE] /\ UNCHANGED crd
    BY <1>6 DEF ForgetJob
  <2>2. \A t \in Sessions : /\ jobs'[t].state = jobs[t].state /\ jobs'[t].exit = jobs[t].exit
                            /\ ~ jobs[t].known => ~ jobs'[t].known
                            /\ t # s => jobs'[t] = jobs[t]
    BY <1>1, <2>1 DEF Job
  <2>3. \A t \in Sessions : Forward(t)
    BY <2>1, <2>2 DEF Forward, EndedJobStates
  <2> QED BY <1>2, <2>2, <2>3
<1>7. CASE OperatorSubmits(s)
  <2>1. /\ jobs' = [jobs EXCEPT ![s].state = "JobPending"]
        /\ crd[s].exists /\ ~ Submitted(s) /\ UNCHANGED crd
    BY <1>7 DEF OperatorSubmits, submit_job
  <2>2. /\ jobs'[s].state = "JobPending" /\ jobs'[s].known = jobs[s].known
        /\ \A t \in Sessions : t # s => jobs'[t] = jobs[t]
    BY <1>1, <2>1 DEF Job
  <2>3. \A t \in Sessions : Forward(t)
    BY <2>1, <2>2 DEF Forward, EndedJobStates
  <2> QED BY <1>2, <2>2, <2>3
<1>8. CASE OperatorPublishes(s)
  <2> DEFINE word == IF Submitted(s) THEN CrdWord[jobs[s].state] ELSE "pending"
  <2>1. PICK id \in {crd[s].id, Submitted(s)}, node \in {crd[s].node, Submitted(s)} :
           crd' = [crd EXCEPT ![s] = [exists |-> TRUE, word |-> word, id |-> id, node |-> node]]
    BY <1>8 DEF OperatorPublishes
  <2>2. crd[s].exists /\ UNCHANGED jobs
    BY <1>8 DEF OperatorPublishes
  <2> HIDE DEF word
  <2>3. crd'[s].exists /\ \A t \in Sessions : t # s => crd'[t] = crd[t]
    BY <1>1, <2>1
  <2>4. \A t \in Sessions : crd'[t].exists = crd[t].exists
    BY <1>1, <2>2, <2>3 DEF Crd
  <2>5. \A t \in Sessions : Forward(t)
    BY <2>2, <2>4 DEF Forward, EndedJobStates
  <2> QED BY <1>2, <2>2, <2>5
<1>9. CASE OperatorReaps(s)
  <2>1. jobs' = cancel_job(s) /\ UNCHANGED crd
    BY <1>9 DEF OperatorReaps
  <2>2. \A t \in Sessions : /\ jobs'[t].state = jobs[t].state /\ jobs'[t].exit = jobs[t].exit
                            /\ jobs'[t].known = jobs[t].known
                            /\ t # s => jobs'[t] = jobs[t]
    BY <1>1, <2>1 DEF cancel_job, Job
  <2>3. \A t \in Sessions : Forward(t)
    BY <2>1, <2>2 DEF Forward, EndedJobStates
  <2> QED BY <1>2, <2>2, <2>3
<1>10. CASE PodProgress(s)
  <2>1. UNCHANGED <<jobs, crd>>
    BY <1>10 DEF PodProgress
  <2>2. \A t \in Sessions : Forward(t)
    BY <2>1 DEF Forward, EndedJobStates
  <2> QED BY <1>2, <2>1, <2>2
<1> QED BY <1>4, <1>5, <1>6, <1>7, <1>8, <1>9, <1>10 DEF Environment, SpurStep, OperatorStep

(***************************************************************************)
(* What one step of a handler does to its session: it goes through its     *)
(* local steps, stores the row, submits, stores the job id or the failure, *)
(* or is a step of a DELETE.                                               *)
(***************************************************************************)
Stored(s, state, bound) ==
    /\ rows'[s].state = state /\ rows'[s].bound = bound
    /\ rows'[s].started = rows[s].started /\ rows'[s].addr = rows[s].addr

SameJob(s) == jobs'[s].state = jobs[s].state /\ (crd'[s].exists => crd[s].exists)

Checking(s) ==
    /\ rows'[s] = rows[s] /\ SameJob(s) /\ deleter'[s] = deleter[s]
    /\ \/ creator'[s] = "replied"
       \/ /\ creator[s] \in {"idle", "quota", "capacity"}
          /\ creator'[s] \in {"quota", "capacity", "insert"}

Inserting(s) ==
    /\ creator[s] = "insert" /\ creator'[s] = "submit"
    /\ Stored(s, "creating", rows[s].bound) /\ SameJob(s) /\ deleter'[s] = deleter[s]

Submitting(s) ==
    /\ creator[s] = "submit" /\ creator'[s] \in {"bind", "fail", "replied"}
    /\ rows'[s] = rows[s] /\ deleter'[s] = deleter[s]
    /\ \/ jobs'[s].state = jobs[s].state
       \/ jobs'[s].state = "JobPending" /\ ~ Submitted(s)
    /\ Backend = "native_host" => crd'[s].exists = crd[s].exists

Recording(s) ==
    /\ creator[s] \in {"bind", "fail"} /\ creator'[s] = "replied"
    /\ SameJob(s) /\ deleter'[s] = deleter[s]
    /\ \/ rows'[s] = rows[s]
       \/ creator[s] = "bind" /\ Stored(s, "pending", TRUE)
       \/ creator[s] = "fail" /\ Stored(s, "failed", rows[s].bound)

Deleting(s) ==
    /\ creator'[s] = creator[s] /\ SameJob(s)
    /\ deleter[s] = "idle" => rows[s].state # "absent" /\ MaxDeletes > 0
    /\ \/ rows'[s] = rows[s]
       \/ deleter[s] # "idle" /\ Stored(s, "stopping", rows[s].bound)

\* Every step of a handler is one of these (sessions.rs:31-332).
LEMMA HandlerMoves ==
    ASSUME IInv, NEW s \in Sessions, RouteStep(s)
    PROVE  /\ UNCHANGED <<usage, services>>
           /\ \A t \in Sessions : t # s =>
                 /\ rows'[t] = rows[t] /\ jobs'[t] = jobs[t] /\ crd'[t] = crd[t]
                 /\ creator'[t] = creator[t] /\ deleter'[t] = deleter[t]
           /\ jobs'[s].known = jobs[s].known /\ jobs'[s].exit = jobs[s].exit
           /\ \/ Checking(s) \/ Inserting(s) \/ Submitting(s) \/ Recording(s) \/ Deleting(s)
<1>1. /\ rows \in [Sessions -> Row] /\ jobs \in [Sessions -> Job] /\ crd \in [Sessions -> Crd]
      /\ creator \in [Sessions -> CreatorSteps] /\ deleter \in [Sessions -> DeleterSteps]
      /\ deletes \in 0..MaxDeletes
  BY DEF IInv, TypeOK, StoreTypeOK, ClusterTypeOK, RoutesTypeOK
<1>2. CASE PostSession(s) \/ CheckQuota(s) \/ CheckCapacity(s) \/ AbandonCreate(s)
  <2>1. /\ UNCHANGED <<rows, usage, clusterVars, deleter>>
        /\ creator[s] \in CreatorSteps \ {"replied"}
        /\ \E to \in {"quota", "capacity", "insert", "replied"} :
              /\ creator' = [creator EXCEPT ![s] = to]
              /\ to = "replied" \/ creator[s] \in {"idle", "quota", "capacity"}
    BY <1>1, <1>2
       DEF PostSession, CheckQuota, CheckCapacity, AbandonCreate, CreateAt, storeVars, InFlight,
           CreatorSteps
  <2>2. Checking(s)
    BY <1>1, <2>1 DEF Checking, SameJob, clusterVars
  <2> QED BY <1>1, <2>1, <2>2 DEF clusterVars
<1>3. CASE InsertRow(s)
  <2>1. /\ UNCHANGED <<usage, clusterVars, deleter>>
        /\ creator[s] = "insert"
        /\ \/ /\ creator' = [creator EXCEPT ![s] = "submit"]
              /\ rows' = [rows EXCEPT ![s].state = "creating"]
           \/ creator' = [creator EXCEPT ![s] = "replied"] /\ rows' = rows
    BY <1>3 DEF InsertRow, CreateAt, create_session
  <2>2. Checking(s) \/ Inserting(s)
    BY <1>1, <2>1 DEF Checking, Inserting, Stored, SameJob, clusterVars, Row
  <2> QED BY <1>1, <2>1, <2>2 DEF clusterVars
<1>4. CASE CreateCrd(s) \/ SubmitJob(s)
  <2>1. /\ UNCHANGED <<rows, usage, services, deleter>>
        /\ creator[s] = "submit"
        /\ \E to \in {"bind", "fail", "replied"} : creator' = [creator EXCEPT ![s] = to]
        /\ \/ /\ Backend = "k8s" /\ UNCHANGED jobs
              /\ crd' = crd \/ crd' = [crd EXCEPT ![s] = [NoCrd EXCEPT !.exists = TRUE]]
           \/ /\ Backend = "native_host" /\ UNCHANGED crd
              /\ jobs' = jobs \/ jobs' = [jobs EXCEPT ![s].state = "JobPending"]
    BY <1>4 DEF CreateCrd, SubmitJob, CreateAt, create_crd, submit_job
  <2>2. ~ Submitted(s)
    BY <2>1 DEF IInv, JobInv, Early
  <2>3. /\ \A t \in Sessions : t # s => jobs'[t] = jobs[t] /\ crd'[t] = crd[t]
        /\ jobs'[s].known = jobs[s].known /\ jobs'[s].exit = jobs[s].exit
        /\ jobs'[s].state \in {jobs[s].state, "JobPending"}
    BY <1>1, <2>1 DEF Job
  <2>4. Submitting(s)
    BY <1>1, <2>1, <2>2, <2>3 DEF Submitting
  <2> QED BY <1>1, <2>1, <2>3, <2>4
<1>5. CASE BindJob(s) \/ MarkFailed(s)
  <2>1. /\ UNCHANGED <<usage, clusterVars, deleter>>
        /\ creator' = [creator EXCEPT ![s] = "replied"]
        /\ \/ creator[s] \in {"bind", "fail"} /\ rows' = rows
           \/ /\ creator[s] = "bind"
              /\ rows' = [rows EXCEPT ![s].bound = TRUE, ![s].state = "pending"]
           \/ creator[s] = "fail" /\ rows' = [rows EXCEPT ![s].state = "failed"]
    BY <1>5
       DEF BindJob, MarkFailed, CreateAt, Try, update_session_spur_job, update_session_failed
  <2>2. Recording(s)
    BY <1>1, <2>1 DEF Recording, Stored, SameJob, clusterVars, Row
  <2> QED BY <1>1, <2>1, <2>2 DEF clusterVars
<1>6. CASE DeleteRequest(s)
  <2>1. /\ UNCHANGED <<rows, usage, clusterVars, creator>>
        /\ deleter[s] = "idle" /\ \E to : deleter' = [deleter EXCEPT ![s] = to]
        /\ rows[s].state \in SessionStates /\ deletes < MaxDeletes
    BY <1>6, RoutesAssumption DEF DeleteRequest, DeleteAt, storeVars
  <2>2. Deleting(s)
    BY <1>1, <2>1, StatesApart, RoutesAssumption DEF Deleting, SameJob, clusterVars
  <2> QED BY <1>1, <2>1, <2>2 DEF clusterVars
<1>7. CASE CancelWork(s)
  <2>1. /\ UNCHANGED <<rows, usage, services, creator>>
        /\ deleter[s] # "idle" /\ deleter' = [deleter EXCEPT ![s] = "mark"]
        /\ \/ UNCHANGED jobs /\ crd' = [crd EXCEPT ![s] = NoCrd]
           \/ jobs' = cancel_job(s) /\ UNCHANGED crd
           \/ UNCHANGED <<jobs, crd>>
    BY <1>7 DEF CancelWork, DeleteAt, cancel_work, delete_crd
  <2>2. \A t \in Sessions : /\ jobs'[t].state = jobs[t].state /\ jobs'[t].exit = jobs[t].exit
                            /\ jobs'[t].known = jobs[t].known
                            /\ t # s => jobs'[t] = jobs[t]
    BY <1>1, <2>1 DEF cancel_job, Job
  <2>3. /\ \A t \in Sessions : t # s => crd'[t] = crd[t]
        /\ crd'[s].exists => crd[s].exists
    BY <1>1, <2>1 DEF NoCrd
  <2>4. Deleting(s)
    BY <1>1, <2>1, <2>2, <2>3 DEF Deleting, SameJob
  <2> QED BY <1>1, <2>1, <2>2, <2>3, <2>4
<1>8. CASE MarkStopping(s) \/ AbandonDelete(s)
  <2>1. /\ UNCHANGED <<usage, clusterVars, creator>>
        /\ deleter[s] # "idle" /\ deleter' = [deleter EXCEPT ![s] = "idle"]
        /\ rows' = rows \/ rows' = [rows EXCEPT ![s].state = "stopping"]
    BY <1>8 DEF MarkStopping, AbandonDelete, DeleteAt, Try, update_session_state
  <2>2. Deleting(s)
    BY <1>1, <2>1 DEF Deleting, Stored, SameJob, clusterVars, Row
  <2> QED BY <1>1, <2>1, <2>2 DEF clusterVars
<1> QED BY <1>2, <1>3, <1>4, <1>5, <1>6, <1>7, <1>8 DEF RouteStep, CreateStep, DeleteStep

\* What a loop holds outlives any step that takes back no row and no job.
LEMMA HeldKeeps ==
    ASSUME IInv, HandInv, UNCHANGED sync, NEW r \in Replicas,
           \A t \in Sessions : /\ rows[t].state # "absent" => rows'[t].state # "absent"
                               /\ Submitted(t) => Submitted(t)'
                               /\ Over(t) => Over(t)'
    PROVE  HeldInv(r)'
<1>1. HeldInv(r) /\ (sync[r].pc # "idle" => sync[r].cur \in Sessions)
  BY DEF IInv, HandInv, LoopInv
<1> QED BY <1>1 DEF HeldInv

\* A handler finds the row it works on, and a session is not submitted without one
\* (sessions.rs:107-332).
LEMMA RequestHolds ==
    ASSUME IInv, HandInv, NEW s \in Sessions, RouteStep(s), UNCHANGED syncVars
    PROVE  HandInv'
<1>1. /\ RowInv(s) /\ JobInv(s) /\ creator[s] \in CreatorSteps
      /\ \A t \in Sessions : RowInv(t)
  BY DEF IInv, HandInv, TypeOK, RoutesTypeOK
<1>2. RowInv(s)'
  <2>1. CASE Checking(s)
    BY <1>1, <2>1 DEF Checking, SameJob, RowInv
  <2>2. CASE Inserting(s)
    BY <1>1, <2>2 DEF Inserting, Stored, RowInv
  <2>3. CASE Submitting(s)
    BY <1>1, <2>3 DEF Submitting, RowInv
  <2>4. CASE Recording(s)
    BY <1>1, <2>4 DEF Recording, Stored, RowInv
  <2>5. CASE Deleting(s)
    BY <1>1, <2>5 DEF Deleting, SameJob, Stored, RowInv
  <2> QED BY <2>1, <2>2, <2>3, <2>4, <2>5, HandlerMoves
<1>3. \A t \in Sessions : RowInv(t)'
  BY <1>1, <1>2, HandlerMoves DEF RowInv
<1>4. /\ rows[s].state # "absent" => rows'[s].state # "absent"
      /\ Submitted(s) => jobs'[s].state = jobs[s].state
  <2>1. CASE Checking(s) \/ Inserting(s) \/ Recording(s) \/ Deleting(s)
    BY <2>1 DEF Checking, Inserting, Recording, Deleting, SameJob, Stored
  <2>2. CASE Submitting(s)
    BY <2>2 DEF Submitting
  <2> QED BY <2>1, <2>2, HandlerMoves
<1>5. ASSUME NEW r \in Replicas
      PROVE  HeldInv(r)'
  <2>1. \A t \in Sessions : /\ rows[t].state # "absent" => rows'[t].state # "absent"
                            /\ Submitted(t) => jobs'[t].state = jobs[t].state
    BY <1>4, HandlerMoves
  <2>2. \A t \in Sessions : Over(t) => Submitted(t)
    BY DEF EndedJobStates
  <2> QED BY <2>1, <2>2, HeldKeeps DEF syncVars
<1> QED BY <1>3, <1>5 DEF HandInv

\* The cluster keeps it: it starts work only for a resource that was asked for.
LEMMA EnvironmentHolds ==
    ASSUME IInv, HandInv, NEW s \in Sessions, Environment(s)
    PROVE  HandInv'
<1>1. /\ UNCHANGED <<rows, creator, deleter, sync>> /\ \A t \in Sessions : Forward(t)
      /\ \A t \in Sessions : RowInv(t)
  BY EnvironmentMoves DEF HandInv
<1>2. \A t \in Sessions : RowInv(t)'
  BY <1>1 DEF RowInv, Forward
<1>3. \A r \in Replicas : HeldInv(r)'
  BY <1>1, HeldKeeps DEF Forward
<1> QED BY <1>2, <1>3 DEF HandInv

(***************************************************************************)
(* What one step of a loop does to the session it works on, at the await   *)
(* it stands at; everything else it leaves alone.                          *)
(***************************************************************************)
OnlyRow(s) ==
    /\ UNCHANGED <<usage, services>>
    /\ \A t \in Sessions : t # s => rows'[t] = rows[t]

Setting(r) == LET s == sync[r].cur IN
    /\ sync[r].pc = "set" /\ sync[r].next \in ActiveStates
    /\ Stored(s, sync[r].next, rows[s].bound) /\ OnlyRow(s)

Ending(r) == LET s == sync[r].cur IN
    /\ sync[r].pc \in {"gone", "end", "crdEnd"}
    /\ \E state \in TerminalStates :
          /\ Stored(s, state, rows[s].bound)
          /\ state = IF sync[r].pc = "gone" THEN "failed" ELSE sync[r].next
    /\ OnlyRow(s)

Binding(r) == LET s == sync[r].cur IN
    /\ sync[r].pc = "crdBind" /\ Backend = "k8s"
    /\ Stored(s, "pending", TRUE) /\ OnlyRow(s)

Starting(r) == LET s == sync[r].cur IN
    /\ sync[r].pc = "run"
    /\ rows'[s].state = "running" /\ rows'[s].started = TRUE
    /\ rows'[s].bound = rows[s].bound /\ rows'[s].addr = rows[s].addr
    /\ OnlyRow(s)

Addressing(r) == LET s == sync[r].cur IN
    /\ sync[r].pc = "ssh"
    /\ rows'[s].state = rows[s].state /\ rows'[s].addr = TRUE
    /\ rows'[s].bound = rows[s].bound /\ rows'[s].started = rows[s].started
    /\ OnlyRow(s)

OpeningBill(r) == LET s == sync[r].cur IN
    /\ sync[r].pc = "bill" /\ UNCHANGED <<rows, services>>
    /\ usage' = [usage EXCEPT ![s].open = @ + 1]

ClosingBill(r) == LET s == sync[r].cur IN
    /\ sync[r].pc = "unbill" /\ UNCHANGED <<rows, services>>
    /\ usage' = [usage EXCEPT ![s] = [open |-> 0, closed |-> @.closed + @.open]]

Exposing(r) == LET s == sync[r].cur IN
    /\ sync[r].pc = "svc" /\ UNCHANGED <<rows, usage>>
    /\ services' = [services EXCEPT ![s] = TRUE]

Withdrawing(r) == LET s == sync[r].cur IN
    /\ sync[r].pc = "unsvc" /\ UNCHANGED <<rows, usage>>
    /\ services' = [services EXCEPT ![s] = FALSE]

Effects(r) ==
    \/ UNCHANGED <<rows, usage, services>>
    \/ Setting(r) \/ Ending(r) \/ Binding(r) \/ Starting(r) \/ Addressing(r)
    \/ OpeningBill(r) \/ ClosingBill(r) \/ Exposing(r) \/ Withdrawing(r)

\* Every step of a loop is one of these (main.rs:124-469).
LEMMA LoopEffects ==
    ASSUME IInv, NEW r \in Replicas, SyncStep(r) \/ Crash(r)
    PROVE  /\ UNCHANGED <<jobs, crd>>
           /\ Effects(r)
<1> DEFINE s == sync[r].cur
<1>1. /\ rows \in [Sessions -> Row] /\ sync[r] \in Loop /\ LoopInv(r)
  BY DEF IInv, TypeOK, StoreTypeOK, SyncTypeOK
<1>2. CASE SyncList(r) \/ GetJob(r) \/ PodCheck(r) \/ GetCrd(r) \/ CrdPodCheck(r) \/ Crash(r)
  BY <1>2 DEF SyncList, GetJob, PodCheck, GetCrd, CrdPodCheck, Crash, Effects, storeVars, clusterVars
<1>3. CASE SetState(r) \/ SetFailed(r) \/ SetEnded(r) \/ CrdEnded(r) \/ CrdBind(r)
  <2>1. /\ UNCHANGED <<usage, services, jobs, crd>>
        /\ \/ rows' = rows
           \/ sync[r].pc = "set" /\ rows' = [rows EXCEPT ![s].state = sync[r].next]
           \/ sync[r].pc = "gone" /\ rows' = [rows EXCEPT ![s].state = "failed"]
           \/ sync[r].pc \in {"end", "crdEnd"} /\ rows' = [rows EXCEPT ![s].state = sync[r].next]
           \/ sync[r].pc = "crdBind" /\ rows' = [rows EXCEPT ![s].bound = TRUE, ![s].state = "pending"]
    BY <1>3
       DEF SetState, SetFailed, SetEnded, CrdEnded, CrdBind, At, Try, clusterVars,
           update_session_state, update_session_failed, update_session_ended,
           update_session_spur_job
  <2>2. /\ sync[r].pc \in {"set", "gone", "end", "crdEnd", "crdBind"}
        /\ s \in Sessions
        /\ sync[r].pc = "set" => sync[r].next \in ActiveStates
        /\ sync[r].pc \in {"end", "crdEnd"} => sync[r].next \in TerminalStates
        /\ sync[r].pc = "crdBind" => Backend = "k8s"
    BY <1>1, <1>3 DEF SetState, SetFailed, SetEnded, CrdEnded, CrdBind, At, LoopInv, CrdSteps
  <2> HIDE DEF s
  <2>3. rows' # rows => \A t \in Sessions : t # s => rows'[t] = rows[t]
    BY <1>1, <2>1
  <2>4. CASE sync[r].pc = "set"
    <3>1. rows' = rows \/ Stored(s, sync[r].next, rows[s].bound)
      BY <1>1, <2>1, <2>2, <2>4 DEF Stored, Row
    <3> QED BY <2>1, <2>2, <2>3, <2>4, <3>1 DEF Effects, Setting, OnlyRow, s
  <2>5. CASE sync[r].pc \in {"gone", "end", "crdEnd"}
    <3> DEFINE state == IF sync[r].pc = "gone" THEN "failed" ELSE sync[r].next
    <3>1. rows' = rows \/ Stored(s, state, rows[s].bound)
      BY <1>1, <2>1, <2>2, <2>5 DEF Stored, Row
    <3>2. state \in TerminalStates
      BY <2>2, <2>5, StatesApart
    <3> QED BY <2>1, <2>3, <2>5, <3>1, <3>2 DEF Effects, Ending, OnlyRow, s
  <2>6. CASE sync[r].pc = "crdBind"
    <3>1. rows' = rows \/ Stored(s, "pending", TRUE)
      BY <1>1, <2>1, <2>2, <2>6 DEF Stored, Row
    <3> QED BY <2>1, <2>2, <2>3, <2>6, <3>1 DEF Effects, Binding, OnlyRow, s
  <2> QED BY <2>1, <2>2, <2>4, <2>5, <2>6
<1>4. CASE SetRunning(r)
  <2>1. /\ UNCHANGED <<usage, services, jobs, crd>> /\ sync[r].pc = "run" /\ s \in Sessions
        /\ \/ rows' = rows
           \/ rows' = [rows EXCEPT ![s].state = "running", ![s].started = TRUE]
    BY <1>1, <1>4 DEF SetRunning, At, clusterVars, update_session_running, LoopInv
  <2> HIDE DEF s
  <2>2. \/ rows' = rows
        \/ /\ rows'[s].state = "running" /\ rows'[s].started = TRUE
           /\ rows'[s].bound = rows[s].bound /\ rows'[s].addr = rows[s].addr
           /\ \A t \in Sessions : t # s => rows'[t] = rows[t]
    BY <1>1, <2>1 DEF Row
  <2> QED BY <2>1, <2>2 DEF Effects, Starting, OnlyRow, s
<1>5. CASE SetSsh(r)
  <2>1. /\ UNCHANGED <<usage, services, jobs, crd>> /\ sync[r].pc = "ssh" /\ s \in Sessions
        /\ rows' = rows \/ rows' = [rows EXCEPT ![s].addr = TRUE]
    BY <1>1, <1>5 DEF SetSsh, At, clusterVars, update_session_ssh, LoopInv
  <2> HIDE DEF s
  <2>2. \/ rows' = rows
        \/ /\ rows'[s].state = rows[s].state /\ rows'[s].addr = TRUE
           /\ rows'[s].bound = rows[s].bound /\ rows'[s].started = rows[s].started
           /\ \A t \in Sessions : t # s => rows'[t] = rows[t]
    BY <1>1, <2>1 DEF Row
  <2> QED BY <2>1, <2>2 DEF Effects, Addressing, OnlyRow, s
<1>6. CASE CreateService(r) \/ DeleteService(r)
  <2>1. /\ UNCHANGED <<rows, usage, jobs, crd>>
        /\ \/ services' = services
           \/ sync[r].pc = "svc" /\ services' = [services EXCEPT ![s] = TRUE]
           \/ sync[r].pc = "unsvc" /\ services' = [services EXCEPT ![s] = FALSE]
    BY <1>6 DEF CreateService, DeleteService, At
  <2> QED BY <2>1 DEF Effects, Exposing, Withdrawing
<1>7. CASE BillStart(r) \/ BillEnd(r)
  <2>1. /\ UNCHANGED <<rows, services, jobs, crd>>
        /\ \/ usage' = usage
           \/ sync[r].pc = "bill" /\ usage' = record_usage_start(s)
           \/ sync[r].pc = "unbill" /\ usage' = record_usage_end(s)
    BY <1>7 DEF BillStart, BillEnd, At, clusterVars
  <2> QED BY <2>1 DEF Effects, OpeningBill, ClosingBill, record_usage_start, record_usage_end
<1> QED BY <1>2, <1>3, <1>4, <1>5, <1>6, <1>7 DEF SyncStep, CrdStep

\* Where a loop stands after going on.
LEMMA GoesOn ==
    ASSUME SyncTypeOK, NEW r \in Replicas, NEW s, NEW pc, NEW next, Go(r, s, pc, next)
    PROVE  /\ \A q \in Replicas : q # r => sync'[q] = sync[q]
           /\ sync'[r].pc = pc /\ sync'[r].cur = s /\ sync'[r].next = next
           /\ sync'[r].seen = sync[r].seen
<1>1. sync \in [Replicas -> Loop] /\ sync[r] \in Loop
  BY DEF SyncTypeOK
<1>2. sync' = [sync EXCEPT ![r] = [sync[r] EXCEPT !.pc = pc, !.cur = s, !.next = next]]
  BY <1>1 DEF Go, Loop
<1> QED BY <1>1, <1>2 DEF Loop

\* Where a loop stands after it is done with a session.
LEMMA IsDone ==
    ASSUME SyncTypeOK, NEW r \in Replicas, NEW s \in Sessions, Done(r, s)
    PROVE  /\ \A q \in Replicas : q # r => sync'[q] = sync[q]
           /\ sync'[r].pc = "idle" /\ sync'[r].cur = NoSession
           /\ sync'[r].seen[s].state = "absent"
           /\ \A t \in Sessions : t # s => sync'[r].seen[t] = sync[r].seen[t]
<1>1. sync \in [Replicas -> Loop] /\ sync[r] \in Loop /\ sync[r].seen \in [Sessions -> Seen]
  BY DEF SyncTypeOK, Loop
<1> DEFINE seen == [sync[r].seen EXCEPT ![s] = NotSeen]
           loop == [Resting EXCEPT !.seen = seen]
<1>2. sync' = [sync EXCEPT ![r] = loop]
  BY DEF Done
<1>3. /\ loop.pc = "idle" /\ loop.cur = NoSession /\ loop.seen = seen
  BY DEF Resting
<1>4. /\ seen[s].state = "absent" /\ \A t \in Sessions : t # s => seen[t] = sync[r].seen[t]
  BY <1>1 DEF NotSeen
<1> HIDE DEF loop, seen
<1> QED BY <1>1, <1>2, <1>3, <1>4

(***************************************************************************)
(* The same in the words of HeldInv.                                       *)
(***************************************************************************)
Present == \A t \in Sessions : rows[t].state # "absent" => rows'[t].state # "absent"

\* A loop that is done with a session holds nothing.
LEMMA DoneHolds ==
    ASSUME IInv, HandInv, Present, NEW r \in Replicas, NEW s \in Sessions, Done(r, s)
    PROVE  HeldInv(r)'
<1>1. SyncTypeOK /\ HeldInv(r)
  BY DEF IInv, TypeOK, HandInv
<1> QED BY <1>1, IsDone DEF HeldInv, Present

\* A loop that goes on needs what HeldInv says of the await it goes to.
LEMMA GoHolds ==
    ASSUME IInv, HandInv, Present, UNCHANGED jobs, NEW r \in Replicas, NEW s \in Sessions,
           NEW pc, NEW next, Go(r, s, pc, next), pc # "idle",
           rows[s].state # "absent",
           pc \in {"pod", "run", "crdPod"} => Submitted(s),
           pc \in {"unbill", "unsvc"} => Over(s)
    PROVE  HeldInv(r)'
<1>1. SyncTypeOK /\ HeldInv(r)
  BY DEF IInv, TypeOK, HandInv
<1> QED BY <1>1, GoesOn DEF HeldInv, Present

\* A loop takes up sessions it listed, and goes on to provision for a job that was
\* submitted, or to clean up after one that is over (main.rs:124-469).
LEMMA LoopHolds ==
    ASSUME IInv, HandInv, NEW r \in Replicas, SyncStep(r) \/ Crash(r), Present
    PROVE  HeldInv(r)'
<1> DEFINE s == sync[r].cur
<1>1. /\ SyncTypeOK /\ sync[r] \in Loop /\ LoopInv(r) /\ HeldInv(r)
      /\ \A t \in Sessions : JobInv(t) /\ UNCHANGED jobs
  BY LoopEffects DEF IInv, TypeOK, SyncTypeOK, HandInv
<1>2. CASE SyncList(r)
  <2> DEFINE snap == [t \in Sessions |->
                        IF t \in polled
                          THEN [state |-> rows[t].state, bound |-> rows[t].bound]
                          ELSE NotSeen]
  <2>1. sync' = [sync EXCEPT ![r].seen = snap] /\ sync[r].pc = "idle" /\ rows' = rows
    BY <1>2 DEF SyncList, At, storeVars
  <2>2. \A t \in Sessions : snap[t].state # "absent" => rows[t].state # "absent"
    BY DEF polled, list_active_sessions, NotSeen
  <2> HIDE DEF snap
  <2>3. sync'[r].seen = snap /\ sync'[r].pc = "idle" /\ sync'[r].cur = sync[r].cur
    BY <1>1, <2>1 DEF SyncTypeOK, Loop
  <2> QED BY <1>1, <2>1, <2>2, <2>3 DEF HeldInv
<1>3. CASE Crash(r)
  <2>1. sync' = [sync EXCEPT ![r] = Resting]
    BY <1>3 DEF Crash
  <2>2. sync'[r] = Resting
    BY <1>1, <2>1 DEF SyncTypeOK
  <2> QED BY <2>2 DEF HeldInv, Resting, NotSeen
<1>4. CASE GetJob(r)
  <2>1. PICK t \in Todo(r) :
           /\ sync[r].seen[t].bound
           /\ \/ Done(r, t) \/ Go(r, t, "gone", "failed") \/ Go(r, t, "pod", "none")
              \/ Enact(r, t, session_state(jobs[t].state, jobs[t].exit))
    BY <1>4 DEF GetJob
  <2>2. t \in Sessions /\ rows[t].state # "absent" /\ Submitted(t)
    BY <1>1, <2>1 DEF Todo, HeldInv, LoopInv
  <2>3. CASE Enact(r, t, session_state(jobs[t].state, jobs[t].exit))
    <3>1. \/ Done(r, t)
          \/ \E pc \in {"run", "end", "set"}, next \in {session_state(jobs[t].state, jobs[t].exit)} :
                Go(r, t, pc, next)
      BY <2>3 DEF Enact, step_for
    <3> QED BY <1>1, <2>2, <3>1, DoneHolds, GoHolds
  <2> QED BY <1>1, <2>1, <2>2, <2>3, DoneHolds, GoHolds
<1>5. CASE PodCheck(r)
  <2>1. /\ sync[r].pc = "pod" /\ s \in Sessions /\ rows[s].state # "absent" /\ Submitted(s)
        /\ \E next : Enact(r, s, next)
    BY <1>1, <1>5 DEF PodCheck, At, HeldInv, LoopInv
  <2>2. \/ Done(r, s)
        \/ \E next : \E pc \in {"run", "end", "set"} : Go(r, s, pc, next)
    BY <2>1 DEF Enact, step_for
  <2> HIDE DEF s
  <2> QED BY <1>1, <2>1, <2>2, DoneHolds, GoHolds
<1>6. CASE SetState(r) \/ SetFailed(r) \/ BillStart(r) \/ DeleteService(r) \/ CrdEnded(r)
  <2>1. s \in Sessions /\ Done(r, s)
    BY <1>1, <1>6 DEF SetState, SetFailed, BillStart, DeleteService, CrdEnded, At, LoopInv
  <2> QED BY <2>1, DoneHolds
<1>7. CASE SetRunning(r) \/ CreateService(r) \/ SetSsh(r)
  <2>1. /\ s \in Sessions /\ rows[s].state # "absent"
        /\ \/ Done(r, s)
           \/ \E pc \in {"svc", "ssh", "bill"} : Go(r, s, pc, "running")
    BY <1>1, <1>7
       DEF SetRunning, CreateService, SetSsh, At, after_running, LoopInv, HeldInv
  <2> HIDE DEF s
  <2> QED BY <1>1, <2>1, DoneHolds, GoHolds
<1>8. CASE SetEnded(r) \/ BillEnd(r)
  <2>1. /\ s \in Sessions /\ rows[s].state # "absent" /\ Over(s)
        /\ \/ Done(r, s)
           \/ \E pc \in {"unbill", "unsvc"} : Go(r, s, pc, sync[r].next)
    BY <1>1, <1>8 DEF SetEnded, BillEnd, At, LoopInv, HeldInv
  <2> HIDE DEF s
  <2> QED BY <1>1, <2>1, DoneHolds, GoHolds
<1>9. ASSUME NEW t \in Sessions, NEW next, FollowCrd(r, t, next),
             rows[t].state # "absent", next = "running" => Submitted(t)
      PROVE  HeldInv(r)'
  <2>1. \/ Done(r, t)
        \/ next = "running" /\ Go(r, t, "crdPod", next)
        \/ Go(r, t, "crdEnd", next) \/ Go(r, t, "set", next)
    BY <1>9 DEF FollowCrd
  <2> QED BY <1>1, <1>9, <2>1, DoneHolds, GoHolds
<1>10. CASE GetCrd(r)
  <2>1. PICK t \in Todo(r) :
           \/ Done(r, t)
           \/ crd[t].id /\ Go(r, t, "crdBind", crd_state(crd[t]))
           \/ ~ crd[t].id /\ FollowCrd(r, t, crd_state(crd[t]))
    BY <1>10 DEF GetCrd
  <2>2. t \in Sessions /\ rows[t].state # "absent"
    BY <1>1, <2>1 DEF Todo, HeldInv
  <2>3. ~ crd[t].id => crd_state(crd[t]) # "running"
    BY DEF crd_state
  <2> QED BY <1>1, <1>9, <2>1, <2>2, <2>3, DoneHolds, GoHolds
<1>11. CASE CrdBind(r)
  <2>1. /\ s \in Sessions /\ rows[s].state # "absent" /\ Submitted(s)
        /\ FollowCrd(r, s, sync[r].next)
    BY <1>1, <1>11 DEF CrdBind, At, LoopInv, HeldInv
  <2> QED BY <1>9, <2>1
<1>12. CASE CrdPodCheck(r)
  <2>1. /\ s \in Sessions /\ rows[s].state # "absent" /\ Submitted(s)
        /\ Done(r, s) \/ Go(r, s, "run", "running") \/ Go(r, s, "set", "starting")
    BY <1>1, <1>12 DEF CrdPodCheck, At, LoopInv, HeldInv
  <2> QED BY <1>1, <2>1, DoneHolds, GoHolds
<1> QED BY <1>2, <1>3, <1>4, <1>5, <1>6, <1>7, <1>8, <1>10, <1>11, <1>12 DEF SyncStep, CrdStep

\* The other loops are where they were.
LEMMA OthersStay ==
    ASSUME IInv, NEW r \in Replicas, SyncStep(r) \/ Crash(r), NEW q \in Replicas, q # r
    PROVE  sync'[q] = sync[q]
<1>1. /\ SyncTypeOK /\ sync \in [Replicas -> Loop] /\ LoopInv(r)
  BY DEF IInv, TypeOK, SyncTypeOK
<1>2. CASE SyncList(r) \/ Crash(r)
  BY <1>1, <1>2 DEF SyncList, Crash
<1>3. CASE \E t \in Sessions : \/ Done(r, t)
                               \/ \E pc : \E next : Go(r, t, pc, next)
  BY <1>1, <1>3, IsDone, GoesOn
<1>4. sync[r].pc # "idle" => sync[r].cur \in Sessions
  BY <1>1 DEF LoopInv
<1>5. CASE GetJob(r) \/ GetCrd(r)
  BY <1>3, <1>5 DEF GetJob, GetCrd, Enact, FollowCrd, Todo
<1>6. CASE PodCheck(r) \/ CrdPodCheck(r) \/ CrdBind(r)
  BY <1>3, <1>4, <1>6 DEF PodCheck, CrdPodCheck, CrdBind, At, Enact, FollowCrd
<1>7. CASE \/ SetState(r) \/ SetFailed(r) \/ BillStart(r) \/ DeleteService(r) \/ CrdEnded(r)
           \/ SetRunning(r) \/ CreateService(r) \/ SetSsh(r) \/ SetEnded(r) \/ BillEnd(r)
  BY <1>3, <1>4, <1>7
     DEF SetState, SetFailed, BillStart, DeleteService, CrdEnded, SetRunning, CreateService,
         SetSsh, SetEnded, BillEnd, At
<1> QED BY <1>2, <1>5, <1>6, <1>7 DEF SyncStep, CrdStep

\* No loop adds or takes back a row.
LEMMA LoopPresent ==
    ASSUME IInv, HandInv, NEW r \in Replicas, SyncStep(r) \/ Crash(r)
    PROVE  \A t \in Sessions : rows'[t].state = "absent" <=> rows[t].state = "absent"
<1> DEFINE s == sync[r].cur
<1>1. sync[r].pc # "idle" => s \in Sessions /\ rows[s].state # "absent"
  BY DEF IInv, LoopInv, HandInv, HeldInv
<1>2. CASE rows' = rows
  BY <1>2
<1>3. CASE OnlyRow(s) /\ sync[r].pc # "idle" /\ rows'[s].state # "absent"
  BY <1>1, <1>3 DEF OnlyRow
<1>4. CASE Setting(r) \/ Ending(r) \/ Binding(r) \/ Starting(r) \/ Addressing(r)
  <2>1. OnlyRow(s) /\ sync[r].pc # "idle"
    BY <1>4 DEF Setting, Ending, Binding, Starting, Addressing
  <2>2. rows'[s].state \in SessionStates \/ rows'[s].state = rows[s].state
    BY <1>4, StatesApart DEF Setting, Ending, Binding, Starting, Addressing, Stored
  <2> QED BY <1>1, <1>3, <2>1, <2>2, StatesApart
<1> QED BY <1>2, <1>4, LoopEffects DEF Effects, OpeningBill, ClosingBill, Exposing, Withdrawing

LEMMA PollHolds ==
    ASSUME IInv, HandInv, NEW r \in Replicas, SyncStep(r) \/ Crash(r), UNCHANGED routeVars
    PROVE  HandInv'
<1>1. /\ \A t \in Sessions : RowInv(t) /\ (rows'[t].state = "absent" <=> rows[t].state = "absent")
      /\ UNCHANGED <<jobs, crd, creator, deleter>>
  BY LoopPresent, LoopEffects DEF HandInv, routeVars
<1>2. \A t \in Sessions : RowInv(t)'
  BY <1>1 DEF RowInv
<1>3. HeldInv(r)'
  BY <1>1, LoopHolds DEF Present
<1>4. ASSUME NEW q \in Replicas, q # r
      PROVE  HeldInv(q)'
  <2>1. sync'[q] = sync[q] /\ HeldInv(q) /\ (sync[q].pc # "idle" => sync[q].cur \in Sessions)
    BY <1>4, OthersStay DEF HandInv, IInv, LoopInv
  <2> QED BY <1>1, <2>1 DEF HeldInv
<1> QED BY <1>2, <1>3, <1>4 DEF HandInv

\* HandInv is inductive.
LEMMA Holding == Spec => []HandInv
<1>1. Init => HandInv
  BY NoSessionAssumption
     DEF Init, StoreInit, ClusterInit, RoutesInit, SyncInit, Resting, NotSeen, NoCrd, HandInv,
         RowInv, HeldInv
<1>2. IInv /\ HandInv /\ [Next]_vars => HandInv'
  <2>1. ASSUME IInv, HandInv, UNCHANGED vars PROVE HandInv'
    BY <2>1 DEF HandInv, RowInv, HeldInv, vars, storeVars, clusterVars, routeVars, syncVars
  <2> QED BY <2>1, RequestHolds, EnvironmentHolds, PollHolds DEF Next, Request, Poll, Die
<1> QED BY <1>1, <1>2, Inductive, PTL DEF Spec

----------------------------------------------------------------------------
(***************************************************************************)
(* What a session comes to, for every number of sessions and replicas: the *)
(* final state of a native-host session is the verdict on its job; and as  *)
(* long as nothing failed, one that runs is billed and one that was        *)
(* answered knows its job.                                                 *)
(*                                                                         *)
(* The verdict is drawn several awaits before it is written, by any of the *)
(* loops; it stays true because a job that is over does not change.        *)
(***************************************************************************)

\* The verdict on a job, as VerdictMatchesJob states it.
Verdict(s, state) ==
    LET cancelled ==
          \/ jobs[s].state = "JobCancelled"
          \/ jobs[s].exit = "signal" /\ jobs[s].state \in {"JobCompleted", "JobFailed"}
        completed == jobs[s].state = "JobCompleted" /\ jobs[s].exit = "zero"
    IN \/ state = "cancelled" /\ cancelled
       \/ state = "completed" /\ completed
       \/ state = "failed" /\ ~ cancelled /\ ~ completed
       \/ state = "failed" /\ ~ jobs[s].known

VerdictInv(s) ==
    Backend = "native_host" /\ rows[s].bound /\ rows[s].state \in TerminalStates =>
       Over(s) /\ Verdict(s, rows[s].state)

DecisionInv(r) ==
    /\ Backend = "native_host" /\ sync[r].pc = "end" => Verdict(sync[r].cur, sync[r].next)
    /\ sync[r].pc = "gone" => ~ jobs[sync[r].cur].known
    /\ sync[r].pc = "set" => sync[r].next # "running"

Outcomes ==
    /\ \A s \in Sessions : VerdictInv(s)
    /\ \A r \in Replicas : DecisionInv(r)

\* What is over stays over, with the same exit and as little known of it.
Frozen ==
    \A t \in Sessions :
       /\ Over(t) => jobs'[t].state = jobs[t].state /\ jobs'[t].exit = jobs[t].exit
       /\ ~ jobs[t].known => ~ jobs'[t].known

\* Decisions outlive the steps of others (main.rs:339-438).
LEMMA DecisionLasts ==
    ASSUME IInv, Frozen, NEW r \in Replicas, DecisionInv(r), sync'[r] = sync[r]
    PROVE  DecisionInv(r)'
<1>1. /\ sync[r].pc # "idle" => sync[r].cur \in Sessions
      /\ sync[r].pc = "end" => Over(sync[r].cur)
  BY DEF IInv, LoopInv
<1> QED BY <1>1 DEF DecisionInv, Verdict, Frozen

\* So do the verdicts on the rows no step writes.
LEMMA VerdictStays ==
    ASSUME Frozen, NEW t \in Sessions, VerdictInv(t),
           rows'[t].bound = rows[t].bound, rows'[t].state = rows[t].state
    PROVE  VerdictInv(t)'
BY DEF VerdictInv, Verdict, Frozen

\* The handlers write no final state on a row that knows its job (sessions.rs:226-240).
LEMMA RequestOutcomes ==
    ASSUME IInv, Outcomes, NEW s \in Sessions, RouteStep(s), UNCHANGED syncVars
    PROVE  Outcomes'
<1>1. /\ VerdictInv(s) /\ JobInv(s) /\ \A t \in Sessions : VerdictInv(t)
      /\ Backend = "native_host" => Truthful
  BY DEF Outcomes, IInv, Truthful
<1>2. Frozen
  <2>1. Over(s) => jobs'[s].state = jobs[s].state
    BY HandlerMoves
       DEF Checking, Inserting, Submitting, Recording, Deleting, SameJob, EndedJobStates
  <2> QED BY <2>1, HandlerMoves DEF Frozen
<1>3. VerdictInv(s)'
  <2>1. CASE rows'[s] = rows[s]
    BY <1>1, <1>2, <2>1, VerdictStays
  <2>2. CASE \E b : Stored(s, "creating", b) \/ Stored(s, "pending", b) \/ Stored(s, "stopping", b)
    BY <2>2 DEF VerdictInv, Stored, TerminalStates
  <2>3. CASE creator[s] = "fail" /\ Stored(s, "failed", rows[s].bound)
    BY <1>1, <2>3 DEF VerdictInv, Stored, JobInv
  <2> QED BY <2>1, <2>2, <2>3, HandlerMoves
          DEF Checking, Inserting, Submitting, Recording, Deleting
<1>4. \A t \in Sessions : t # s => VerdictInv(t)'
  BY <1>1, <1>2, VerdictStays, HandlerMoves
<1>5. \A r \in Replicas : DecisionInv(r)'
  BY <1>2, DecisionLasts DEF Outcomes, syncVars
<1> QED BY <1>3, <1>4, <1>5 DEF Outcomes

\* Nor does the cluster.
LEMMA EnvironmentOutcomes ==
    ASSUME IInv, Outcomes, NEW s \in Sessions, Environment(s)
    PROVE  Outcomes'
<1>1. UNCHANGED <<rows, sync>> /\ Frozen
  BY EnvironmentMoves DEF Frozen, Forward
<1> QED BY <1>1, VerdictStays, DecisionLasts DEF Outcomes

\* A loop draws the verdict of the answer it got, and writes the one it drew
\* (main.rs:339-438).
LEMMA PollOutcomes ==
    ASSUME IInv, Outcomes, NEW r \in Replicas, SyncStep(r) \/ Crash(r)
    PROVE  Outcomes'
<1> DEFINE s == sync[r].cur
<1>1. /\ UNCHANGED jobs /\ Effects(r) /\ LoopInv(r) /\ DecisionInv(r) /\ SyncTypeOK
      /\ \A t \in Sessions : VerdictInv(t) /\ jobs[t] \in Job /\ JobInv(t)
      /\ sync[r].pc # "idle" => s \in Sessions
  BY LoopEffects DEF Outcomes, IInv, LoopInv, TypeOK, ClusterTypeOK
<1>2. Frozen
  BY <1>1 DEF Frozen
<1>3. \A t \in Sessions : VerdictInv(t)'
  <2>1. CASE \/ UNCHANGED rows
             \/ Addressing(r)
    <3>1. \A t \in Sessions : rows'[t].bound = rows[t].bound /\ rows'[t].state = rows[t].state
      BY <2>1 DEF Addressing, OnlyRow
    <3> QED BY <1>1, <1>2, <3>1, VerdictStays
  <2>2. CASE Setting(r) \/ Binding(r) \/ Starting(r)
    <3>1. OnlyRow(s) /\ rows'[s].state \notin TerminalStates
      BY <2>2, StatesApart DEF Setting, Binding, Starting, Stored
    <3>2. \A t \in Sessions : t = s => VerdictInv(t)'
      BY <3>1 DEF VerdictInv
    <3>3. \A t \in Sessions : t # s => VerdictInv(t)'
      BY <1>1, <1>2, <3>1, VerdictStays DEF OnlyRow
    <3> QED BY <3>2, <3>3
  <2>3. CASE Ending(r)
    <3>1. /\ OnlyRow(s) /\ s \in Sessions /\ Over(s)
          /\ \/ sync[r].pc = "gone" /\ rows'[s].state = "failed"
             \/ sync[r].pc = "end" /\ rows'[s].state = sync[r].next
             \/ Backend = "k8s"
      BY <1>1, <2>3 DEF Ending, Stored, LoopInv, CrdSteps
    <3>2. \A t \in Sessions : t = s => VerdictInv(t)'
      BY <1>1, <3>1 DEF VerdictInv, DecisionInv, Verdict
    <3>3. \A t \in Sessions : t # s => VerdictInv(t)'
      BY <1>1, <1>2, <3>1, VerdictStays DEF OnlyRow
    <3> QED BY <3>2, <3>3
  <2> QED BY <1>1, <2>1, <2>2, <2>3
          DEF Effects, OpeningBill, ClosingBill, Exposing, Withdrawing
<1>4. DecisionInv(r)'
  <2>1. ASSUME sync'[r].pc \notin {"end", "gone", "set"} PROVE DecisionInv(r)'
    BY <2>1 DEF DecisionInv
  <2>2. ASSUME NEW t \in Sessions, Done(r, t) PROVE DecisionInv(r)'
    BY <1>1, <2>1, <2>2, IsDone
  <2>3. ASSUME NEW t \in Sessions, NEW pc, NEW next, Go(r, t, pc, next),
               pc = "end" /\ Backend = "native_host" => Verdict(t, next),
               pc = "gone" => ~ jobs[t].known,
               pc = "set" => next # "running"
        PROVE  DecisionInv(r)'
    <3>1. sync'[r].pc = pc /\ sync'[r].cur = t /\ sync'[r].next = next
      BY <1>1, <2>3, GoesOn
    <3> QED BY <1>1, <2>3, <3>1 DEF DecisionInv, Verdict
  <2>4. CASE SyncList(r)
    <3>1. sync'[r].pc = "idle"
      BY <1>1, <2>4 DEF SyncList, At, SyncTypeOK, Loop
    <3> QED BY <2>1, <3>1
  <2>5. CASE Crash(r)
    <3>1. sync'[r] = Resting
      BY <1>1, <2>5 DEF Crash, SyncTypeOK
    <3> QED BY <2>1, <3>1 DEF Resting
  <2>6. CASE GetJob(r)
    <3>1. PICK t \in Todo(r) :
             \/ Done(r, t)
             \/ ~ jobs[t].known /\ Go(r, t, "gone", "failed")
             \/ Go(r, t, "pod", "none")
             \/ /\ jobs[t].state # "JobSuspended" /\ sync[r].seen[t].bound
                /\ Enact(r, t, session_state(jobs[t].state, jobs[t].exit))
      BY <2>6 DEF GetJob
    <3>2. t \in Sessions
      BY DEF Todo
    <3>3. CASE /\ jobs[t].state # "JobSuspended" /\ sync[r].seen[t].bound
               /\ Enact(r, t, session_state(jobs[t].state, jobs[t].exit))
      <4> DEFINE next == session_state(jobs[t].state, jobs[t].exit)
      <4>1. jobs[t].state \in JobStates /\ jobs[t].exit \in ExitClasses
        BY <1>1, <3>2, <3>3 DEF LoopInv, Job
      <4>2. next \in TerminalStates => Verdict(t, next)
        <5>1. next \in TerminalStates => jobs[t].state \in EndedJobStates
          BY <3>3, <4>1, VerdictOfJob
        <5> QED BY <5>1 DEF session_state, ended_state, Verdict
      <4> HIDE DEF next
      <4>3. \/ Done(r, t)
            \/ next = "running" /\ Go(r, t, "run", next)
            \/ next \in TerminalStates /\ Go(r, t, "end", next)
            \/ next # "running" /\ Go(r, t, "set", next)
        BY <3>3 DEF Enact, step_for, is_terminal, next
      <4> QED BY <2>2, <2>3, <3>2, <4>2, <4>3
    <3> QED BY <2>2, <2>3, <3>1, <3>2, <3>3
  <2>7. CASE PodCheck(r)
    <3>1. /\ s \in Sessions /\ sync[r].seen[s].state \notin TerminalStates
          /\ \E answer \in Readiness : Enact(r, s, pod_state(answer, sync[r].seen[s].state))
      BY <1>1, <2>7 DEF PodCheck, At, LoopInv
    <3>2. \A answer \in Readiness : pod_state(answer, sync[r].seen[s].state) \notin TerminalStates
      BY <3>1 DEF pod_state, TerminalStates
    <3> HIDE DEF s
    <3>3. \/ Done(r, s)
          \/ \E next : Go(r, s, "run", next) \/ (next # "running" /\ Go(r, s, "set", next))
      BY <3>1, <3>2 DEF Enact, step_for, is_terminal
    <3> QED BY <2>2, <2>3, <3>1, <3>3
  <2>8. CASE SetState(r) \/ SetFailed(r) \/ BillStart(r) \/ DeleteService(r) \/ CrdEnded(r)
    BY <1>1, <2>2, <2>8 DEF SetState, SetFailed, BillStart, DeleteService, CrdEnded, At
  <2>9. CASE SetRunning(r) \/ CreateService(r) \/ SetSsh(r) \/ SetEnded(r) \/ BillEnd(r)
    <3>1. /\ s \in Sessions
          /\ \/ Done(r, s)
             \/ \E pc \in {"svc", "ssh", "bill", "unbill", "unsvc"} : \E next : Go(r, s, pc, next)
      BY <1>1, <2>9
         DEF SetRunning, CreateService, SetSsh, SetEnded, BillEnd, At, after_running
    <3> HIDE DEF s
    <3> QED BY <2>2, <2>3, <3>1
  <2>10. ASSUME NEW t \in Sessions, NEW next, FollowCrd(r, t, next) PROVE DecisionInv(r)'
    BY <2>2, <2>3, <2>10 DEF FollowCrd
  <2>11. CASE GetCrd(r)
    BY <2>2, <2>3, <2>10, <2>11 DEF GetCrd, Todo
  <2>12. CASE CrdBind(r)
    BY <1>1, <2>10, <2>12 DEF CrdBind, At
  <2>13. CASE CrdPodCheck(r)
    <3>1. s \in Sessions /\ (Done(r, s) \/ Go(r, s, "run", "running") \/ Go(r, s, "set", "starting"))
      BY <1>1, <2>13 DEF CrdPodCheck, At
    <3> HIDE DEF s
    <3> QED BY <2>2, <2>3, <3>1
  <2> QED BY <2>4, <2>5, <2>6, <2>7, <2>8, <2>9, <2>11, <2>12, <2>13 DEF SyncStep, CrdStep
<1>5. \A q \in Replicas : q # r => DecisionInv(q)'
  BY <1>2, OthersStay, DecisionLasts DEF Outcomes
<1> QED BY <1>3, <1>4, <1>5 DEF Outcomes

\* Outcomes is inductive.
LEMMA OutcomesHold == Spec => []Outcomes
<1>1. Init => Outcomes
  BY DEF Init, StoreInit, SyncInit, Resting, Outcomes, VerdictInv, DecisionInv
<1>2. IInv /\ Outcomes /\ [Next]_vars => Outcomes'
  <2>1. ASSUME Outcomes, UNCHANGED vars PROVE Outcomes'
    BY <2>1 DEF Outcomes, VerdictInv, DecisionInv, Verdict, vars, storeVars, clusterVars, syncVars
  <2> QED BY <2>1, RequestOutcomes, EnvironmentOutcomes, PollOutcomes DEF Next, Request, Poll, Die
<1> QED BY <1>1, <1>2, Inductive, PTL DEF Spec

\* However stale the answer a loop acts on, and whichever loop writes last, the final
\* state of a native-host session is the verdict on its own job (main.rs:387-399).
THEOREM VerdictIsOfItsJob == Spec => []VerdictMatchesJob
<1>1. Outcomes => VerdictMatchesJob
  BY DEF Outcomes, VerdictInv, Verdict, VerdictMatchesJob, is_terminal
<1> QED BY <1>1, OutcomesHold, PTL

(***************************************************************************)
(* As long as nothing failed.  A handler or loop that gives up halfway     *)
(* spends a fault, so without one it goes through to its last write.       *)
(***************************************************************************)
BilledInv(s) ==
    rows[s].state = "running" /\ faults = 0 =>
       \/ Billed(s)
       \/ \E r \in Replicas : sync[r].cur = s /\ sync[r].pc \in TransitionSteps

AnsweredInv(s) ==
    Backend = "native_host" /\ faults = 0 =>
       /\ creator[s] # "fail"
       /\ creator[s] = "replied" /\ Submitted(s) => rows[s].bound

Unfailed == \A s \in Sessions : BilledInv(s) /\ AnsweredInv(s)

\* A handler that did not fail binds the job it submitted before it answers, and
\* never takes the failure branch (sessions.rs:107-249).
LEMMA HandlerSucceeds ==
    ASSUME IInv, NEW s \in Sessions, RouteStep(s), faults' = 0
    PROVE  /\ faults = 0
           /\ Backend = "native_host" /\ creator'[s] = "fail" => creator[s] = "fail"
           /\ creator'[s] = "replied" =>
                 \/ creator[s] \in Early \ {"submit"} /\ jobs' = jobs
                 \/ creator[s] = "bind" /\ rows'[s].bound
                 \/ creator[s] = "submit" /\ Backend = "k8s"
                 \/ creator[s] \in {"replied", "fail"}
<1>1. /\ ~ Fault /\ rows \in [Sessions -> Row] /\ creator \in [Sessions -> CreatorSteps]
  <2>1. faults \in Nat
    BY MaxFaultsAssumption DEF IInv, TypeOK, StoreTypeOK
  <2> QED BY <2>1 DEF Fault, IInv, TypeOK, StoreTypeOK, RoutesTypeOK
<1>2. CASE PostSession(s) \/ CheckQuota(s) \/ CheckCapacity(s)
  BY <1>1, <1>2
     DEF PostSession, CheckQuota, CheckCapacity, CreateAt, NoFault, storeVars, clusterVars, Early
<1>3. CASE InsertRow(s)
  BY <1>1, <1>3 DEF InsertRow, CreateAt, NoFault
<1>4. CASE CreateCrd(s) \/ SubmitJob(s)
  BY <1>1, <1>4 DEF CreateCrd, SubmitJob, CreateAt, NoFault
<1>5. CASE BindJob(s) \/ MarkFailed(s)
  <2>1. faults = 0 /\ creator'[s] = "replied"
    BY <1>1, <1>5 DEF BindJob, MarkFailed, CreateAt, Try, NoFault
  <2>2. CASE BindJob(s)
    <3>1. rows' = [rows EXCEPT ![s].bound = TRUE, ![s].state = "pending"]
      BY <1>1, <2>2 DEF BindJob, Try, update_session_spur_job
    <3> QED BY <1>1, <2>1, <2>2, <3>1 DEF BindJob, CreateAt, Row
  <2> QED BY <1>5, <2>1, <2>2 DEF MarkFailed, CreateAt
<1>6. CASE DeleteRequest(s) \/ CancelWork(s) \/ MarkStopping(s)
  <2>1. faults = 0 /\ creator' = creator /\ rows \in [Sessions -> Row]
    BY <1>1, <1>6
       DEF DeleteRequest, CancelWork, MarkStopping, DeleteAt, Try, NoFault, storeVars
  <2>2. creator[s] = "bind" => creator'[s] # "replied"
    BY <2>1
  <2> QED BY <1>1, <2>1, <2>2 DEF CreatorSteps, Early
<1> QED BY <1>1, <1>2, <1>3, <1>4, <1>5, <1>6
        DEF RouteStep, CreateStep, DeleteStep, AbandonCreate, AbandonDelete

\* No handler writes 'running', and one that did not fail keeps what it promises.
LEMMA RequestUnfailed ==
    ASSUME IInv, Unfailed, NEW s \in Sessions, RouteStep(s), UNCHANGED syncVars
    PROVE  Unfailed'
<1> SUFFICES ASSUME faults' = 0 PROVE Unfailed'
  BY DEF Unfailed, BilledInv, AnsweredInv
<1>1. /\ faults = 0 /\ JobInv(s) /\ \A t \in Sessions : BilledInv(t) /\ AnsweredInv(t)
      /\ UNCHANGED <<usage, sync>>
  BY HandlerSucceeds, HandlerMoves DEF IInv, Unfailed, syncVars
<1>2. \A t \in Sessions : rows'[t].state = "running" => rows[t].state = "running"
  <2>1. rows'[s].state = "running" => rows[s].state = "running"
    BY HandlerMoves
       DEF Checking, Inserting, Submitting, Recording, Deleting, Stored
  <2> QED BY <2>1, HandlerMoves
<1>3. \A t \in Sessions : BilledInv(t)'
  BY <1>1, <1>2 DEF BilledInv, Billed
<1>4. AnsweredInv(s)'
  <2> SUFFICES ASSUME Backend = "native_host" PROVE AnsweredInv(s)'
    BY DEF AnsweredInv
  <2>1. creator[s] # "fail" /\ creator'[s] # "fail"
    BY <1>1, HandlerSucceeds DEF AnsweredInv
  <2>2. CASE creator[s] = "replied"
    <3>1. /\ creator'[s] = "replied" => jobs'[s].state = jobs[s].state
          /\ creator'[s] = "replied" => rows'[s].bound = rows[s].bound
      BY <2>2, HandlerMoves
         DEF Checking, Inserting, Submitting, Recording, Deleting, SameJob, Stored
    <3> QED BY <1>1, <2>1, <2>2, <3>1 DEF AnsweredInv
  <2>3. CASE creator[s] # "replied" /\ creator'[s] = "replied"
    BY <1>1, <2>1, <2>3, HandlerSucceeds DEF AnsweredInv, JobInv
  <2> QED BY <2>1, <2>2, <2>3 DEF AnsweredInv
<1>5. \A t \in Sessions : t # s => AnsweredInv(t)'
  BY <1>1, HandlerMoves DEF AnsweredInv
<1> QED BY <1>3, <1>4, <1>5 DEF Unfailed

\* The cluster starts no job for a native-host session nobody submitted.
LEMMA EnvironmentUnfailed ==
    ASSUME IInv, Unfailed, NEW s \in Sessions, Environment(s)
    PROVE  Unfailed'
<1>1. /\ UNCHANGED <<rows, usage, faults, sync, creator>>
      /\ \A t \in Sessions : /\ Forward(t) /\ BilledInv(t) /\ AnsweredInv(t)
                             /\ Backend = "native_host" => crd[t] = NoCrd
  BY EnvironmentMoves DEF Unfailed, IInv, JobInv
<1>2. \A t \in Sessions : BilledInv(t)'
  BY <1>1 DEF BilledInv, Billed
<1>3. \A t \in Sessions : AnsweredInv(t)'
  BY <1>1 DEF AnsweredInv, Forward, NoCrd
<1> QED BY <1>2, <1>3 DEF Unfailed

\* A loop that did not fail goes from the write of 'running' to the bill
\* (main.rs:246-301).
LEMMA LoopSucceeds ==
    ASSUME IInv, NEW r \in Replicas, SyncStep(r) \/ Crash(r), faults' = 0
    PROVE  /\ faults = 0
           /\ sync[r].pc \in TransitionSteps \cup {"run"} =>
                 \/ OpeningBill(r)
                 \/ sync'[r].cur = sync[r].cur /\ sync'[r].pc \in TransitionSteps
<1> DEFINE s == sync[r].cur
<1>1. ~ Fault /\ SyncTypeOK
  <2>1. faults \in Nat
    BY MaxFaultsAssumption DEF IInv, TypeOK, StoreTypeOK
  <2> QED BY <2>1 DEF Fault, IInv, TypeOK
<1>2. SyncStep(r) /\ faults = 0
  <2>1. SyncStep(r)
    BY <1>1 DEF Crash
  <2> QED BY <1>1, <2>1
          DEF SyncStep, CrdStep, SyncList, GetJob, PodCheck, PodAnswers, SetState, SetFailed,
              SetRunning, CreateService, SetSsh, BillStart, SetEnded, BillEnd, DeleteService,
              GetCrd, CrdBind, CrdPodCheck, CrdEnded, Try, NoFault, storeVars
<1>3. ASSUME sync[r].pc \in TransitionSteps \cup {"run"}
      PROVE  \/ OpeningBill(r)
             \/ \E pc \in TransitionSteps : Go(r, s, pc, "running")
  <2>1. SetRunning(r) \/ CreateService(r) \/ SetSsh(r) \/ BillStart(r)
    BY <1>2, <1>3
       DEF SyncStep, CrdStep, SyncList, GetJob, PodCheck, SetState, SetFailed, SetEnded, BillEnd,
           DeleteService, GetCrd, CrdBind, CrdPodCheck, CrdEnded, At, TransitionSteps
  <2> QED BY <1>1, <2>1
          DEF SetRunning, CreateService, SetSsh, BillStart, after_running, TransitionSteps,
              OpeningBill, record_usage_start, clusterVars, At
<1> QED BY <1>1, <1>2, <1>3, GoesOn

\* So the session it takes to running is billed, or about to be, and stays so.
LEMMA PollUnfailed ==
    ASSUME IInv, Outcomes, Unfailed, NEW r \in Replicas, SyncStep(r) \/ Crash(r),
           UNCHANGED routeVars
    PROVE  Unfailed'
<1> SUFFICES ASSUME faults' = 0 PROVE Unfailed'
  BY DEF Unfailed, BilledInv, AnsweredInv
<1> DEFINE s == sync[r].cur
<1>1. /\ faults = 0 /\ UNCHANGED <<jobs, creator>> /\ Effects(r) /\ SyncTypeOK
      /\ LoopInv(r) /\ DecisionInv(r) /\ (sync[r].pc # "idle" => s \in Sessions)
      /\ \A t \in Sessions : BilledInv(t) /\ AnsweredInv(t) /\ usage[t] \in Records
  BY LoopSucceeds, LoopEffects
     DEF IInv, LoopInv, Outcomes, Unfailed, TypeOK, StoreTypeOK, routeVars
<1>2. \A t \in Sessions : rows[t].bound => rows'[t].bound
  BY <1>1 DEF Effects, Setting, Ending, Binding, Starting, Addressing, OpeningBill, ClosingBill,
              Exposing, Withdrawing, Stored, OnlyRow
<1>3. \A t \in Sessions : Billed(t) => Billed(t)'
  <2>1. usage \in [Sessions -> Records]
    BY DEF IInv, TypeOK, StoreTypeOK
  <2>2. CASE UNCHANGED usage
    BY <2>2 DEF Billed
  <2>3. CASE OpeningBill(r) \/ ClosingBill(r)
    <3> HIDE DEF s
    <3>1. \/ usage' = [usage EXCEPT ![s].open = @ + 1]
          \/ usage' = [usage EXCEPT ![s] = [open |-> 0, closed |-> @.closed + @.open]]
      BY <2>3 DEF OpeningBill, ClosingBill, s
    <3>2. \A t \in Sessions :
             /\ usage[t].open \in Nat /\ usage[t].closed \in Nat
             /\ usage'[t].open + usage'[t].closed >= usage[t].open + usage[t].closed
      BY <2>1, <3>1 DEF Records
    <3>3. \A t \in Sessions : usage'[t].open + usage'[t].closed \in Int
      BY <2>1, <3>1 DEF Records
    <3> QED BY <3>2, <3>3 DEF Billed
  <2> QED BY <1>1, <2>2, <2>3
          DEF Effects, Setting, Ending, Binding, Starting, Addressing, Exposing, Withdrawing,
              OnlyRow
<1>4. \A t \in Sessions :
         rows'[t].state = "running" =>
            rows[t].state = "running" \/ (t = s /\ sync[r].pc = "run")
  <2>1. CASE UNCHANGED rows \/ Addressing(r)
    <3>1. \A t \in Sessions : rows'[t].state = rows[t].state
      BY <2>1 DEF Addressing, OnlyRow
    <3> QED BY <3>1
  <2>2. CASE Setting(r) \/ Ending(r) \/ Binding(r)
    <3>1. CASE Setting(r) \/ Binding(r)
      BY <1>1, <3>1 DEF Setting, Binding, Stored, DecisionInv, OnlyRow
    <3>2. CASE Ending(r)
      <4>1. OnlyRow(s) /\ rows'[s].state \in TerminalStates
        BY <3>2 DEF Ending, Stored
      <4> QED BY <4>1 DEF OnlyRow, TerminalStates
    <3> QED BY <2>2, <3>1, <3>2
  <2>3. CASE Starting(r)
    BY <2>3 DEF Starting, OnlyRow
  <2> QED BY <1>1, <2>1, <2>2, <2>3
          DEF Effects, OpeningBill, ClosingBill, Exposing, Withdrawing
<1>5. ASSUME NEW t \in Sessions, sync[r].cur = t, sync[r].pc \in TransitionSteps \cup {"run"}
      PROVE  \/ Billed(t)'
             \/ sync'[r].cur = t /\ sync'[r].pc \in TransitionSteps
  <2>1. CASE OpeningBill(r)
    <3>1. usage \in [Sessions -> Records] /\ usage' = [usage EXCEPT ![t].open = @ + 1]
      BY <1>5, <2>1 DEF OpeningBill, IInv, TypeOK, StoreTypeOK
    <3>2. usage'[t].open = usage[t].open + 1 /\ usage'[t].closed = usage[t].closed
      BY <3>1 DEF Records
    <3> QED BY <1>1, <3>2 DEF Billed, Records
  <2> QED BY <1>5, <2>1, LoopSucceeds
<1>6. ASSUME NEW t \in Sessions
      PROVE  BilledInv(t)'
  <2> SUFFICES ASSUME rows'[t].state = "running"
               PROVE  \/ Billed(t)'
                      \/ \E q \in Replicas : sync'[q].cur = t /\ sync'[q].pc \in TransitionSteps
    BY DEF BilledInv
  <2>1. CASE t = s /\ sync[r].pc = "run"
    BY <1>5, <2>1
  <2>2. CASE rows[t].state = "running"
    <3>1. CASE Billed(t)
      BY <1>3, <3>1
    <3>2. ASSUME NEW q \in Replicas, sync[q].cur = t, sync[q].pc \in TransitionSteps, q # r
          PROVE  sync'[q].cur = t /\ sync'[q].pc \in TransitionSteps
      BY <3>2, OthersStay
    <3> QED BY <1>1, <1>5, <2>2, <3>1, <3>2 DEF BilledInv
  <2> QED BY <1>4, <2>1, <2>2
<1>7. \A t \in Sessions : AnsweredInv(t)'
  BY <1>1, <1>2 DEF AnsweredInv
<1> QED BY <1>6, <1>7 DEF Unfailed

\* Unfailed is inductive.
LEMMA UnfailedHolds == Spec => []Unfailed
<1>1. Init => Unfailed
  BY DEF Init, StoreInit, ClusterInit, RoutesInit, Unfailed, BilledInv, AnsweredInv
<1>2. IInv /\ Outcomes /\ Unfailed /\ [Next]_vars => Unfailed'
  <2>1. ASSUME Unfailed, UNCHANGED vars PROVE Unfailed'
    BY <2>1
       DEF Unfailed, BilledInv, AnsweredInv, Billed, vars, storeVars, clusterVars, routeVars,
           syncVars
  <2> QED BY <2>1, RequestUnfailed, EnvironmentUnfailed, PollUnfailed
          DEF Next, Request, Poll, Die
<1> QED BY <1>1, <1>2, Inductive, OutcomesHold, PTL DEF Spec

\* Until a call fails or a process dies, a session shown as running is billed or a
\* loop is about to bill it, however many loops work on it (main.rs:238-301).
THEOREM RunningSessionsAreBilled == Spec => []RunningIsBilled
<1>1. Unfailed => RunningIsBilled
  BY DEF Unfailed, BilledInv, RunningIsBilled, TransitionSteps
<1> QED BY <1>1, UnfailedHolds, PTL

\* Until a call fails or a client hangs up, a native-host job is known to the session
\* it was submitted for once that was answered (sessions.rs:140-249).
THEOREM AnsweredJobsAreKnown == Spec => []NoOrphanJob
<1>1. Unfailed => NoOrphanJob
  BY DEF Unfailed, AnsweredInv, NoOrphanJob
<1> QED BY <1>1, UnfailedHolds, PTL
=============================================================================
