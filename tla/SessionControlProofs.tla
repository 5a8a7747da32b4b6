------------------------ MODULE SessionControlProofs ------------------------
(***************************************************************************)
(* What holds of the session control plane for every number of sessions,   *)
(* users, replicas and failures: its type invariant, and that a session    *)
(* which knows its job is only ended once that job is over.                *)
(*                                                                         *)
(* The second is not inductive: a loop may end a session on the strength   *)
(* of an answer it got several awaits ago, so the invariant says what a    *)
(* loop at each await knows about the job of the session it works on, and  *)
(* what a creation in progress knows about its own.  All of it rests on    *)
(* one fact about the scheduler: a job that is over stays over.            *)
(***************************************************************************)
EXTENDS SessionControl, TLAPS

\* The creation of a native-host job may report an error for a job that exists,
\* which its row never learns of; on K8s the row would learn of it.
Truthful == Backend = "native_host" \/ ~ LostReplies

\* The handler steps at which nothing has been submitted yet.
Early == {"idle", "quota", "capacity", "insert", "submit"}

JobInv(s) ==
    /\ rows[s].bound => Submitted(s)
    /\ ~ jobs[s].known => Over(s)
    /\ crd[s].id => Submitted(s)
    /\ crd[s].word # "none" /\ is_terminal(parse(crd[s].word)) => Over(s)
    /\ Backend = "native_host" => crd[s] = NoCrd
    /\ creator[s] \in Early => ~ Submitted(s) /\ ~ crd[s].exists
    /\ creator[s] = "bind" => Submitted(s)
    /\ creator[s] = "fail" /\ Backend = "k8s" /\ Truthful =>
          ~ Submitted(s) /\ ~ crd[s].exists
    /\ creator[s] = "fail" /\ Truthful => ~ rows[s].bound
    /\ Truthful /\ rows[s].bound /\ is_terminal(rows[s].state) => Over(s)

LoopInv(r) ==
    /\ sync[r].pc # "idle" => sync[r].cur \in Sessions
    /\ sync[r].pc \in CrdSteps => Backend = "k8s"
    /\ sync[r].pc = "set" => sync[r].next \in ActiveStates
    /\ sync[r].pc \in {"end", "crdEnd"} => sync[r].next \in TerminalStates
    /\ sync[r].pc \in {"gone", "end", "crdEnd"} => Over(sync[r].cur)
    /\ sync[r].pc = "crdBind" =>
          /\ Submitted(sync[r].cur)
          /\ sync[r].next \in TerminalStates => Over(sync[r].cur)
    /\ \A s \in Sessions :
          /\ sync[r].seen[s].bound => Submitted(s)
          /\ sync[r].seen[s].state \notin TerminalStates
    /\ sync[r].pc = "pod" => sync[r].seen[sync[r].cur].state # "absent"

IInv ==
    /\ TypeOK
    /\ \A s \in Sessions : JobInv(s)
    /\ \A r \in Replicas : LoopInv(r)

USE DEF Submitted, Over, Live

(***************************************************************************)
(* What the environment may do to the jobs: nothing is unsubmitted, and    *)
(* what is over stays over.                                                *)
(***************************************************************************)
Advance ==
    \A s \in Sessions :
       /\ Submitted(s) => Submitted(s)'
       /\ Over(s) => Over(s)'

\* Nothing a loop relies on is lost when the jobs only advance (the decisions of
\* session_sync_loop, main.rs:327-469, outlive any step of the environment).
LEMMA LoopsKeep ==
    ASSUME SyncTypeOK, \A r \in Replicas : LoopInv(r), Advance, UNCHANGED sync
    PROVE  \A r \in Replicas : LoopInv(r)'
BY DEF LoopInv, Advance, SyncTypeOK, Loop, Seen

\* The states of live jobs and of ended ones are apart.
LEMMA JobStatesApart ==
    /\ LiveJobStates \cap EndedJobStates = {}
    /\ "none" \notin JobStates
    /\ \A js \in JobStates : js \in LiveJobStates \/ js \in EndedJobStates
    /\ {"JobPending", "JobRunning", "JobSuspended", "JobCompleting"} = LiveJobStates
BY DEF LiveJobStates, EndedJobStates, JobStates

\* Every step of the scheduler keeps what the handlers and the loops know.
LEMMA SpurKeeps ==
    ASSUME IInv, NEW s \in Sessions, SpurStep(s) \/ PodProgress(s),
           UNCHANGED <<storeVars, routeVars, syncVars>>
    PROVE  IInv'
<1> USE JobStatesApart, ClusterAssumption, EndingsAssumption
<1>1. /\ jobs' \in [Sessions -> Job]
      /\ Advance
      /\ \A t \in Sessions : ~ Submitted(t) => ~ Submitted(t)'
      /\ \A t \in Sessions : ~ jobs'[t].known => jobs'[t].state \in EndedJobStates
      /\ UNCHANGED <<crd, services>>
  <2>1. ASSUME NEW from \in LiveJobStates, NEW to \in LiveJobStates, JobMoves(s, from, to)
        PROVE  /\ jobs' \in [Sessions -> Job]
               /\ Advance
               /\ \A t \in Sessions : ~ Submitted(t) => ~ Submitted(t)'
               /\ \A t \in Sessions : ~ jobs'[t].known => jobs'[t].state \in EndedJobStates
               /\ UNCHANGED <<crd, services>>
    <3>1. jobs \in [Sessions -> Job] /\ \A t \in Sessions : ~ jobs[t].known => Over(t)
      BY DEF IInv, TypeOK, ClusterTypeOK, JobInv
    <3>2. to \in JobStates /\ from \notin EndedJobStates /\ from # "none" /\ to # "none"
      BY DEF LiveJobStates, EndedJobStates, JobStates
    <3>3. jobs' = [jobs EXCEPT ![s].state = to] /\ jobs[s].state = from /\ UNCHANGED <<crd, services>>
      BY <2>1 DEF JobMoves
    <3>4. jobs' \in [Sessions -> Job]
      BY <3>1, <3>2, <3>3 DEF Job
    <3> QED BY <3>1, <3>2, <3>3, <3>4 DEF Advance, Job
  <2>2. CASE EndJob(s)
    <3>1. jobs \in [Sessions -> Job]
      BY DEF IInv, TypeOK, ClusterTypeOK
    <3>2. PICK e \in Endings : jobs' = [jobs EXCEPT ![s].state = e[1], ![s].exit = e[2]]
      BY <2>2 DEF EndJob
    <3>3. e[1] \in EndedJobStates /\ e[1] # "none" /\ e[1] \in JobStates /\ e[2] \in ExitClasses
      BY DEF EndedJobStates, JobStates
    <3>4. jobs[s].state # "none" /\ UNCHANGED <<crd, services>>
      BY <2>2 DEF EndJob, LiveJobStates
    <3>5. jobs' \in [Sessions -> Job]
      <4> DEFINE ended == [jobs[s] EXCEPT !.state = e[1], !.exit = e[2]]
      <4>1. ended \in Job
        <5> DEFINE moved == [jobs[s] EXCEPT !.state = e[1]]
        <5>1. moved \in Job
          BY <3>1, <3>3 DEF Job
        <5>2. \A j \in Job : [j EXCEPT !.exit = e[2]] \in Job
          BY <3>3 DEF Job
        <5>3. ended = [moved EXCEPT !.exit = e[2]]
          OBVIOUS
        <5> HIDE DEF moved
        <5> QED BY <5>1, <5>2, <5>3
      <4>2. jobs' = [jobs EXCEPT ![s] = ended]
        BY <3>1, <3>2
      <4> HIDE DEF ended
      <4> QED BY <3>1, <4>1, <4>2
    <3>6. \A t \in Sessions : ~ jobs[t].known => Over(t)
      BY DEF IInv, JobInv
    <3> QED BY <3>1, <3>2, <3>3, <3>4, <3>5, <3>6 DEF Advance, Job
  <2>3. CASE ForgetJob(s)
    <3>1. jobs \in [Sessions -> Job] /\ \A t \in Sessions : ~ jobs[t].known => Over(t)
      BY DEF IInv, TypeOK, ClusterTypeOK, JobInv
    <3>2. /\ jobs' = [jobs EXCEPT ![s].known = FALSE] /\ Over(s)
          /\ UNCHANGED <<crd, services>>
      BY <2>3 DEF ForgetJob
    <3>3. jobs' \in [Sessions -> Job]
      <4>1. [jobs[s] EXCEPT !.known = FALSE] \in Job
        BY <3>1 DEF Job
      <4> QED BY <3>1, <3>2, <4>1
    <3> QED BY <3>1, <3>2, <3>3 DEF Advance, Job
  <2>4. CASE PodProgress(s)
    BY <2>4 DEF IInv, TypeOK, ClusterTypeOK, JobInv, Advance, PodProgress, Job
  <2> QED BY <2>1, <2>2, <2>3, <2>4
          DEF SpurStep, StartJob, SuspendJob, ResumeJob, CompleteJob, RequeueJob, LiveJobStates
<1>2. pods' \in [Sessions -> PodStates] /\ requeues' \in 0..MaxRequeues
  BY DEF IInv, TypeOK, ClusterTypeOK, SpurStep, PodProgress, StartJob, SuspendJob, ResumeJob,
         CompleteJob, RequeueJob, JobMoves, EndJob, ForgetJob, PodStates
<1>3. TypeOK'
  BY <1>1, <1>2 DEF IInv, TypeOK, StoreTypeOK, ClusterTypeOK, RoutesTypeOK, SyncTypeOK,
                    storeVars, routeVars, syncVars
<1>4. \A t \in Sessions : JobInv(t)'
  BY <1>1 DEF IInv, JobInv, Advance, storeVars, routeVars
<1>5. \A r \in Replicas : LoopInv(r)'
  BY <1>1, LoopsKeep DEF IInv, TypeOK, syncVars
<1> QED BY <1>3, <1>4, <1>5 DEF IInv

\* Cancelling asks: the job is in the same state afterwards (spur_client.rs:371-384).
LEMMA CancelKeeps ==
    ASSUME NEW s \in Sessions, jobs \in [Sessions -> Job]
    PROVE  /\ cancel_job(s) \in [Sessions -> Job]
           /\ \A t \in Sessions : /\ cancel_job(s)[t].state = jobs[t].state
                                  /\ cancel_job(s)[t].known = jobs[t].known
BY DEF cancel_job, Job

\* The resource only ever names a job that exists, and only calls it ended when
\* it is over; an operator that acts on a deleted resource cancels the job.
LEMMA OperatorKeeps ==
    ASSUME IInv, NEW s \in Sessions, OperatorStep(s),
           UNCHANGED <<storeVars, routeVars, syncVars>>
    PROVE  IInv'
<1> USE JobStatesApart, CrdWordAssumption, BackendAssumption
<1>1. /\ jobs \in [Sessions -> Job] /\ crd \in [Sessions -> Crd]
      /\ \A t \in Sessions : JobInv(t)
  BY DEF IInv, TypeOK, ClusterTypeOK
<1>2. CASE OperatorSubmits(s)
  <2>1. /\ jobs' = [jobs EXCEPT ![s].state = "JobPending"]
        /\ crd[s].exists /\ ~ Submitted(s)
        /\ UNCHANGED <<crd, pods, services, requeues>>
    BY <1>2 DEF OperatorSubmits, submit_job
  <2>2. jobs' \in [Sessions -> Job] /\ Advance
    BY <1>1, <2>1 DEF Job, Advance, JobStates, EndedJobStates, LiveJobStates
  <2>3. TypeOK'
    BY <2>1, <2>2 DEF IInv, TypeOK, StoreTypeOK, ClusterTypeOK, RoutesTypeOK, SyncTypeOK,
                      storeVars, routeVars, syncVars
  <2>4. \A t \in Sessions : JobInv(t)'
    BY <1>1, <2>1, <2>2 DEF JobInv, Advance, Job, Crd, NoCrd, storeVars, routeVars
  <2>5. \A r \in Replicas : LoopInv(r)'
    BY <2>2, LoopsKeep DEF IInv, TypeOK, syncVars
  <2> QED BY <2>3, <2>4, <2>5 DEF IInv
<1>3. CASE OperatorPublishes(s)
  <2> DEFINE word == IF Submitted(s) THEN CrdWord[jobs[s].state] ELSE "pending"
  <2>1. PICK id \in {crd[s].id, Submitted(s)}, node \in {crd[s].node, Submitted(s)} :
           crd' = [crd EXCEPT ![s] = [exists |-> TRUE, word |-> word, id |-> id, node |-> node]]
    BY <1>3 DEF OperatorPublishes
  <2>2. crd[s].exists /\ UNCHANGED <<jobs, pods, services, requeues>>
    BY <1>3 DEF OperatorPublishes
  <2>3. word \in Words /\ (is_terminal(parse(word)) => Over(s))
    BY <1>1 DEF Words, Job, JobStates, is_terminal, parse, TerminalStates, SessionStates,
                ActiveStates
  <2>4. crd' \in [Sessions -> Crd]
    BY <1>1, <2>1, <2>3 DEF Crd
  <2>5. TypeOK'
    BY <2>2, <2>4 DEF IInv, TypeOK, StoreTypeOK, ClusterTypeOK, RoutesTypeOK, SyncTypeOK,
                      storeVars, routeVars, syncVars
  <2>6. \A t \in Sessions : JobInv(t)'
    <3> TAKE t \in Sessions
    <3>1. CASE t = s
      <4>1. /\ crd'[s].exists /\ crd'[s].word = word /\ crd'[s].id = id
            /\ UNCHANGED <<jobs, rows, creator>>
        BY <1>1, <2>1, <2>2 DEF storeVars, routeVars
      <4>2. crd[s].id \in BOOLEAN /\ (id => Submitted(s))
        BY <1>1 DEF Crd, JobInv
      <4>3. Backend # "native_host"
        BY <1>1, <2>2 DEF JobInv, NoCrd
      <4> QED BY <1>1, <2>2, <2>3, <3>1, <4>1, <4>2, <4>3 DEF JobInv
    <3>2. CASE t # s
      BY <1>1, <2>1, <2>2, <3>2 DEF JobInv, storeVars, routeVars
    <3> QED BY <3>1, <3>2
  <2>7. \A r \in Replicas : LoopInv(r)'
    BY <2>2, LoopsKeep DEF IInv, TypeOK, syncVars, Advance
  <2> QED BY <2>5, <2>6, <2>7 DEF IInv
<1>4. CASE OperatorReaps(s)
  <2>1. jobs' = cancel_job(s) /\ UNCHANGED <<crd, pods, services, requeues>>
    BY <1>4 DEF OperatorReaps
  <2>a. \A t \in Sessions : jobs'[t].state = jobs[t].state /\ jobs'[t].known = jobs[t].known
    BY <1>1, <2>1, CancelKeeps
  <2>2. jobs' \in [Sessions -> Job] /\ Advance
    BY <1>1, <2>1, <2>a, CancelKeeps DEF Advance
  <2>3. TypeOK'
    BY <2>1, <2>2 DEF IInv, TypeOK, StoreTypeOK, ClusterTypeOK, RoutesTypeOK, SyncTypeOK,
                      storeVars, routeVars, syncVars
  <2>4. \A t \in Sessions : JobInv(t)'
    BY <1>1, <2>1, <2>a DEF JobInv, storeVars, routeVars
  <2>5. \A r \in Replicas : LoopInv(r)'
    BY <2>2, LoopsKeep DEF IInv, TypeOK, syncVars
  <2> QED BY <2>3, <2>4, <2>5 DEF IInv
<1> QED BY <1>2, <1>3, <1>4 DEF OperatorStep

\* Steps of the handlers that leave the tables and the cluster alone.
LEMMA LocalRouteKeeps ==
    ASSUME IInv, NEW s \in Sessions,
           \/ PostSession(s) \/ CheckQuota(s) \/ CheckCapacity(s)
           \/ AbandonCreate(s) \/ DeleteRequest(s) \/ AbandonDelete(s),
           UNCHANGED syncVars
    PROVE  IInv'
<1>1. UNCHANGED <<rows, usage, clusterVars, sync>>
  BY DEF PostSession, CheckQuota, CheckCapacity, AbandonCreate, DeleteRequest, AbandonDelete,
         storeVars, syncVars
<1>2. /\ creator \in [Sessions -> CreatorSteps] /\ deleter \in [Sessions -> DeleterSteps]
      /\ deletes \in 0..MaxDeletes /\ faults \in 0..MaxFaults
  BY DEF IInv, TypeOK, StoreTypeOK, RoutesTypeOK
<1>3. /\ \/ UNCHANGED creator
         \/ \E to \in CreatorSteps :
               /\ creator' = [creator EXCEPT ![s] = to]
               /\ to = "replied" \/ (creator[s] \in Early /\ to \in Early)
      /\ deleter' \in [Sessions -> DeleterSteps]
      /\ deletes' \in 0..MaxDeletes /\ faults' \in 0..MaxFaults
  <2>1. CASE PostSession(s)
    BY <1>2, <2>1 DEF PostSession, CreateAt, Early, CreatorSteps, storeVars
  <2>2. CASE CheckQuota(s)
    BY <1>2, <2>2, MaxFaultsAssumption
       DEF CheckQuota, CreateAt, Early, CreatorSteps, Fault, NoFault
  <2>3. CASE CheckCapacity(s)
    BY <1>2, <2>3, MaxFaultsAssumption
       DEF CheckCapacity, CreateAt, Early, CreatorSteps, Fault, NoFault
  <2>4. CASE AbandonCreate(s)
    BY <1>2, <2>4, MaxFaultsAssumption DEF AbandonCreate, CreateAt, CreatorSteps, Fault
  <2>5. CASE DeleteRequest(s)
    BY <1>2, <2>5, RoutesAssumption DEF DeleteRequest, DeleteAt, DeleterSteps, storeVars
  <2>6. CASE AbandonDelete(s)
    BY <1>2, <2>6, MaxFaultsAssumption DEF AbandonDelete, DeleteAt, DeleterSteps, Fault
  <2> QED BY <2>1, <2>2, <2>3, <2>4, <2>5, <2>6
<1>4. TypeOK'
  BY <1>1, <1>2, <1>3 DEF IInv, TypeOK, StoreTypeOK, ClusterTypeOK, RoutesTypeOK, SyncTypeOK,
                          clusterVars
<1>5. \A t \in Sessions : JobInv(t)'
  <2>1. \A t \in Sessions : JobInv(t)
    BY DEF IInv
  <2>2. \A t \in Sessions :
           \/ creator'[t] = creator[t] \/ creator'[t] = "replied"
           \/ creator[t] \in Early /\ creator'[t] \in Early
    BY <1>2, <1>3
  <2> QED BY <1>1, <2>1, <2>2 DEF JobInv, Early, clusterVars
<1>6. \A r \in Replicas : LoopInv(r)'
  BY <1>1, LoopsKeep DEF IInv, TypeOK, Advance, clusterVars
<1> QED BY <1>4, <1>5, <1>6 DEF IInv

\* Each repository function leaves a well-formed table (session_repo.rs:84-164).
LEMMA TablesTyped ==
    ASSUME NEW s \in Sessions, rows \in [Sessions -> Row]
    PROVE  /\ create_session(s) \in [Sessions -> Row]
           /\ \A state \in SessionStates : update_session_state(s, state) \in [Sessions -> Row]
           /\ update_session_spur_job(s) \in [Sessions -> Row]
           /\ update_session_running(s) \in [Sessions -> Row]
           /\ update_session_ssh(s) \in [Sessions -> Row]
<1>1. "creating" \in SessionStates /\ "pending" \in SessionStates /\ "running" \in SessionStates
  BY DEF SessionStates, ActiveStates
<1>2. create_session(s) \in [Sessions -> Row]
  BY <1>1 DEF create_session, Row
<1>3. \A state \in SessionStates : update_session_state(s, state) \in [Sessions -> Row]
  BY DEF update_session_state, Row
<1>4. update_session_spur_job(s) \in [Sessions -> Row]
  BY <1>1 DEF update_session_spur_job, Row
<1>5. update_session_running(s) \in [Sessions -> Row]
  BY <1>1 DEF update_session_running, Row
<1>6. update_session_ssh(s) \in [Sessions -> Row]
  BY DEF update_session_ssh, Row
<1> QED BY <1>2, <1>3, <1>4, <1>5, <1>6

\* Steps of the handlers that write the row of the session.
LEMMA RowRouteKeeps ==
    ASSUME IInv, NEW s \in Sessions,
           InsertRow(s) \/ BindJob(s) \/ MarkFailed(s) \/ MarkStopping(s),
           UNCHANGED syncVars
    PROVE  IInv'
<1>1. UNCHANGED <<usage, clusterVars, sync, deletes>>
  BY DEF InsertRow, BindJob, MarkFailed, MarkStopping, CreateAt, syncVars
<1>2. /\ rows \in [Sessions -> Row] /\ faults \in 0..MaxFaults
      /\ creator \in [Sessions -> CreatorSteps] /\ deleter \in [Sessions -> DeleterSteps]
      /\ \A t \in Sessions : JobInv(t)
  BY DEF IInv, TypeOK, StoreTypeOK, RoutesTypeOK
<1>3. /\ faults' \in 0..MaxFaults
      /\ creator' \in [Sessions -> CreatorSteps] /\ deleter' \in [Sessions -> DeleterSteps]
  BY <1>2, MaxFaultsAssumption
     DEF InsertRow, BindJob, MarkFailed, MarkStopping, CreateAt, DeleteAt, Try, Fault, NoFault,
         CreatorSteps, DeleterSteps
<1>4. \A t \in Sessions : t # s => rows'[t] = rows[t] /\ creator'[t] = creator[t]
  BY <1>2 DEF InsertRow, BindJob, MarkFailed, MarkStopping, CreateAt, DeleteAt, Try,
         create_session, update_session_spur_job, update_session_failed, update_session_state
<1>5. /\ rows' \in [Sessions -> Row]
      /\ JobInv(s)'
  <2>1. CASE InsertRow(s)
    <3>1. /\ creator[s] = "insert" /\ creator'[s] \in {"submit", "replied"}
          /\ rows' = rows \/ rows' = [rows EXCEPT ![s].state = "creating"]
          /\ creator'[s] = "submit" => rows'[s].state = "creating"
      BY <1>2, <2>1 DEF InsertRow, CreateAt, create_session, Row
    <3>2. rows' \in [Sessions -> Row] /\ rows'[s].bound = rows[s].bound
      BY <1>2, <3>1 DEF Row, SessionStates, ActiveStates
    <3>3. ~ Submitted(s) /\ ~ crd[s].exists /\ ~ rows[s].bound
      BY <1>2, <3>1 DEF JobInv, Early
    <3> QED BY <1>1, <1>2, <3>1, <3>2, <3>3 DEF JobInv, Early, clusterVars
  <2>2. CASE BindJob(s)
    <3>1. /\ creator[s] = "bind" /\ creator'[s] = "replied"
          /\ \/ rows' = rows
             \/ rows' = [rows EXCEPT ![s].bound = TRUE, ![s].state = "pending"]
      BY <1>2, <2>2 DEF BindJob, CreateAt, Try, update_session_spur_job
    <3>2. rows' \in [Sessions -> Row]
      BY <1>2, <3>1, TablesTyped DEF update_session_spur_job
    <3>3. rows'[s] = rows[s] \/ rows'[s].state = "pending"
      BY <1>2, <3>1 DEF Row
    <3> QED BY <1>1, <1>2, <3>1, <3>2, <3>3
            DEF JobInv, Early, clusterVars, is_terminal, TerminalStates
  <2>3. CASE MarkFailed(s)
    <3>1. /\ creator[s] = "fail" /\ creator'[s] = "replied"
          /\ rows' = rows \/ rows' = [rows EXCEPT ![s].state = "failed"]
      BY <1>2, <2>3 DEF MarkFailed, CreateAt, Try, update_session_failed
    <3>2. rows' \in [Sessions -> Row] /\ rows'[s].bound = rows[s].bound
      BY <1>2, <3>1 DEF Row, SessionStates, TerminalStates
    <3> QED BY <1>1, <1>2, <3>1, <3>2 DEF JobInv, Early, clusterVars
  <2>4. CASE MarkStopping(s)
    <3>1. /\ creator' = creator
          /\ rows' = rows \/ rows' = [rows EXCEPT ![s].state = "stopping"]
      BY <2>4 DEF MarkStopping, DeleteAt, Try, update_session_state
    <3>2. /\ rows' \in [Sessions -> Row] /\ rows'[s].bound = rows[s].bound
          /\ rows'[s] = rows[s] \/ rows'[s].state = "stopping"
      BY <1>2, <3>1 DEF Row, SessionStates, ActiveStates
    <3> QED BY <1>1, <1>2, <3>1, <3>2 DEF JobInv, clusterVars, is_terminal, TerminalStates
  <2> QED BY <2>1, <2>2, <2>3, <2>4
<1>6. TypeOK'
  BY <1>1, <1>3, <1>5 DEF IInv, TypeOK, StoreTypeOK, ClusterTypeOK, RoutesTypeOK, SyncTypeOK,
                          clusterVars
<1>7. \A t \in Sessions : JobInv(t)'
  <2> TAKE t \in Sessions
  <2>1. CASE t # s
    BY <1>1, <1>2, <1>4, <2>1 DEF JobInv, clusterVars
  <2> QED BY <1>5, <2>1
<1>8. \A r \in Replicas : LoopInv(r)'
  BY <1>1, LoopsKeep DEF IInv, TypeOK, Advance, clusterVars
<1> QED BY <1>6, <1>7, <1>8 DEF IInv

\* The resource is created bare and deleted whole (spur_client.rs:91-208).
LEMMA CrdsTyped == NoCrd \in Crd /\ [NoCrd EXCEPT !.exists = TRUE] \in Crd
<1>1. "none" \in Words
  BY DEF Words
<1> QED BY <1>1 DEF Crd, NoCrd

\* Submitting the work of a session, and asking for its end (sessions.rs:160-223,
\* sessions.rs:307-326).
LEMMA ClusterRouteKeeps ==
    ASSUME IInv, NEW s \in Sessions,
           CreateCrd(s) \/ SubmitJob(s) \/ CancelWork(s),
           UNCHANGED syncVars
    PROVE  IInv'
<1> USE JobStatesApart
<1>1. UNCHANGED <<rows, usage, deletes, pods, services, requeues, sync>>
  BY DEF CreateCrd, SubmitJob, CancelWork, CreateAt, DeleteAt, syncVars
<1>2. /\ jobs \in [Sessions -> Job] /\ crd \in [Sessions -> Crd] /\ faults \in 0..MaxFaults
      /\ creator \in [Sessions -> CreatorSteps] /\ deleter \in [Sessions -> DeleterSteps]
      /\ \A t \in Sessions : JobInv(t)
  BY DEF IInv, TypeOK, StoreTypeOK, ClusterTypeOK, RoutesTypeOK
<1>3. /\ faults' \in 0..MaxFaults
      /\ creator' \in [Sessions -> CreatorSteps] /\ deleter' \in [Sessions -> DeleterSteps]
  BY <1>2, MaxFaultsAssumption
     DEF CreateCrd, SubmitJob, CancelWork, CreateAt, DeleteAt, Fault, NoFault,
         CreatorSteps, DeleterSteps
<1>4. /\ jobs' \in [Sessions -> Job] /\ crd' \in [Sessions -> Crd]
      /\ Advance
      /\ \A t \in Sessions : JobInv(t)'
  <2>1. CASE CreateCrd(s)
    <3>1. /\ creator[s] = "submit" /\ Backend = "k8s" /\ UNCHANGED jobs
          /\ \/ crd' = crd
             \/ crd' = [crd EXCEPT ![s] = [NoCrd EXCEPT !.exists = TRUE]]
          /\ \/ creator' = [creator EXCEPT ![s] = "replied"]
             \/ creator' = [creator EXCEPT ![s] = "fail"] /\ (crd' = crd \/ LostReplies)
      BY <2>1 DEF CreateCrd, CreateAt, create_crd
    <3>2. crd' \in [Sessions -> Crd]
      BY <1>2, <3>1, CrdsTyped
    <3>3. JobInv(s)'
      <4>1. ~ Submitted(s) /\ ~ crd[s].exists /\ JobInv(s)
        BY <1>2, <3>1 DEF JobInv, Early
      <4>2. crd'[s] = crd[s] \/ (crd'[s].word = "none" /\ crd'[s].id = FALSE)
        BY <1>2, <3>1 DEF NoCrd
      <4>3. /\ creator'[s] \in {"replied", "fail"}
            /\ creator'[s] = "fail" => crd'[s] = crd[s] \/ LostReplies
        BY <1>2, <3>1
      <4> QED BY <1>1, <1>2, <3>1, <4>1, <4>2, <4>3 DEF JobInv, Early, Truthful
    <3>4. \A t \in Sessions : t # s => JobInv(t)'
      BY <1>1, <1>2, <3>1 DEF JobInv
    <3> QED BY <1>2, <3>1, <3>2, <3>3, <3>4 DEF Advance
  <2>2. CASE SubmitJob(s)
    <3>1. /\ creator[s] = "submit" /\ Backend = "native_host" /\ UNCHANGED crd
          /\ \/ jobs' = jobs /\ (\E to \in {"fail", "replied"} : creator' = [creator EXCEPT ![s] = to])
             \/ /\ jobs' = [jobs EXCEPT ![s].state = "JobPending"]
                /\ \E to \in {"fail", "bind"} : creator' = [creator EXCEPT ![s] = to]
      BY <2>2 DEF SubmitJob, CreateAt, submit_job
    <3>2. ~ Submitted(s) /\ ~ crd[s].exists /\ ~ rows[s].bound
      BY <1>2, <3>1 DEF JobInv, Early
    <3>3. jobs' \in [Sessions -> Job] /\ Advance
      <4>1. [jobs[s] EXCEPT !.state = "JobPending"] \in Job
        BY <1>2 DEF Job, JobStates, LiveJobStates
      <4>2. jobs' \in [Sessions -> Job]
        BY <1>2, <3>1, <4>1
      <4>3. \A t \in Sessions : t # s => jobs'[t] = jobs[t]
        BY <1>2, <3>1
      <4>4. jobs'[s] = jobs[s] \/ jobs'[s].state = "JobPending"
        BY <1>2, <3>1 DEF Job
      <4>5. ~ Over(s)
        BY <3>2 DEF EndedJobStates
      <4> QED BY <4>2, <4>3, <4>4, <4>5 DEF Advance
    <3>4. /\ jobs'[s].known = jobs[s].known /\ jobs'[s].state \in {"none", "JobPending"}
          /\ creator'[s] \in {"fail", "replied", "bind"}
          /\ creator'[s] = "bind" => Submitted(s)'
      BY <1>2, <3>1, <3>2 DEF Job
    <3>5. JobInv(s)'
      <4>1. JobInv(s) /\ jobs[s].known
        BY <1>2, <3>2 DEF JobInv, EndedJobStates
      <4> QED BY <1>1, <3>1, <3>2, <3>4, <4>1 DEF JobInv, Early, EndedJobStates
    <3>6. \A t \in Sessions : t # s => JobInv(t)'
      BY <1>1, <1>2, <3>1 DEF JobInv
    <3> QED BY <1>2, <3>1, <3>3, <3>5, <3>6
  <2>3. CASE CancelWork(s)
    <3>1. /\ creator' = creator
          /\ \/ crd' = [crd EXCEPT ![s] = NoCrd] /\ jobs' = jobs
             \/ crd' = crd /\ jobs' = cancel_job(s)
             \/ UNCHANGED <<jobs, crd>>
      BY <2>3 DEF CancelWork, DeleteAt, cancel_work, delete_crd
    <3>2. /\ jobs' \in [Sessions -> Job]
          /\ \A t \in Sessions : jobs'[t].state = jobs[t].state /\ jobs'[t].known = jobs[t].known
      BY <1>2, <3>1, CancelKeeps
    <3>3. /\ crd' \in [Sessions -> Crd]
          /\ \A t \in Sessions : crd'[t] = crd[t] \/ crd'[t] = NoCrd
      BY <1>2, <3>1, CrdsTyped
    <3>4. Advance
      BY <3>2 DEF Advance
    <3>5. \A t \in Sessions : JobInv(t)'
      BY <1>1, <1>2, <3>1, <3>2, <3>3 DEF JobInv, NoCrd
    <3> QED BY <3>2, <3>3, <3>4, <3>5
  <2> QED BY <2>1, <2>2, <2>3
<1>5. TypeOK'
  BY <1>1, <1>3, <1>4 DEF IInv, TypeOK, StoreTypeOK, ClusterTypeOK, RoutesTypeOK, SyncTypeOK
<1>6. \A r \in Replicas : LoopInv(r)'
  BY <1>1, <1>4, LoopsKeep DEF IInv, TypeOK
<1> QED BY <1>4, <1>5, <1>6 DEF IInv

\* Every await of the two request handlers.
LEMMA RequestKeeps ==
    ASSUME IInv, NEW s \in Sessions, RouteStep(s), UNCHANGED syncVars
    PROVE  IInv'
BY LocalRouteKeeps, RowRouteKeeps, ClusterRouteKeeps DEF RouteStep, CreateStep, DeleteStep

\* The loop of one replica moves to its next await and keeps its snapshot.
LEMMA GoMoves ==
    ASSUME SyncTypeOK, NEW r \in Replicas, NEW s \in Sessions, NEW pc \in SyncSteps,
           NEW next \in SessionStates \cup {"none"}, Go(r, s, pc, next)
    PROVE  /\ SyncTypeOK'
           /\ \A q \in Replicas : q # r => sync'[q] = sync[q]
           /\ sync'[r].pc = pc /\ sync'[r].cur = s /\ sync'[r].next = next
           /\ sync'[r].seen = sync[r].seen
<1>1. sync \in [Replicas -> Loop] /\ sync[r] \in Loop
  BY DEF SyncTypeOK
<1>2. sync' = [sync EXCEPT ![r] = [sync[r] EXCEPT !.pc = pc, !.cur = s, !.next = next]]
  BY <1>1 DEF Go, Loop
<1>3. [sync[r] EXCEPT !.pc = pc, !.cur = s, !.next = next] \in Loop
  BY <1>1 DEF Loop
<1> QED BY <1>1, <1>2, <1>3 DEF SyncTypeOK, Loop

\* The loop of one replica is done with a session.
LEMMA DoneMoves ==
    ASSUME SyncTypeOK, NEW r \in Replicas, NEW s \in Sessions, Done(r, s)
    PROVE  /\ SyncTypeOK'
           /\ \A q \in Replicas : q # r => sync'[q] = sync[q]
           /\ sync'[r].pc = "idle"
           /\ \A t \in Sessions : sync'[r].seen[t] \in {sync[r].seen[t], NotSeen}
<1>1. sync \in [Replicas -> Loop] /\ sync[r] \in Loop
  BY DEF SyncTypeOK
<1> DEFINE seen == [sync[r].seen EXCEPT ![s] = NotSeen]
           loop == [Resting EXCEPT !.seen = seen]
<1>2. seen \in [Sessions -> Seen] /\ \A t \in Sessions : seen[t] \in {sync[r].seen[t], NotSeen}
  BY <1>1 DEF Loop, Seen, NotSeen
<1>3. loop \in Loop /\ loop.pc = "idle" /\ loop.seen = seen
  BY <1>2 DEF Loop, Resting, SyncSteps
<1>4. sync' = [sync EXCEPT ![r] = loop]
  BY DEF Done
<1> QED BY <1>1, <1>2, <1>3, <1>4 DEF SyncTypeOK

(***************************************************************************)
(* What a step of a loop may do: it touches no job, its own place stays    *)
(* justified, and a row it writes is one the invariant allows.             *)
(***************************************************************************)
LoopStep(r) ==
    /\ SyncTypeOK'
    /\ \A q \in Replicas : q # r => sync'[q] = sync[q]
    /\ LoopInv(r)'

RowAllowed(t) ==
    /\ rows'[t].bound => Submitted(t)
    /\ creator[t] = "fail" /\ Truthful => ~ rows'[t].bound
    /\ Truthful /\ rows'[t].bound /\ is_terminal(rows'[t].state) => Over(t)

\* Such a step keeps the invariant (the shape of every step of main.rs:126-471).
LEMMA LoopStepKeeps ==
    ASSUME IInv, NEW r \in Replicas, LoopStep(r),
           rows' \in [Sessions -> Row], usage' \in [Sessions -> Records],
           faults' \in 0..MaxFaults, services' \in [Sessions -> BOOLEAN],
           \A t \in Sessions : rows'[t] = rows[t] \/ RowAllowed(t),
           UNCHANGED <<jobs, crd, pods, requeues, routeVars>>
    PROVE  IInv'
<1>1. TypeOK'
  BY DEF IInv, TypeOK, StoreTypeOK, ClusterTypeOK, RoutesTypeOK, LoopStep, routeVars
<1>2. \A t \in Sessions : JobInv(t)'
  BY DEF IInv, JobInv, RowAllowed, routeVars
<1>3. \A q \in Replicas : LoopInv(q)'
  BY DEF IInv, LoopInv, LoopStep
<1> QED BY <1>1, <1>2, <1>3 DEF IInv

\* A loop that rests relies on nothing.
LEMMA DoneSteps ==
    ASSUME IInv, NEW r \in Replicas, NEW s \in Sessions, Done(r, s), UNCHANGED jobs
    PROVE  LoopStep(r)
<1>1. SyncTypeOK /\ LoopInv(r)
  BY DEF IInv, TypeOK
<1>2. LoopInv(r)'
  BY <1>1, DoneMoves DEF LoopInv, CrdSteps, NotSeen, TerminalStates
<1> QED BY <1>1, <1>2, DoneMoves DEF LoopStep

\* A loop that goes on needs the facts of the await it goes to.
LEMMA GoSteps ==
    ASSUME IInv, NEW r \in Replicas, NEW s \in Sessions, NEW pc \in SyncSteps,
           NEW next \in SessionStates \cup {"none"}, Go(r, s, pc, next), UNCHANGED jobs,
           pc \in CrdSteps => Backend = "k8s",
           pc = "set" => next \in ActiveStates,
           pc \in {"end", "crdEnd"} => next \in TerminalStates,
           pc \in {"gone", "end", "crdEnd"} => Over(s),
           pc = "crdBind" => (Submitted(s) /\ (next \in TerminalStates => Over(s))),
           pc = "pod" => sync[r].seen[s].state # "absent"
    PROVE  LoopStep(r)
<1>1. SyncTypeOK /\ LoopInv(r)
  BY DEF IInv, TypeOK
<1>2. LoopInv(r)'
  BY <1>1, GoMoves DEF LoopInv
<1> QED BY <1>1, <1>2, GoMoves DEF LoopStep

\* The active states and the terminal ones are apart, and make up all states
\* (session_types.rs:46-48).
LEMMA StatesApart ==
    /\ ActiveStates \cap TerminalStates = {}
    /\ SessionStates = ActiveStates \cup TerminalStates
    /\ {"pending", "starting", "running", "stopping"} \subseteq ActiveStates
    /\ "failed" \in TerminalStates /\ "absent" \notin SessionStates /\ "none" \notin SessionStates
BY DEF ActiveStates, TerminalStates, SessionStates

\* The loop acts on a state it has decided on: a terminal one takes a job that
\* is over (main.rs:414-469).
LEMMA EnactSteps ==
    ASSUME IInv, NEW r \in Replicas, NEW s \in Sessions, NEW next \in SessionStates,
           Enact(r, s, next), next \in TerminalStates => Over(s), UNCHANGED jobs
    PROVE  LoopStep(r)
<1>1. CASE Done(r, s)
  BY <1>1, DoneSteps
<1>2. CASE Go(r, s, step_for(next), next)
  <2>1. step_for(next) \in {"run", "end", "set"}
    BY DEF step_for
  <2>2. /\ step_for(next) = "end" => next \in TerminalStates
        /\ step_for(next) = "set" => next \in ActiveStates
    BY StatesApart DEF step_for, is_terminal
  <2>3. step_for(next) \in SyncSteps /\ step_for(next) \notin CrdSteps
    BY <2>1 DEF SyncSteps, CrdSteps
  <2> QED BY <1>2, <2>1, <2>2, <2>3, GoSteps
<1> QED BY <1>1, <1>2 DEF Enact

\* The same for a state read off the resource (main.rs:153-217).
LEMMA FollowSteps ==
    ASSUME IInv, NEW r \in Replicas, NEW s \in Sessions,
           NEW next \in SessionStates \cup {"none"}, FollowCrd(r, s, next),
           next \in TerminalStates => Over(s), UNCHANGED jobs, Backend = "k8s"
    PROVE  LoopStep(r)
<1>1. CASE Done(r, s)
  BY <1>1, DoneSteps
<1>2. CASE Go(r, s, "crdPod", next)
  BY <1>2, GoSteps DEF SyncSteps
<1>3. CASE is_terminal(next) /\ Go(r, s, "crdEnd", next)
  BY <1>3, GoSteps DEF SyncSteps, is_terminal
<1>4. CASE next = "pending" /\ Go(r, s, "set", next)
  BY <1>4, GoSteps, StatesApart DEF SyncSteps, CrdSteps
<1> QED BY <1>1, <1>2, <1>3, <1>4 DEF FollowCrd

\* The state drawn from a job is a session state, terminal only when the job is
\* over (main.rs:358-401).
LEMMA VerdictOfJob ==
    ASSUME NEW js \in JobStates, js # "JobSuspended", NEW exit \in ExitClasses
    PROVE  /\ session_state(js, exit) \in SessionStates
           /\ session_state(js, exit) \in TerminalStates => js \in EndedJobStates
<1>1. CASE js \in EndedJobStates
  BY <1>1 DEF session_state, ended_state, SessionStates, TerminalStates
<1>2. CASE js = "JobPending"
  BY <1>2 DEF session_state, live_state, EndedJobStates, SessionStates, ActiveStates, TerminalStates
<1>3. CASE js = "JobRunning"
  BY <1>3 DEF session_state, live_state, EndedJobStates, SessionStates, ActiveStates, TerminalStates
<1>4. CASE js = "JobCompleting"
  BY <1>4 DEF session_state, live_state, EndedJobStates, SessionStates, ActiveStates, TerminalStates
<1> QED BY <1>1, <1>2, <1>3, <1>4 DEF JobStates, LiveJobStates

\* A tick takes a snapshot; a session it sees bound has a job (main.rs:313-337).
LEMMA ListKeeps ==
    ASSUME IInv, NEW r \in Replicas, SyncList(r), UNCHANGED routeVars
    PROVE  IInv'
<1> DEFINE snap == [s \in Sessions |->
                      IF s \in polled
                        THEN [state |-> rows[s].state, bound |-> rows[s].bound]
                        ELSE NotSeen]
<1>1. /\ sync' = [sync EXCEPT ![r].seen = snap] /\ sync[r].pc = "idle"
      /\ UNCHANGED <<storeVars, clusterVars>>
  BY DEF SyncList, At
<1>2. /\ sync \in [Replicas -> Loop] /\ rows \in [Sessions -> Row] /\ SyncTypeOK
      /\ TypeOK /\ LoopInv(r) /\ \A t \in Sessions : rows[t].bound => Submitted(t)
  BY DEF IInv, TypeOK, StoreTypeOK, SyncTypeOK, JobInv
<1>3. /\ snap \in [Sessions -> Seen]
      /\ \A t \in Sessions : (snap[t].bound => Submitted(t)) /\ snap[t].state \notin TerminalStates
  BY <1>2, StatesApart
     DEF Seen, Row, NotSeen, polled, list_active_sessions, TerminalStates
<1>4. /\ sync' \in [Replicas -> Loop]
      /\ \A q \in Replicas : q # r => sync'[q] = sync[q]
      /\ sync'[r].pc = "idle" /\ sync'[r].seen = snap
  <2> HIDE DEF snap
  <2> QED BY <1>1, <1>2, <1>3 DEF Loop
<1>5. LoopInv(r)'
  <2> HIDE DEF snap
  <2>1. UNCHANGED jobs
    BY <1>1 DEF clusterVars
  <2> QED BY <1>3, <1>4, <2>1 DEF LoopInv, CrdSteps
<1>6. LoopStep(r)
  BY <1>4, <1>5 DEF LoopStep, SyncTypeOK
<1> QED BY <1>1, <1>2, <1>6, LoopStepKeeps
        DEF storeVars, clusterVars, TypeOK, StoreTypeOK, ClusterTypeOK

\* Steps of a loop that write no table: they ask the scheduler, the resource or
\* the pod, and decide.
LEMMA AskKeeps ==
    ASSUME IInv, NEW r \in Replicas, UNCHANGED routeVars,
           GetJob(r) \/ PodCheck(r) \/ GetCrd(r) \/ CrdPodCheck(r) \/ Crash(r)
    PROVE  IInv'
<1>1. /\ TypeOK /\ SyncTypeOK /\ LoopInv(r) /\ \A t \in Sessions : JobInv(t)
      /\ sync[r] \in Loop /\ \A t \in Sessions : jobs[t] \in Job /\ crd[t] \in Crd
      /\ UNCHANGED <<rows, usage, clusterVars>>
  BY DEF IInv, TypeOK, SyncTypeOK, ClusterTypeOK, GetJob, PodCheck, GetCrd, CrdPodCheck, Crash
<1>2. faults' \in 0..MaxFaults
  BY <1>1, MaxFaultsAssumption
     DEF TypeOK, StoreTypeOK, GetJob, PodCheck, GetCrd, CrdPodCheck, Crash, PodAnswers,
         Fault, NoFault
<1>3. LoopStep(r)
  <2> USE DEF clusterVars
  <2>1. CASE GetJob(r)
    <3>1. PICK s \in Sessions :
             \/ ~ jobs[s].known /\ Go(r, s, "gone", "failed")
             \/ Done(r, s)
             \/ Go(r, s, "pod", "none") /\ sync[r].seen[s].state # "absent"
             \/ /\ jobs[s].state # "JobSuspended" /\ sync[r].seen[s].bound
                /\ Enact(r, s, session_state(jobs[s].state, jobs[s].exit))
      BY <2>1 DEF GetJob, Todo
    <3>2. CASE ~ jobs[s].known /\ Go(r, s, "gone", "failed")
      <4>1. Over(s)
        BY <1>1, <3>2 DEF JobInv
      <4> QED BY <1>1, <3>2, <4>1, GoSteps, StatesApart DEF SyncSteps, CrdSteps
    <3>3. CASE Done(r, s)
      BY <1>1, <3>3, DoneSteps
    <3>4. CASE Go(r, s, "pod", "none") /\ sync[r].seen[s].state # "absent"
      BY <1>1, <3>4, GoSteps DEF SyncSteps, CrdSteps
    <3>5. CASE /\ jobs[s].state # "JobSuspended" /\ sync[r].seen[s].bound
               /\ Enact(r, s, session_state(jobs[s].state, jobs[s].exit))
      <4>1. Submitted(s)
        BY <1>1, <3>5 DEF LoopInv
      <4>2. jobs[s].state \in JobStates /\ jobs[s].exit \in ExitClasses
        BY <1>1, <4>1 DEF Job
      <4> QED BY <1>1, <3>5, <4>2, VerdictOfJob, EnactSteps
    <3> QED BY <3>1, <3>2, <3>3, <3>4, <3>5
  <2>2. CASE PodCheck(r)
    <3> DEFINE s == sync[r].cur
    <3>1. s \in Sessions /\ sync[r].pc = "pod"
      BY <1>1, <2>2 DEF PodCheck, At, LoopInv
    <3>2. PICK answer \in Readiness : Enact(r, s, pod_state(answer, sync[r].seen[s].state))
      BY <2>2 DEF PodCheck
    <3>3. sync[r].seen[s].state \in ActiveStates
      BY <1>1, <3>1, StatesApart DEF LoopInv, Loop, Seen
    <3>4. pod_state(answer, sync[r].seen[s].state) \in ActiveStates
      BY <3>3, StatesApart DEF pod_state
    <3> HIDE DEF s
    <3> QED BY <1>1, <3>1, <3>2, <3>4, StatesApart, EnactSteps
  <2>3. CASE GetCrd(r)
    <3>1. PICK s \in Sessions :
             \/ Done(r, s)
             \/ /\ crd[s].word # "none" /\ ~ sync[r].seen[s].bound /\ s \in Todo(r)
                /\ \/ crd[s].id /\ Go(r, s, "crdBind", crd_state(crd[s]))
                   \/ FollowCrd(r, s, crd_state(crd[s]))
      BY <2>3 DEF GetCrd, Todo
    <3>2. CASE Done(r, s)
      BY <1>1, <3>2, DoneSteps
    <3>3. CASE /\ crd[s].word # "none"
               /\ \/ crd[s].id /\ Go(r, s, "crdBind", crd_state(crd[s]))
                  \/ FollowCrd(r, s, crd_state(crd[s]))
      <4>1. JobInv(s) /\ Backend = "k8s"
        BY <1>1, <3>3, BackendAssumption DEF JobInv, NoCrd
      <4>2. crd_state(crd[s]) \in SessionStates \cup {"none"}
        BY StatesApart DEF crd_state, parse, TerminalStates
      <4>3. crd_state(crd[s]) \in TerminalStates => Over(s)
        BY <3>3, <4>1 DEF crd_state, JobInv, is_terminal, TerminalStates
      <4>4. crd[s].id => Submitted(s)
        BY <4>1 DEF JobInv
      <4>5. CASE crd[s].id /\ Go(r, s, "crdBind", crd_state(crd[s]))
        BY <1>1, <4>1, <4>2, <4>3, <4>4, <4>5, GoSteps DEF SyncSteps
      <4>6. CASE FollowCrd(r, s, crd_state(crd[s]))
        BY <1>1, <4>1, <4>2, <4>3, <4>6, FollowSteps
      <4> QED BY <3>3, <4>5, <4>6
    <3> QED BY <3>1, <3>2, <3>3
  <2>4. CASE CrdPodCheck(r)
    <3> DEFINE s == sync[r].cur
    <3>1. s \in Sessions
      BY <1>1, <2>4 DEF CrdPodCheck, At, LoopInv
    <3>2. \/ Done(r, s) \/ Go(r, s, "run", "running") \/ Go(r, s, "set", "starting")
      BY <2>4 DEF CrdPodCheck
    <3> HIDE DEF s
    <3>3. CASE Done(r, s)
      BY <1>1, <3>1, <3>3, DoneSteps
    <3>4. CASE Go(r, s, "run", "running")
      BY <1>1, <3>1, <3>4, GoSteps, StatesApart DEF SyncSteps, CrdSteps
    <3>5. CASE Go(r, s, "set", "starting")
      BY <1>1, <3>1, <3>5, GoSteps, StatesApart DEF SyncSteps, CrdSteps
    <3> QED BY <3>2, <3>3, <3>4, <3>5
  <2>5. CASE Crash(r)
    <3>1. Resting \in Loop
      BY DEF Resting, Loop, SyncSteps, Seen, NotSeen
    <3>2. /\ sync' \in [Replicas -> Loop] /\ sync'[r] = Resting
          /\ \A q \in Replicas : q # r => sync'[q] = sync[q]
      BY <1>1, <2>5, <3>1 DEF Crash, SyncTypeOK
    <3>3. LoopInv(r)'
      BY <3>2 DEF LoopInv, Resting, NotSeen, CrdSteps, TerminalStates
    <3> QED BY <3>2, <3>3 DEF LoopStep, SyncTypeOK
  <2> QED BY <2>1, <2>2, <2>3, <2>4, <2>5
<1> QED BY <1>1, <1>2, <1>3, LoopStepKeeps
        DEF TypeOK, StoreTypeOK, ClusterTypeOK, clusterVars

\* Steps of a loop that write the bill or the ssh service (main.rs:256-301,
\* main.rs:440-458).
LEMMA ProvisionKeeps ==
    ASSUME IInv, NEW r \in Replicas, UNCHANGED routeVars,
           CreateService(r) \/ BillStart(r) \/ BillEnd(r) \/ DeleteService(r)
    PROVE  IInv'
<1> DEFINE s == sync[r].cur
<1>1. /\ UNCHANGED <<rows, jobs, crd, pods, requeues>>
      /\ usage \in [Sessions -> Records] /\ services \in [Sessions -> BOOLEAN]
      /\ faults \in 0..MaxFaults /\ sync[r] \in Loop /\ s \in Sessions
      /\ rows \in [Sessions -> Row]
  BY DEF IInv, TypeOK, StoreTypeOK, ClusterTypeOK, SyncTypeOK, LoopInv, clusterVars,
         CreateService, BillStart, BillEnd, DeleteService, At
<1>2. faults' \in 0..MaxFaults
  BY <1>1, MaxFaultsAssumption
     DEF CreateService, BillStart, BillEnd, DeleteService, Fault, NoFault
<1>3. services' \in [Sessions -> BOOLEAN]
  BY <1>1 DEF CreateService, BillStart, BillEnd, DeleteService, clusterVars
<1>4. usage' \in [Sessions -> Records]
  <2>1. usage[s].open \in Nat /\ usage[s].closed \in Nat
    BY <1>1 DEF Records
  <2>2. record_usage_start(s) \in [Sessions -> Records]
    BY <1>1, <2>1 DEF record_usage_start, Records
  <2>3. record_usage_end(s) \in [Sessions -> Records]
    BY <1>1, <2>1 DEF record_usage_end, Records
  <2> QED BY <1>1, <2>2, <2>3 DEF CreateService, BillStart, BillEnd, DeleteService
<1>5. \/ Done(r, s)
      \/ Go(r, s, "ssh", "running") \/ Go(r, s, "bill", "running")
      \/ Go(r, s, "unsvc", sync[r].next)
  BY DEF CreateService, BillStart, BillEnd, DeleteService
<1>6. LoopStep(r)
  <2> HIDE DEF s
  <2>1. CASE Done(r, s)
    BY <1>1, <2>1, DoneSteps
  <2>2. CASE Go(r, s, "ssh", "running") \/ Go(r, s, "bill", "running")
    BY <1>1, <2>2, GoSteps, StatesApart DEF SyncSteps, CrdSteps
  <2>3. CASE Go(r, s, "unsvc", sync[r].next)
    BY <1>1, <2>3, GoSteps DEF SyncSteps, CrdSteps, Loop
  <2> QED BY <1>5, <2>1, <2>2, <2>3
<1> QED BY <1>1, <1>2, <1>3, <1>4, <1>6, LoopStepKeeps

\* Steps of a loop that write the row: only a job that is over ends a session
\* that knows it (main.rs:142-151, 207, 246, 287, 342, 434, 461).
LEMMA RowSyncKeeps ==
    ASSUME IInv, NEW r \in Replicas, UNCHANGED routeVars,
           \/ SetState(r) \/ SetFailed(r) \/ SetRunning(r) \/ SetSsh(r)
           \/ SetEnded(r) \/ CrdBind(r) \/ CrdEnded(r)
    PROVE  IInv'
<1> DEFINE s == sync[r].cur
           next == sync[r].next
<1>1. /\ UNCHANGED <<usage, clusterVars>>
      /\ rows \in [Sessions -> Row] /\ usage \in [Sessions -> Records]
      /\ services \in [Sessions -> BOOLEAN]
      /\ faults \in 0..MaxFaults /\ sync[r] \in Loop /\ s \in Sessions
      /\ LoopInv(r) /\ \A t \in Sessions : JobInv(t)
  BY DEF IInv, TypeOK, StoreTypeOK, ClusterTypeOK, SyncTypeOK, LoopInv, At,
         SetState, SetFailed, SetRunning, SetSsh, SetEnded, CrdBind, CrdEnded
<1>2. faults' \in 0..MaxFaults
  BY <1>1, MaxFaultsAssumption
     DEF SetState, SetFailed, SetRunning, SetSsh, SetEnded, CrdBind, CrdEnded, Try,
         Fault, NoFault
<1>3. next \in SessionStates \cup {"none"}
  BY <1>1 DEF Loop
<1>4. /\ rows' \in [Sessions -> Row]
      /\ \A t \in Sessions : rows'[t] = rows[t] \/ RowAllowed(t)
  <2>1. ASSUME NEW state \in SessionStates, rows' = [rows EXCEPT ![s].state = state],
               state \in TerminalStates => Over(s)
        PROVE  /\ rows' \in [Sessions -> Row]
               /\ \A t \in Sessions : rows'[t] = rows[t] \/ RowAllowed(t)
    <3>1. /\ \A t \in Sessions : t # s => rows'[t] = rows[t]
          /\ rows'[s].bound = rows[s].bound /\ rows'[s].state = state
      BY <1>1, <2>1 DEF Row
    <3>2. rows' \in [Sessions -> Row]
      BY <1>1, <2>1, TablesTyped DEF update_session_state
    <3> QED BY <1>1, <2>1, <3>1, <3>2 DEF RowAllowed, JobInv, is_terminal
  <2>2. CASE rows' = rows
    BY <1>1, <2>2
  <2>3. CASE SetState(r)
    BY <1>1, <2>1, <2>2, <2>3, StatesApart
       DEF SetState, Try, update_session_state, At, LoopInv
  <2>4. CASE SetFailed(r)
    BY <1>1, <2>1, <2>2, <2>4, StatesApart
       DEF SetFailed, Try, update_session_failed, At, LoopInv
  <2>5. CASE SetEnded(r)
    BY <1>1, <2>1, <2>2, <2>5, StatesApart
       DEF SetEnded, Try, update_session_ended, At, LoopInv
  <2>6. CASE CrdEnded(r)
    BY <1>1, <2>1, <2>2, <2>6, StatesApart
       DEF CrdEnded, Try, update_session_ended, At, LoopInv
  <2>7. CASE SetRunning(r) /\ rows' # rows
    <3>1. rows' = update_session_running(s)
      BY <2>7 DEF SetRunning
    <3>2. /\ \A t \in Sessions : t # s => rows'[t] = rows[t]
          /\ rows'[s].bound = rows[s].bound /\ rows'[s].state = "running"
      BY <1>1, <3>1 DEF Row, update_session_running
    <3>3. rows' \in [Sessions -> Row]
      BY <1>1, <3>1, TablesTyped
    <3> QED BY <1>1, <3>2, <3>3, StatesApart DEF RowAllowed, JobInv, is_terminal
  <2>8. CASE SetSsh(r) /\ rows' # rows
    <3>1. rows' = update_session_ssh(s)
      BY <2>8 DEF SetSsh
    <3>2. /\ \A t \in Sessions : t # s => rows'[t] = rows[t]
          /\ rows'[s].bound = rows[s].bound /\ rows'[s].state = rows[s].state
      BY <1>1, <3>1 DEF Row, update_session_ssh
    <3>3. rows' \in [Sessions -> Row]
      BY <1>1, <3>1, TablesTyped
    <3> QED BY <1>1, <3>2, <3>3 DEF RowAllowed, JobInv
  <2>9. CASE CrdBind(r) /\ rows' # rows
    <3>1. rows' = update_session_spur_job(s) /\ sync[r].pc = "crdBind"
      BY <2>9 DEF CrdBind, Try, At
    <3>2. /\ \A t \in Sessions : t # s => rows'[t] = rows[t]
          /\ rows'[s].state = "pending"
      BY <1>1, <3>1 DEF Row, update_session_spur_job
    <3>3. rows' \in [Sessions -> Row]
      BY <1>1, <3>1, TablesTyped
    <3>4. Submitted(s) /\ Backend = "k8s"
      BY <1>1, <3>1 DEF LoopInv, CrdSteps
    <3> QED BY <1>1, <3>2, <3>3, <3>4, StatesApart DEF RowAllowed, JobInv, is_terminal
  <2> QED BY <2>2, <2>3, <2>4, <2>5, <2>6, <2>7, <2>8, <2>9
<1>5. LoopStep(r)
  <2> USE DEF clusterVars
  <2>1. CASE Done(r, s)
    BY <1>1, <2>1, DoneSteps
  <2>2. CASE SetEnded(r)
    BY <1>1, <1>3, <2>2, GoSteps DEF SetEnded, SyncSteps, CrdSteps
  <2>3. CASE CrdBind(r)
    <3>1. next \in TerminalStates => Over(s)
      BY <1>1, <2>3 DEF CrdBind, At, LoopInv
    <3>2. Backend = "k8s" /\ FollowCrd(r, s, next)
      BY <1>1, <2>3 DEF CrdBind, At, LoopInv, CrdSteps
    <3> HIDE DEF s, next
    <3> QED BY <1>1, <1>3, <3>1, <3>2, FollowSteps
  <2>4. CASE Go(r, s, after_running(s), "running")
    <3>1. after_running(s) \in {"svc", "ssh", "bill"}
      BY DEF after_running
    <3> HIDE DEF s
    <3> QED BY <1>1, <2>4, <3>1, GoSteps, StatesApart DEF SyncSteps, CrdSteps
  <2>5. CASE Go(r, s, "bill", "running")
    <3> HIDE DEF s
    <3> QED BY <1>1, <2>5, GoSteps, StatesApart DEF SyncSteps, CrdSteps
  <2> QED BY <2>1, <2>2, <2>3, <2>4, <2>5
          DEF SetState, SetFailed, SetRunning, SetSsh, CrdEnded
<1> QED BY <1>1, <1>2, <1>4, <1>5, LoopStepKeeps DEF clusterVars

\* Every await of a sync loop, and its death.
LEMMA PollKeeps ==
    ASSUME IInv, NEW r \in Replicas, SyncStep(r) \/ Crash(r), UNCHANGED routeVars
    PROVE  IInv'
BY ListKeeps, AskKeeps, ProvisionKeeps, RowSyncKeeps DEF SyncStep, CrdStep

\* IInv is inductive: it holds of the empty system, and every step of a handler,
\* of a loop and of the cluster keeps it.
LEMMA Inductive == Spec => []IInv
<1>1. Init => IInv
  <2> SUFFICES ASSUME Init PROVE IInv
    OBVIOUS
  <2> USE DEF Init, StoreInit, ClusterInit, RoutesInit, SyncInit
  <2>1. StoreTypeOK
    BY MaxFaultsAssumption DEF StoreTypeOK, Row, Records
  <2>2. ClusterTypeOK
    <3>1. jobs \in [Sessions -> Job]
      BY DEF Job, ExitClasses
    <3> QED BY <3>1, ClusterAssumption, CrdsTyped DEF ClusterTypeOK, PodStates
  <2>3. RoutesTypeOK
    BY RoutesAssumption DEF RoutesTypeOK, CreatorSteps, DeleterSteps
  <2>4. SyncTypeOK
    BY DEF SyncTypeOK, Resting, Loop, SyncSteps, Seen, NotSeen
  <2>5. \A s \in Sessions : JobInv(s)
    BY JobStatesApart DEF JobInv, NoCrd, Early
  <2>6. \A r \in Replicas : LoopInv(r)
    BY DEF LoopInv, Resting, NotSeen, CrdSteps, TerminalStates
  <2> QED BY <2>1, <2>2, <2>3, <2>4, <2>5, <2>6 DEF IInv, TypeOK
<1>2. IInv /\ [Next]_vars => IInv'
  <2> SUFFICES ASSUME IInv, [Next]_vars PROVE IInv'
    OBVIOUS
  <2>1. ASSUME NEW s \in Sessions, Request(s) PROVE IInv'
    BY <2>1, RequestKeeps DEF Request
  <2>2. ASSUME NEW s \in Sessions, Environment(s) PROVE IInv'
    BY <2>2, SpurKeeps, OperatorKeeps DEF Environment
  <2>3. ASSUME NEW r \in Replicas, Poll(r) \/ Die(r) PROVE IInv'
    BY <2>3, PollKeeps DEF Poll, Die
  <2>4. CASE UNCHANGED vars
    BY <2>4 DEF vars, storeVars, clusterVars, routeVars, syncVars, IInv, TypeOK,
       StoreTypeOK, ClusterTypeOK, RoutesTypeOK, SyncTypeOK, JobInv, LoopInv
  <2> QED BY <2>1, <2>2, <2>3, <2>4 DEF Next
<1> QED BY <1>1, <1>2, PTL DEF Spec

\* Whatever the number of sessions, replicas, failures and requeues, every
\* variable holds what the code can store in it.
THEOREM TypeCorrect == Spec => []TypeOK
<1>1. IInv => TypeOK
  BY DEF IInv
<1> QED BY <1>1, Inductive, PTL

\* On a native host, and on K8s as long as no answer to the creation of a
\* resource is lost, a session that knows its job is never shown as ended while
\* the job is alive, however stale the answer its loop acts on (main.rs:309-471).
THEOREM EndsWithItsJob == ASSUME Truthful PROVE Spec => []EndedMeansJobOver
<1>1. IInv => EndedMeansJobOver
  BY DEF IInv, JobInv, EndedMeansJobOver
<1> QED BY <1>1, Inductive, PTL

----------------------------------------------------------------------------
(***************************************************************************)
(* That what transition_session_to_running (main.rs:238-305) provisions    *)
(* for a session always comes after its row says the session runs, for     *)
(* every number of sessions and replicas and however many writes fail.     *)
(*                                                                         *)
(* The invariant adds what a loop in the middle of the transition knows:   *)
(* the await it stands at tells which of the writes before it succeeded,   *)
(* and no other handler or loop ever takes those back.                     *)
(***************************************************************************)

TransitionSteps == {"svc", "ssh", "bill"}

ProvisionInv(s) ==
    /\ Billed(s) \/ rows[s].addr \/ services[s] => rows[s].started
    /\ Billed(s) /\ SshEnabled[s] /\ Backend = "native_host" => rows[s].addr

TransitionInv(r) ==
    sync[r].pc \in TransitionSteps =>
       /\ rows[sync[r].cur].started
       /\ sync[r].pc = "svc" => Backend = "k8s"
       /\ sync[r].pc = "bill" /\ SshEnabled[sync[r].cur] /\ Backend = "native_host" =>
             rows[sync[r].cur].addr

StartInv ==
    /\ \A s \in Sessions : ProvisionInv(s)
    /\ \A r \in Replicas : TransitionInv(r)

(***************************************************************************)
(* Every step but four provisions nothing, takes nothing back, and sends   *)
(* no loop into the transition.                                            *)
(***************************************************************************)
TablesQuiet ==
    \A t \in Sessions :
       /\ rows'[t].started = rows[t].started
       /\ rows'[t].addr = rows[t].addr
       /\ Billed(t)' => Billed(t)
       /\ services'[t] => services[t]

LoopQuiet(q) ==
    \/ sync'[q].pc \notin TransitionSteps
    \/ sync'[q].pc = sync[q].pc /\ sync'[q].cur = sync[q].cur

\* Such steps keep the invariant (all code but main.rs:246-301).
LEMMA QuietKeeps ==
    ASSUME IInv, StartInv, TablesQuiet, \A q \in Replicas : LoopQuiet(q)
    PROVE  StartInv'
<1>1. \A s \in Sessions : ProvisionInv(s)'
  BY DEF StartInv, TablesQuiet, ProvisionInv
<1>2. \A r \in Replicas : TransitionInv(r)'
  <2> TAKE r \in Replicas
  <2>1. CASE sync'[r].pc \notin TransitionSteps
    BY <2>1 DEF TransitionInv
  <2>2. CASE sync'[r].pc \in TransitionSteps
    <3>1. sync'[r].pc = sync[r].pc /\ sync'[r].cur = sync[r].cur
      BY <2>2 DEF LoopQuiet
    <3>2. sync[r].cur \in Sessions
      BY <2>2, <3>1 DEF IInv, LoopInv, TransitionSteps
    <3> QED BY <2>2, <3>1, <3>2 DEF StartInv, TransitionInv, TablesQuiet
  <2> QED BY <2>1, <2>2
<1> QED BY <1>1, <1>2 DEF StartInv

\* The handlers write the state and the job id of a row, nothing else.
LEMMA HandlersQuiet ==
    ASSUME IInv, NEW s \in Sessions, RouteStep(s)
    PROVE  TablesQuiet
<1>1. rows \in [Sessions -> Row] /\ UNCHANGED <<usage, services>>
  BY DEF IInv, TypeOK, StoreTypeOK, RouteStep, CreateStep, DeleteStep, PostSession, CheckQuota,
         CheckCapacity, InsertRow, CreateCrd, SubmitJob, BindJob, MarkFailed, AbandonCreate,
         DeleteRequest, CancelWork, MarkStopping, AbandonDelete, storeVars, clusterVars
<1>2. \/ rows' = rows
      \/ \E state \in SessionStates : rows' = [rows EXCEPT ![s].state = state]
      \/ rows' = update_session_spur_job(s)
  BY StatesApart
     DEF RouteStep, CreateStep, DeleteStep, PostSession, CheckQuota, CheckCapacity,
         InsertRow, CreateCrd, SubmitJob, BindJob, MarkFailed, AbandonCreate, DeleteRequest,
         CancelWork, MarkStopping, AbandonDelete, storeVars, create_session, Try,
         update_session_failed, update_session_state, ActiveStates
<1>3. \A t \in Sessions : rows'[t].started = rows[t].started /\ rows'[t].addr = rows[t].addr
  BY <1>1, <1>2 DEF update_session_spur_job, Row
<1> QED BY <1>1, <1>3 DEF TablesQuiet, Billed

\* Where a loop is after going on, and after being done with a session.
LEMMA LoopMoves ==
    ASSUME IInv, NEW r \in Replicas, NEW s
    PROVE  /\ \A pc, next : Go(r, s, pc, next) =>
                /\ sync'[r].pc = pc /\ sync'[r].cur = s
                /\ \A q \in Replicas : q # r => sync'[q] = sync[q]
           /\ Done(r, s) =>
                /\ sync'[r].pc = "idle"
                /\ \A q \in Replicas : q # r => sync'[q] = sync[q]
<1>1. sync \in [Replicas -> Loop]
  BY DEF IInv, TypeOK, SyncTypeOK
<1>2. sync[r] \in Loop
  BY <1>1
<1>3. ASSUME NEW pc, NEW next, Go(r, s, pc, next)
      PROVE  /\ sync'[r].pc = pc /\ sync'[r].cur = s
             /\ \A q \in Replicas : q # r => sync'[q] = sync[q]
  <2>1. sync' = [sync EXCEPT ![r] = [sync[r] EXCEPT !.pc = pc, !.cur = s, !.next = next]]
    BY <1>1, <1>3 DEF Go, Loop
  <2> QED BY <1>1, <1>2, <2>1 DEF Loop
<1>4. ASSUME Done(r, s)
      PROVE  /\ sync'[r].pc = "idle"
             /\ \A q \in Replicas : q # r => sync'[q] = sync[q]
  <2> DEFINE seen == [sync[r].seen EXCEPT ![s] = NotSeen]
  <2>1. sync' = [sync EXCEPT ![r] = [Resting EXCEPT !.seen = seen]]
    BY <1>4 DEF Done
  <2>2. [Resting EXCEPT !.seen = seen].pc = "idle"
    BY DEF Resting
  <2> QED BY <1>1, <2>1, <2>2
<1> QED BY <1>3, <1>4

\* What a loop does outside the transition provisions nothing and does not lead
\* into the middle of it: the way in is the write of 'running' (main.rs:309-471).
LEMMA LoopsQuiet ==
    ASSUME IInv, NEW r \in Replicas,
           \/ SyncList(r) \/ GetJob(r) \/ PodCheck(r) \/ SetState(r) \/ SetFailed(r)
           \/ SetEnded(r) \/ BillEnd(r) \/ DeleteService(r) \/ CrdStep(r) \/ Crash(r)
    PROVE  TablesQuiet /\ \A q \in Replicas : LoopQuiet(q)
<1> DEFINE s == sync[r].cur
<1>1. /\ rows \in [Sessions -> Row] /\ usage \in [Sessions -> Records]
      /\ services \in [Sessions -> BOOLEAN] /\ sync \in [Replicas -> Loop]
  BY DEF IInv, TypeOK, StoreTypeOK, ClusterTypeOK, SyncTypeOK
<1>2. \A t \in Sessions : rows'[t].started = rows[t].started /\ rows'[t].addr = rows[t].addr
  <2>1. \/ rows' = rows
        \/ \E state : rows' = [rows EXCEPT ![s].state = state]
        \/ rows' = update_session_spur_job(s)
    BY DEF SyncList, GetJob, PodCheck, SetState, SetFailed, SetEnded, BillEnd, DeleteService,
           CrdStep, GetCrd, CrdBind, CrdPodCheck, CrdEnded, Crash, Try, storeVars,
           update_session_state, update_session_failed, update_session_ended
  <2> HIDE DEF s
  <2> QED BY <1>1, <2>1 DEF update_session_spur_job, Row
<1>3. \A t \in Sessions : Billed(t)' => Billed(t)
  <2>1. usage' = usage \/ usage' = record_usage_end(s)
    BY DEF SyncList, GetJob, PodCheck, SetState, SetFailed, SetEnded, BillEnd, DeleteService,
           CrdStep, GetCrd, CrdBind, CrdPodCheck, CrdEnded, Crash, storeVars
  <2> HIDE DEF s
  <2>2. CASE usage' = record_usage_end(s)
    <3>1. usage' = [usage EXCEPT ![s] = [open |-> 0, closed |-> usage[s].closed + usage[s].open]]
      BY <2>2 DEF record_usage_end
    <3>2. \A t \in Sessions : /\ usage[t].open \in Nat /\ usage[t].closed \in Nat
                              /\ usage'[t].open + usage'[t].closed = usage[t].open + usage[t].closed
      BY <1>1, <3>1 DEF Records
    <3> QED BY <3>2 DEF Billed
  <2> QED BY <2>1, <2>2 DEF Billed
<1>4. \A t \in Sessions : services'[t] => services[t]
  <2>1. services' = services \/ services' = [services EXCEPT ![s] = FALSE]
    BY DEF SyncList, GetJob, PodCheck, SetState, SetFailed, SetEnded, BillEnd, DeleteService,
           CrdStep, GetCrd, CrdBind, CrdPodCheck, CrdEnded, Crash, clusterVars
  <2> QED BY <1>1, <2>1
<1>5. \A q \in Replicas : LoopQuiet(q)
  <2>1. CASE SyncList(r)
    <3>1. \A q \in Replicas : sync'[q].pc = sync[q].pc /\ sync'[q].cur = sync[q].cur
      BY <1>1, <2>1 DEF SyncList, Loop
    <3> QED BY <3>1 DEF LoopQuiet
  <2>2. CASE Crash(r)
    BY <1>1, <2>2 DEF Crash, LoopQuiet, Resting, TransitionSteps
  <2>3. CASE \E t : \/ Done(r, t)
                    \/ \E next : \E pc \in SyncSteps \ TransitionSteps : Go(r, t, pc, next)
    BY <2>3, LoopMoves DEF LoopQuiet, TransitionSteps
  <2>4. CASE GetJob(r)
    BY <2>3, <2>4
       DEF GetJob, Enact, step_for, SyncSteps, TransitionSteps
  <2>5. CASE PodCheck(r)
    BY <2>3, <2>5 DEF PodCheck, Enact, step_for, SyncSteps, TransitionSteps
  <2>6. CASE SetState(r) \/ SetFailed(r) \/ DeleteService(r) \/ CrdEnded(r)
    BY <2>3, <2>6 DEF SetState, SetFailed, DeleteService, CrdEnded
  <2>7. CASE SetEnded(r) \/ BillEnd(r)
    BY <2>3, <2>7 DEF SetEnded, BillEnd, SyncSteps, TransitionSteps
  <2>8. CASE GetCrd(r) \/ CrdBind(r) \/ CrdPodCheck(r)
    BY <2>3, <2>8 DEF GetCrd, CrdBind, CrdPodCheck, FollowCrd, SyncSteps, TransitionSteps
  <2> QED BY <2>1, <2>2, <2>4, <2>5, <2>6, <2>7, <2>8 DEF CrdStep
<1> QED BY <1>2, <1>3, <1>4, <1>5 DEF TablesQuiet

(***************************************************************************)
(* The four steps of the transition: each may add to what is known of the  *)
(* session it works on, none takes anything from another.                  *)
(***************************************************************************)
RowsGrow ==
    \A t \in Sessions :
       /\ rows[t].started => rows'[t].started
       /\ rows[t].addr => rows'[t].addr

\* What a transition step leaves of the other loops (main.rs:246-301).
LEMMA OthersKeep ==
    ASSUME IInv, StartInv, RowsGrow, NEW r \in Replicas,
           \A q \in Replicas : q # r => sync'[q] = sync[q],
           TransitionInv(r)'
    PROVE  \A q \in Replicas : TransitionInv(q)'
<1>1. \A q \in Replicas : sync[q].pc \in TransitionSteps => sync[q].cur \in Sessions
  BY DEF IInv, LoopInv, TransitionSteps
<1> QED BY <1>1 DEF StartInv, TransitionInv, RowsGrow

\* Each write of the transition finds the ones before it in place.
LEMMA TransitionKeeps ==
    ASSUME IInv, StartInv, NEW r \in Replicas,
           SetRunning(r) \/ CreateService(r) \/ SetSsh(r) \/ BillStart(r)
    PROVE  StartInv'
<1> DEFINE s == sync[r].cur
<1>1. /\ rows \in [Sessions -> Row] /\ usage \in [Sessions -> Records]
      /\ services \in [Sessions -> BOOLEAN] /\ s \in Sessions
      /\ \A t \in Sessions : ProvisionInv(t)
      /\ TransitionInv(r)
  BY DEF IInv, TypeOK, StoreTypeOK, ClusterTypeOK, LoopInv, StartInv,
         SetRunning, CreateService, SetSsh, BillStart, At
<1> HIDE DEF s
<1>2. CASE SetRunning(r)
  <2>1. /\ UNCHANGED <<usage, services>>
        /\ \/ rows' = [rows EXCEPT ![s].state = "running", ![s].started = TRUE]
              /\ Go(r, s, after_running(s), "running")
           \/ rows' = rows /\ Done(r, s)
    BY <1>2 DEF SetRunning, clusterVars, update_session_running, s
  <2>2. /\ RowsGrow /\ \A t \in Sessions : rows'[t].addr = rows[t].addr
        /\ rows'[s].started \/ Done(r, s)
    BY <1>1, <2>1 DEF RowsGrow, Row
  <2>3. \A t \in Sessions : ProvisionInv(t)'
    BY <1>1, <2>1, <2>2 DEF ProvisionInv, RowsGrow, Billed
  <2>4. /\ sync'[r].pc \in {"idle", after_running(s)}
        /\ sync'[r].pc = after_running(s) => sync'[r].cur = s /\ rows'[s].started
        /\ \A q \in Replicas : q # r => sync'[q] = sync[q]
    BY <2>1, <2>2, LoopMoves DEF after_running
  <2>5. TransitionInv(r)'
    BY <2>4 DEF TransitionInv, TransitionSteps, after_running
  <2> QED BY <2>2, <2>3, <2>4, <2>5, OthersKeep DEF StartInv
<1>3. CASE CreateService(r)
  <2>1. /\ UNCHANGED <<rows, usage>> /\ sync[r].pc = "svc"
        /\ \/ services' = [services EXCEPT ![s] = TRUE]
           \/ services' = services
        /\ Go(r, s, "ssh", "running") \/ Go(r, s, "bill", "running")
    BY <1>3 DEF CreateService, At, s
  <2>2. rows[s].started /\ Backend = "k8s"
    BY <1>1, <2>1 DEF TransitionInv, TransitionSteps, s
  <2>3. \A t \in Sessions : ProvisionInv(t)'
    BY <1>1, <2>1, <2>2 DEF ProvisionInv, Billed
  <2>4. /\ sync'[r].pc \in {"ssh", "bill"} /\ sync'[r].cur = s
        /\ \A q \in Replicas : q # r => sync'[q] = sync[q]
    BY <2>1, LoopMoves
  <2>5. TransitionInv(r)'
    BY <2>1, <2>2, <2>4 DEF TransitionInv
  <2>6. RowsGrow
    BY <2>1 DEF RowsGrow
  <2> QED BY <2>3, <2>4, <2>5, <2>6, OthersKeep DEF StartInv
<1>4. CASE SetSsh(r)
  <2>1. /\ UNCHANGED <<usage, services>> /\ sync[r].pc = "ssh"
        /\ \/ rows' = [rows EXCEPT ![s].addr = TRUE] /\ Go(r, s, "bill", "running")
           \/ rows' = rows /\ Done(r, s)
    BY <1>4 DEF SetSsh, At, clusterVars, update_session_ssh, s
  <2>2. rows[s].started
    BY <1>1, <2>1 DEF TransitionInv, TransitionSteps, s
  <2>3. /\ RowsGrow /\ \A t \in Sessions : rows'[t].started = rows[t].started
        /\ \A t \in Sessions : t # s => rows'[t].addr = rows[t].addr
        /\ rows'[s].addr \/ Done(r, s)
    <3>1. rows[s] \in Row /\ rows \in [Sessions -> Row] /\ s \in Sessions
      BY <1>1
    <3>2. LET row == [rows[s] EXCEPT !.addr = TRUE]
          IN row.started = rows[s].started /\ row.addr = TRUE
      BY <3>1 DEF Row
    <3>3. CASE rows' = [rows EXCEPT ![s].addr = TRUE]
      <4>1. /\ rows'[s] = [rows[s] EXCEPT !.addr = TRUE]
            /\ \A t \in Sessions : t # s => rows'[t] = rows[t]
        BY <3>1, <3>3
      <4>2. rows'[s].started = rows[s].started /\ rows'[s].addr
        BY <3>2, <4>1
      <4> QED BY <4>1, <4>2 DEF RowsGrow
    <3>4. CASE rows' = rows /\ Done(r, s)
      BY <3>4 DEF RowsGrow
    <3> QED BY <2>1, <3>3, <3>4
  <2>4. \A t \in Sessions : ProvisionInv(t)'
    BY <1>1, <2>1, <2>2, <2>3 DEF ProvisionInv, RowsGrow, Billed
  <2>5. /\ sync'[r].pc \in {"idle", "bill"}
        /\ sync'[r].pc = "bill" => sync'[r].cur = s /\ rows'[s].addr
        /\ \A q \in Replicas : q # r => sync'[q] = sync[q]
    <3>1. CASE Go(r, s, "bill", "running") /\ rows'[s].addr
      BY <3>1, LoopMoves
    <3>2. CASE Done(r, s)
      BY <3>2, LoopMoves
    <3> QED BY <2>1, <2>3, <3>1, <3>2
  <2>6. TransitionInv(r)'
    BY <1>1, <2>2, <2>3, <2>5 DEF TransitionInv, TransitionSteps
  <2> QED BY <2>3, <2>4, <2>5, <2>6, OthersKeep DEF StartInv
<1>5. CASE BillStart(r)
  <2>1. /\ UNCHANGED <<rows, services>> /\ sync[r].pc = "bill" /\ Done(r, s)
        /\ usage' = [usage EXCEPT ![s].open = @ + 1] \/ usage' = usage
    BY <1>5 DEF BillStart, At, clusterVars, record_usage_start, s
  <2>2. /\ rows[s].started
        /\ SshEnabled[s] /\ Backend = "native_host" => rows[s].addr
    BY <1>1, <2>1 DEF TransitionInv, TransitionSteps, s
  <2>3. \A t \in Sessions : t # s => usage'[t] = usage[t]
    BY <1>1, <2>1
  <2>4. \A t \in Sessions : ProvisionInv(t)'
    BY <1>1, <2>1, <2>2, <2>3 DEF ProvisionInv, Billed
  <2>5. sync'[r].pc = "idle" /\ \A q \in Replicas : q # r => sync'[q] = sync[q]
    BY <2>1, LoopMoves
  <2>6. TransitionInv(r)'
    BY <2>5 DEF TransitionInv, TransitionSteps
  <2>7. RowsGrow
    BY <2>1 DEF RowsGrow
  <2> QED BY <2>4, <2>5, <2>6, <2>7, OthersKeep DEF StartInv
<1> QED BY <1>2, <1>3, <1>4, <1>5

\* StartInv is inductive relative to IInv.
LEMMA Provisioning == Spec => []StartInv
<1>1. Init => StartInv
  BY DEF Init, StoreInit, ClusterInit, SyncInit, Resting, StartInv, ProvisionInv, TransitionInv,
         TransitionSteps, Billed
<1>2. IInv /\ StartInv /\ [Next]_vars => StartInv'
  <2> SUFFICES ASSUME IInv, StartInv, [Next]_vars PROVE StartInv'
    OBVIOUS
  <2>1. ASSUME NEW s \in Sessions, Request(s) PROVE StartInv'
    <3>1. TablesQuiet /\ UNCHANGED sync
      BY <2>1, HandlersQuiet DEF Request, syncVars
    <3> QED BY <3>1, QuietKeeps DEF LoopQuiet
  <2>2. ASSUME NEW s \in Sessions, Environment(s) PROVE StartInv'
    <3>1. UNCHANGED <<rows, usage, services, sync>>
      BY <2>2 DEF Environment, storeVars, syncVars, SpurStep, OperatorStep, PodProgress,
         StartJob, SuspendJob, ResumeJob, CompleteJob, RequeueJob, JobMoves, EndJob, ForgetJob,
         OperatorSubmits, OperatorPublishes, OperatorReaps
    <3>2. TablesQuiet
      BY <3>1 DEF TablesQuiet, Billed
    <3> QED BY <3>1, <3>2, QuietKeeps DEF LoopQuiet
  <2>3. ASSUME NEW r \in Replicas, Poll(r) \/ Die(r) PROVE StartInv'
    BY <2>3, LoopsQuiet, QuietKeeps, TransitionKeeps DEF Poll, Die, SyncStep
  <2>4. CASE UNCHANGED vars
    <3>1. UNCHANGED <<rows, usage, services, sync>>
      BY <2>4 DEF vars, storeVars, clusterVars, syncVars
    <3>2. TablesQuiet
      BY <3>1 DEF TablesQuiet, Billed
    <3> QED BY <3>1, <3>2, QuietKeeps DEF LoopQuiet
  <2> QED BY <2>1, <2>2, <2>3, <2>4 DEF Next
<1> QED BY <1>1, <1>2, Inductive, PTL DEF Spec

\* For every number of sessions and replicas, and whichever of its writes fail:
\* no bill, address or ssh service comes before the row says the session runs,
\* and no bill of a native-host session with SSH before its address is stored
\* (main.rs:246-301).
THEOREM ProvisionedAfterStart == Spec => []StartedFirst
<1>1. StartInv => StartedFirst
  BY DEF StartInv, ProvisionInv, StartedFirst
<1> QED BY <1>1, Provisioning, PTL
=============================================================================
