--------------------------- MODULE ContractProofs ---------------------------
(***************************************************************************)
(* That SessionControl implements SessionContract, for every number of     *)
(* sessions and replicas and whatever fails, and what holds besides where  *)
(* one loop runs and nobody deletes.                                       *)
(*                                                                         *)
(* AloneInv, on a native host without requeues: the row a loop is about to *)
(* write is still the one it saw, and a session goes through its states in *)
(* one direction; so it is billed once.                                    *)
(* SoleInv, on either backend: a loop writes the state of a session only   *)
(* if that has not ended, so one that ended stays as it is.                *)
(* QuotaInv, whatever loops, creations and deletes there are: which        *)
(* sessions are beyond the quota of their user, and that there are no more *)
(* of them than creations overlap and calls fail.                          *)
(***************************************************************************)
EXTENDS OutcomeProofs, FiniteSetTheorems

USE DEF Submitted, Over, Live

(***************************************************************************)
(* What a single loop on a native host knows, with no deletes and no       *)
(* requeues.  Writing: the awaits that write the state of the row.         *)
(***************************************************************************)
Writing == {"set", "run", "gone", "end"}

CourseInv(s) ==
    /\ deleter[s] = "idle"
    /\ rows[s].bound => creator[s] = "replied"
    /\ creator[s] \in {"submit", "bind", "fail"} =>
          rows[s].state = "creating" /\ ~ rows[s].bound /\ ~ rows[s].started
    /\ rows[s].started =>
          /\ jobs[s].state \notin {"none", "JobPending"}
          /\ rows[s].state \in {"running", "stopping"} \cup TerminalStates
    /\ rows[s].state = "stopping" => jobs[s].state = "JobCompleting" \/ Over(s)
    /\ usage[s].open + usage[s].closed <= 1

\* The row the loop is about to write is the one it saw.
LoneInv(r) ==
    /\ sync[r].pc # "pod"
    /\ \A s \in Sessions :
          sync[r].seen[s].state # "absent" =>
             /\ sync[r].seen[s].bound /\ rows[s].bound
             /\ (sync[r].cur # s \/ sync[r].pc \in Writing) =>
                   rows[s].state = sync[r].seen[s].state
    /\ sync[r].pc \in Writing => sync[r].seen[sync[r].cur].state # "absent"
    /\ sync[r].pc = "set" =>
          \/ sync[r].next = "pending" /\ ~ rows[sync[r].cur].started
          \/ /\ sync[r].next = "stopping"
             /\ jobs[sync[r].cur].state = "JobCompleting" \/ Over(sync[r].cur)
    /\ sync[r].pc = "run" =>
          /\ ~ rows[sync[r].cur].started
          /\ jobs[sync[r].cur].state \notin {"none", "JobPending"}
    /\ sync[r].pc \in TransitionSteps =>
          usage[sync[r].cur].open + usage[sync[r].cur].closed = 0

AloneInv ==
    /\ \A s \in Sessions : CourseInv(s)
    /\ \A r \in Replicas : LoneInv(r)

\* A creation writes rows that no loop has seen yet (sessions.rs:107-240).
LEMMA RequestAlone ==
    ASSUME Alone, IInv, HandInv, AloneInv, NEW s \in Sessions, RouteStep(s), UNCHANGED syncVars
    PROVE  AloneInv'
<1>1. /\ \A t \in Sessions : CourseInv(t) /\ RowInv(t) /\ JobInv(t)
      /\ MaxDeletes = 0 /\ MaxDeletes \in Nat /\ UNCHANGED sync
  BY RoutesAssumption DEF AloneInv, HandInv, IInv, Alone, Sole, syncVars
<1>2. /\ UNCHANGED usage
      /\ \A t \in Sessions : t # s => rows'[t] = rows[t] /\ jobs'[t] = jobs[t]
                                      /\ creator'[t] = creator[t] /\ deleter'[t] = deleter[t]
      /\ \/ Checking(s) \/ Inserting(s) \/ Submitting(s) \/ Recording(s)
  <2>1. ~ Deleting(s)
    BY <1>1 DEF Deleting, CourseInv
  <2> QED BY <2>1, HandlerMoves
<1>3. /\ CourseInv(s)'
      /\ rows[s].bound => rows'[s] = rows[s]
      /\ rows'[s].started = rows[s].started
      /\ Submitted(s) => jobs'[s].state = jobs[s].state
  <2>1. CASE Checking(s)
    <3>1. /\ rows'[s] = rows[s] /\ jobs'[s].state = jobs[s].state /\ deleter'[s] = deleter[s]
          /\ \/ creator'[s] = "replied"
             \/ /\ creator[s] \in {"idle", "quota", "capacity"}
                /\ creator'[s] \notin {"submit", "bind", "fail", "replied"}
      BY <2>1 DEF Checking, SameJob
    <3> QED BY <1>1, <1>2, <3>1 DEF CourseInv
  <2>2. CASE Inserting(s)
    <3>1. rows[s].state = "absent"
      BY <1>1, <2>2 DEF Inserting, RowInv
    <3>2. ~ rows[s].started /\ ~ rows[s].bound
      BY <1>1, <2>2, <3>1 DEF CourseInv, Inserting, TerminalStates
    <3> QED BY <1>1, <1>2, <2>2, <3>2 DEF Inserting, SameJob, Stored, CourseInv
  <2>3. CASE Submitting(s)
    <3>1. ~ rows[s].started /\ ~ rows[s].bound /\ rows[s].state = "creating"
      BY <1>1, <2>3 DEF Submitting, CourseInv
    <3> QED BY <1>1, <1>2, <2>3, <3>1 DEF Submitting, CourseInv
  <2>4. CASE Recording(s)
    <3>1. ~ rows[s].started /\ ~ rows[s].bound /\ rows[s].state = "creating"
      BY <1>1, <2>4 DEF Recording, CourseInv
    <3>2. /\ rows'[s].started = rows[s].started /\ creator'[s] = "replied" /\ deleter'[s] = deleter[s]
          /\ rows'[s].state # "stopping" /\ jobs'[s].state = jobs[s].state
      BY <2>4, <3>1 DEF Recording, Stored, SameJob
    <3> QED BY <1>1, <1>2, <3>1, <3>2 DEF CourseInv
  <2> QED BY <1>2, <2>1, <2>2, <2>3, <2>4
<1>4. \A t \in Sessions : CourseInv(t)'
  BY <1>1, <1>2, <1>3 DEF CourseInv
<1>5. ASSUME NEW r \in Replicas
      PROVE  LoneInv(r)'
  <2>1. LoneInv(r) /\ (sync[r].pc # "idle" => sync[r].cur \in Sessions)
    BY DEF AloneInv, IInv, LoopInv
  <2>2. \A t \in Sessions : /\ rows[t].bound => rows'[t] = rows[t]
                            /\ rows'[t].started = rows[t].started
                            /\ Submitted(t) => jobs'[t].state = jobs[t].state
    BY <1>2, <1>3
  <2>3. \A t \in Sessions : jobs[t].state = "JobCompleting" \/ Over(t) => Submitted(t)
    BY DEF EndedJobStates
  <2> QED BY <1>1, <1>2, <2>1, <2>2, <2>3 DEF LoneInv, Writing, TransitionSteps
<1> QED BY <1>4, <1>5 DEF AloneInv

\* A job that started does not wait again, and one that winds down only ends.
LEMMA EnvironmentAlone ==
    ASSUME Alone, IInv, HandInv, AloneInv, NEW s \in Sessions, Environment(s)
    PROVE  AloneInv'
<1>1. /\ UNCHANGED <<rows, usage, creator, deleter, sync>> /\ \A t \in Sessions : Forward(t)
      /\ \A t \in Sessions : CourseInv(t)
      /\ MaxRequeues = 0
  BY EnvironmentMoves DEF AloneInv, Alone
<1>2. \A t \in Sessions :
         /\ Over(t) => Over(t)'
         /\ jobs[t].state = "JobCompleting" => jobs'[t].state = "JobCompleting" \/ Over(t)'
         /\ jobs[t].state \notin {"none", "JobPending"} => jobs'[t].state \notin {"none", "JobPending"}
  BY <1>1 DEF Forward
<1>3. \A t \in Sessions : CourseInv(t)'
  BY <1>1, <1>2 DEF CourseInv
<1>4. ASSUME NEW r \in Replicas
      PROVE  LoneInv(r)'
  <2>1. LoneInv(r) /\ (sync[r].pc # "idle" => sync[r].cur \in Sessions)
    BY DEF AloneInv, IInv, LoopInv
  <2> QED BY <1>1, <1>2, <2>1 DEF LoneInv, Writing, TransitionSteps
<1> QED BY <1>3, <1>4 DEF AloneInv

(***************************************************************************)
(* The loop: it is done with a session, or goes on with it.                *)
(***************************************************************************)
\* A loop that is done forgets the session.
LEMMA DoneAlone ==
    ASSUME IInv, HandInv, NEW r \in Replicas, LoneInv(r), NEW s \in Sessions, Done(r, s),
           sync[r].pc = "idle" \/ s = sync[r].cur,
           \A t \in Sessions : t # s => rows'[t] = rows[t]
    PROVE  LoneInv(r)'
<1>1. SyncTypeOK /\ (sync[r].pc = "idle" => sync[r].cur = NoSession)
  BY DEF IInv, TypeOK, HandInv, HeldInv
<1>2. /\ sync'[r].pc = "idle" /\ sync'[r].seen[s].state = "absent"
      /\ \A t \in Sessions : t # s => sync'[r].seen[t] = sync[r].seen[t]
  BY <1>1, IsDone
<1> QED BY <1>1, <1>2, NoSessionAssumption DEF LoneInv, Writing, TransitionSteps

\* A loop that goes on to write the row still has seen it as it is.
LEMMA GoAlone ==
    ASSUME IInv, HandInv, NEW r \in Replicas, LoneInv(r), NEW s \in Sessions,
           NEW pc, NEW next, Go(r, s, pc, next), pc # "pod",
           sync[r].pc = "idle" \/ s = sync[r].cur,
           \A t \in Sessions : t # s => rows'[t] = rows[t],
           rows'[s].bound = rows[s].bound,
           pc \in Writing => /\ rows'[s].state = rows[s].state
                             /\ sync[r].pc \in Writing \cup {"idle"}
                             /\ sync[r].seen[s].state # "absent",
           pc = "set" => \/ next = "pending" /\ ~ rows'[s].started
                         \/ next = "stopping" /\ (jobs'[s].state = "JobCompleting" \/ Over(s)'),
           pc = "run" => ~ rows'[s].started /\ jobs'[s].state \notin {"none", "JobPending"},
           pc \in TransitionSteps => usage'[s].open + usage'[s].closed = 0
    PROVE  LoneInv(r)'
<1>1. SyncTypeOK /\ (sync[r].pc = "idle" => sync[r].cur = NoSession)
  BY DEF IInv, TypeOK, HandInv, HeldInv
<1>2. /\ sync'[r].pc = pc /\ sync'[r].cur = s /\ sync'[r].next = next
      /\ sync'[r].seen = sync[r].seen
  BY <1>1, GoesOn
<1>3. pc \in Writing => rows[s].state = sync[r].seen[s].state
  BY <1>1, NoSessionAssumption DEF LoneInv, Writing
<1>4. \A t \in Sessions : t # s => sync[r].cur # t
  BY <1>1, NoSessionAssumption
<1> QED BY <1>1, <1>2, <1>3, <1>4 DEF LoneInv

\* The decision of the loop on an answer of the scheduler: the session is started
\* once, and told to stop when its job winds down (main.rs:358-416).
LEMMA AskAlone ==
    ASSUME Alone, IInv, HandInv, StartInv, AloneInv, NEW r \in Replicas, GetJob(r)
    PROVE  LoneInv(r)'
<1>1. /\ UNCHANGED <<rows, usage, jobs>> /\ LoneInv(r) /\ LoopInv(r) /\ sync[r].pc = "idle"
      /\ SyncTypeOK /\ sync[r].cur = NoSession /\ Backend = "native_host"
  BY DEF AloneInv, IInv, TypeOK, HandInv, HeldInv, Alone, GetJob, At, clusterVars
<1>2. PICK t \in Todo(r) :
         /\ sync[r].seen[t].bound
         /\ \/ Done(r, t)
            \/ Go(r, t, "gone", "failed")
            \/ /\ jobs[t].state # "JobSuspended"
               /\ Enact(r, t, session_state(jobs[t].state, jobs[t].exit))
  BY <1>1 DEF GetJob
<1> DEFINE next == session_state(jobs[t].state, jobs[t].exit)
<1>3. /\ t \in Sessions /\ sync[r].seen[t].state # "absent"
      /\ sync[r].seen[t].state \notin TerminalStates
      /\ CourseInv(t) /\ ProvisionInv(t) /\ Submitted(t)
      /\ jobs[t] \in Job /\ usage[t] \in Records
  BY <1>1, <1>2
     DEF Todo, LoopInv, AloneInv, StartInv, IInv, TypeOK, StoreTypeOK, ClusterTypeOK
<1>4. rows[t].state = sync[r].seen[t].state
  BY <1>1, <1>3, NoSessionAssumption DEF LoneInv
<1>5. CASE Done(r, t)
  BY <1>1, <1>3, <1>5, DoneAlone
<1>6. CASE Go(r, t, "gone", "failed")
  BY <1>1, <1>3, <1>6, GoAlone DEF Writing, TransitionSteps
<1>7. CASE jobs[t].state # "JobSuspended" /\ Enact(r, t, next)
  <2>1. jobs[t].state \in JobStates
    BY <1>3 DEF Job
  <2>2. /\ next = "pending" => jobs[t].state = "JobPending"
        /\ next = "running" => jobs[t].state = "JobRunning"
        /\ next = "stopping" => jobs[t].state = "JobCompleting"
        /\ next \in {"pending", "running", "stopping"} \cup TerminalStates
    <3>1. CASE jobs[t].state \in EndedJobStates
      BY <3>1 DEF session_state, ended_state, TerminalStates
    <3>2. CASE jobs[t].state \in {"JobPending", "JobRunning", "JobCompleting"}
      BY <3>2 DEF session_state, live_state, EndedJobStates
    <3> QED BY <1>7, <2>1, <3>1, <3>2 DEF JobStates, LiveJobStates
  <2> HIDE DEF next
  <2>3. CASE next = sync[r].seen[t].state
    BY <1>1, <1>3, <1>7, <2>3, DoneAlone DEF Enact
  <2>4. CASE next # sync[r].seen[t].state /\ next = "running"
    <3>1. Go(r, t, "run", next)
      BY <1>7, <2>4 DEF Enact, step_for
    <3>2. ~ rows[t].started
      BY <1>3, <1>4, <2>2, <2>4 DEF CourseInv, EndedJobStates
    <3>3. jobs[t].state \notin {"none", "JobPending"}
      BY <2>2, <2>4
    <3> QED BY <1>1, <1>3, <3>1, <3>2, <3>3, GoAlone DEF TransitionSteps
  <2>5. CASE next # sync[r].seen[t].state /\ next \in TerminalStates
    <3>1. Go(r, t, "end", next)
      BY <1>7, <2>5 DEF Enact, step_for, is_terminal, TerminalStates
    <3> QED BY <1>1, <1>3, <3>1, GoAlone DEF TransitionSteps
  <2>6. CASE next # sync[r].seen[t].state /\ next \in {"pending", "stopping"}
    <3>1. Go(r, t, "set", next)
      BY <1>7, <2>6 DEF Enact, step_for, is_terminal, TerminalStates
    <3>2. next = "pending" => ~ rows[t].started
      BY <1>3, <2>2 DEF CourseInv
    <3> QED BY <1>1, <1>3, <2>2, <2>6, <3>1, <3>2, GoAlone DEF TransitionSteps
  <2> QED BY <2>2, <2>3, <2>4, <2>5, <2>6
<1> QED BY <1>2, <1>5, <1>6, <1>7

\* The listing is what the tables hold (main.rs:309-337).
LEMMA ListAlone ==
    ASSUME Alone, IInv, HandInv, AloneInv, NEW r \in Replicas, SyncList(r) \/ Crash(r)
    PROVE  LoneInv(r)'
<1>1. UNCHANGED <<rows, usage, jobs>> /\ SyncTypeOK /\ sync \in [Replicas -> Loop]
  BY DEF IInv, TypeOK, SyncTypeOK, SyncList, Crash, storeVars, clusterVars
<1>2. CASE SyncList(r)
  <2> DEFINE snap == [t \in Sessions |->
                        IF t \in polled
                          THEN [state |-> rows[t].state, bound |-> rows[t].bound]
                          ELSE NotSeen]
  <2>1. sync' = [sync EXCEPT ![r].seen = snap] /\ sync[r].pc = "idle"
    BY <1>2 DEF SyncList, At
  <2>2. \A t \in Sessions : snap[t].state # "absent" =>
           snap[t].bound = rows[t].bound /\ rows[t].bound /\ snap[t].state = rows[t].state
    BY DEF polled, Alone, NotSeen
  <2> HIDE DEF snap
  <2>3. sync'[r].seen = snap /\ sync'[r].pc = "idle"
    BY <1>1, <2>1 DEF Loop
  <2> QED BY <1>1, <2>2, <2>3 DEF LoneInv, Writing, TransitionSteps
<1>3. CASE Crash(r)
  <2>1. sync'[r] = Resting
    BY <1>1, <1>3 DEF Crash
  <2> QED BY <2>1 DEF LoneInv, Resting, NotSeen, Writing, TransitionSteps
<1> QED BY <1>2, <1>3

\* A single loop writes the row it saw, starts a session once and opens one record
\* of it (main.rs:238-469).
LEMMA PollAlone ==
    ASSUME Alone, IInv, HandInv, StartInv, AloneInv, NEW r \in Replicas,
           SyncStep(r) \/ Crash(r), UNCHANGED routeVars
    PROVE  AloneInv'
<1> DEFINE s == sync[r].cur
<1>1. /\ LoneInv(r) /\ LoopInv(r) /\ (sync[r].pc # "idle" => s \in Sessions)
      /\ \A t \in Sessions : CourseInv(t) /\ ProvisionInv(t) /\ usage[t] \in Records
      /\ usage \in [Sessions -> Records]
      /\ Backend = "native_host" /\ sync[r].pc \notin CrdSteps
      /\ UNCHANGED <<jobs, creator, deleter>>
  BY LoopEffects DEF AloneInv, StartInv, IInv, LoopInv, TypeOK, StoreTypeOK, Alone, routeVars
<1>2. /\ \A t \in Sessions : t # s => rows'[t] = rows[t]
      /\ UNCHANGED usage \/ OpeningBill(r) \/ ClosingBill(r)
  BY LoopEffects
     DEF Effects, Setting, Ending, Binding, Starting, Addressing, OpeningBill, ClosingBill,
         Exposing, Withdrawing, OnlyRow
<1>3. sync[r].pc \in Writing =>
         /\ rows[s].bound /\ creator[s] = "replied"
         /\ sync[r].seen[s].state # "absent"
  BY <1>1 DEF LoneInv, CourseInv, Writing
<1>4. \A t \in Sessions : CourseInv(t)'
  <2>1. CASE Setting(r) \/ Ending(r) \/ Binding(r)
    <3>1. /\ s \in Sessions /\ sync[r].pc \in Writing /\ UNCHANGED usage
          /\ rows'[s].bound = rows[s].bound /\ rows'[s].started = rows[s].started
          /\ \/ rows'[s].state \in TerminalStates
             \/ sync[r].pc = "set" /\ rows'[s].state = sync[r].next
      BY <1>1, <2>1 DEF Setting, Ending, Binding, Stored, OnlyRow, CrdSteps, Writing
    <3>2. \A t \in Sessions : t = s => CourseInv(t)'
      <4>1. CASE rows'[s].state \in TerminalStates
        BY <1>1, <1>3, <3>1, <4>1 DEF CourseInv, TerminalStates
      <4>2. CASE sync[r].pc = "set" /\ rows'[s].state = sync[r].next
        BY <1>1, <1>3, <3>1, <4>2 DEF CourseInv, LoneInv
      <4> QED BY <3>1, <4>1, <4>2
    <3> HIDE DEF s
    <3> QED BY <1>1, <1>2, <3>1, <3>2 DEF CourseInv
  <2>2. CASE Starting(r)
    <3>1. \A t \in Sessions : t = s => CourseInv(t)'
      BY <1>1, <1>3, <2>2 DEF Starting, OnlyRow, CourseInv, LoneInv, Writing
    <3>2. UNCHANGED usage
      BY <2>2 DEF Starting, OnlyRow
    <3> HIDE DEF s
    <3> QED BY <1>1, <1>2, <3>1, <3>2 DEF CourseInv
  <2>3. CASE Addressing(r)
    <3>1. /\ UNCHANGED usage /\ rows'[s].state = rows[s].state
          /\ rows'[s].bound = rows[s].bound /\ rows'[s].started = rows[s].started
      BY <2>3 DEF Addressing, OnlyRow
    <3> HIDE DEF s
    <3>2. \A t \in Sessions : /\ rows'[t].state = rows[t].state /\ rows'[t].bound = rows[t].bound
                              /\ rows'[t].started = rows[t].started
      BY <1>2, <3>1
    <3> QED BY <1>1, <3>1, <3>2 DEF CourseInv
  <2>4. CASE OpeningBill(r) \/ ClosingBill(r)
    <3>1. /\ UNCHANGED rows /\ s \in Sessions
          /\ \/ /\ usage' = [usage EXCEPT ![s].open = @ + 1]
                /\ usage[s].open + usage[s].closed = 0
             \/ usage' = [usage EXCEPT ![s] = [open |-> 0, closed |-> @.closed + @.open]]
      BY <1>1, <2>4 DEF OpeningBill, ClosingBill, LoneInv, TransitionSteps
    <3> HIDE DEF s
    <3>2. \A t \in Sessions : t # s => usage'[t] = usage[t]
      BY <1>1, <3>1
    <3>3. usage[s].open \in Nat /\ usage[s].closed \in Nat /\ usage[s].open + usage[s].closed <= 1
      BY <1>1, <3>1 DEF Records, CourseInv
    <3>4. usage'[s].open + usage'[s].closed <= 1
      <4>1. CASE /\ usage' = [usage EXCEPT ![s].open = @ + 1]
                 /\ usage[s].open + usage[s].closed = 0
        <5>1. usage'[s].open = usage[s].open + 1 /\ usage'[s].closed = usage[s].closed
          BY <1>1, <3>1, <4>1 DEF Records
        <5> QED BY <3>3, <4>1, <5>1
      <4>2. CASE usage' = [usage EXCEPT ![s] = [open |-> 0, closed |-> @.closed + @.open]]
        <5>1. usage'[s].open = 0 /\ usage'[s].closed = usage[s].closed + usage[s].open
          BY <1>1, <3>1, <4>2
        <5> QED BY <3>3, <5>1
      <4> QED BY <3>1, <4>1, <4>2
    <3>5. \A t \in Sessions : usage'[t].open + usage'[t].closed <= 1
      BY <1>1, <3>2, <3>4 DEF CourseInv
    <3> QED BY <1>1, <3>1, <3>5 DEF CourseInv
  <2>5. CASE UNCHANGED <<rows, usage>>
    BY <1>1, <2>5 DEF CourseInv
  <2> QED BY <2>1, <2>2, <2>3, <2>4, <2>5, LoopEffects DEF Effects, Exposing, Withdrawing
<1>5. LoneInv(r)'
  <2>1. ASSUME Done(r, s), s \in Sessions PROVE LoneInv(r)'
    BY <1>1, <1>2, <2>1, DoneAlone
  <2>2. CASE SyncList(r) \/ Crash(r)
    BY <2>2, ListAlone
  <2>3. CASE GetJob(r)
    BY <2>3, AskAlone
  <2>4. CASE PodCheck(r) \/ CrdStep(r)
    BY <1>1, <2>4
       DEF PodCheck, CrdStep, GetCrd, CrdBind, CrdPodCheck, CrdEnded, At, Todo, CrdSteps, LoneInv
  <2>5. CASE SetState(r) \/ SetFailed(r) \/ BillStart(r) \/ DeleteService(r)
    BY <1>1, <2>1, <2>5 DEF SetState, SetFailed, BillStart, DeleteService, At
  <2>6. CASE SetRunning(r)
    <3>1. /\ s \in Sessions /\ sync[r].pc = "run" /\ UNCHANGED usage
          /\ \/ Done(r, s)
             \/ /\ Go(r, s, after_running(s), "running")
                /\ rows' = update_session_running(s)
      BY <1>1, <2>6 DEF SetRunning, At
    <3>2. usage[s].open + usage[s].closed = 0
      <4>1. ~ Billed(s)
        BY <1>1, <3>1 DEF ProvisionInv, LoneInv
      <4> QED BY <1>1, <3>1, <4>1 DEF Billed, Records
    <3>3. rows' = update_session_running(s) => rows'[s].bound = rows[s].bound
      BY <3>1 DEF IInv, TypeOK, StoreTypeOK, update_session_running, Row
    <3>4. after_running(s) \in TransitionSteps
      BY DEF after_running, TransitionSteps
    <3> HIDE DEF s
    <3>5. CASE Done(r, s)
      BY <2>1, <3>1, <3>5
    <3>6. CASE Go(r, s, after_running(s), "running") /\ rows' = update_session_running(s)
      BY <1>1, <1>2, <3>1, <3>2, <3>3, <3>4, <3>6, GoAlone DEF TransitionSteps, Writing, s
    <3> QED BY <3>1, <3>5, <3>6
  <2>7. CASE CreateService(r) \/ SetSsh(r)
    <3>1. /\ s \in Sessions /\ sync[r].pc \in TransitionSteps /\ UNCHANGED usage
          /\ rows' = rows \/ rows' = update_session_ssh(s)
          /\ Done(r, s) \/ \E pc \in {"ssh", "bill"} : Go(r, s, pc, "running")
      BY <1>1, <2>7 DEF CreateService, SetSsh, At, TransitionSteps
    <3>2. usage[s].open + usage[s].closed = 0
      BY <1>1, <3>1 DEF LoneInv
    <3>3. rows'[s].bound = rows[s].bound
      BY <3>1 DEF IInv, TypeOK, StoreTypeOK, update_session_ssh, Row
    <3>4. CASE Done(r, s)
      BY <2>1, <3>1, <3>4
    <3>5. ASSUME NEW pc \in {"ssh", "bill"}, Go(r, s, pc, "running") PROVE LoneInv(r)'
      BY <1>1, <1>2, <3>1, <3>2, <3>3, <3>5, GoAlone DEF Writing
    <3> QED BY <3>1, <3>4, <3>5
  <2>8. CASE SetEnded(r) \/ BillEnd(r)
    <3>1. /\ s \in Sessions
          /\ Done(r, s) \/ \E pc \in {"unbill", "unsvc"} : Go(r, s, pc, sync[r].next)
          /\ rows' = rows \/ rows' = update_session_ended(s, sync[r].next)
      BY <1>1, <2>8 DEF SetEnded, BillEnd, At, Try
    <3>2. rows'[s].bound = rows[s].bound
      BY <3>1 DEF IInv, TypeOK, StoreTypeOK, update_session_ended, Row
    <3>3. CASE Done(r, s)
      BY <2>1, <3>1, <3>3
    <3>4. ASSUME NEW pc \in {"unbill", "unsvc"}, Go(r, s, pc, sync[r].next) PROVE LoneInv(r)'
      BY <1>1, <1>2, <3>1, <3>2, <3>4, GoAlone DEF Writing, TransitionSteps
    <3> QED BY <3>1, <3>3, <3>4
  <2> QED BY <2>2, <2>3, <2>4, <2>5, <2>6, <2>7, <2>8 DEF SyncStep
<1>6. \A q \in Replicas : q = r
  BY DEF Alone, Sole
<1> QED BY <1>4, <1>5, <1>6 DEF AloneInv

\* AloneInv is inductive.
LEMMA Lone == Spec => [](Alone => AloneInv)
<1>1. Init => (Alone => AloneInv)
  BY DEF Init, StoreInit, ClusterInit, RoutesInit, SyncInit, Resting, NotSeen, AloneInv,
         CourseInv, LoneInv, Writing, TransitionSteps
<1>2. IInv /\ HandInv /\ StartInv /\ (Alone => AloneInv) /\ [Next]_vars => (Alone => AloneInv)'
  <2>1. ASSUME AloneInv, UNCHANGED vars PROVE AloneInv'
    BY <2>1 DEF AloneInv, CourseInv, LoneInv, vars, storeVars, clusterVars, routeVars, syncVars
  <2> QED BY <2>1, RequestAlone, EnvironmentAlone, PollAlone DEF Next, Request, Poll, Die, Alone, Sole
<1> QED BY <1>1, <1>2, Inductive, Holding, Provisioning, PTL DEF Spec

(***************************************************************************)
(* One loop, and nobody deletes, on either backend and however often jobs  *)
(* are requeued: a session that ended is not written again.  The handler   *)
(* is through with a session before the loop takes it up, and the loop     *)
(* writes only sessions it saw active and nobody ended since.              *)
(***************************************************************************)
\* The awaits that lead to a write of the state.
Deciding == {"pod", "set", "run", "gone", "end"} \cup CrdSteps

\* The loop has nothing to go on before the creation was answered.
UnansweredInv(s) ==
    /\ deleter[s] = "idle"
    /\ ~ crd[s].exists => crd[s].word = "none"
    /\ creator[s] # "replied" =>
          ~ rows[s].bound /\ ~ crd[s].exists /\ rows[s].state \in {"absent", "creating"}

\* Of a session that ended after it was listed the loop is told nothing.
TakenUpInv(r) ==
    /\ sync[r].pc # "idle" => creator[sync[r].cur] = "replied"
    /\ sync[r].pc \in Deciding => rows[sync[r].cur].state \notin TerminalStates
    /\ \A s \in Sessions : sync[r].seen[s].state # "absent" =>
          /\ sync[r].seen[s].bound => creator[s] = "replied"
          /\ sync[r].cur # s /\ rows[s].state \in TerminalStates =>
                creator[s] = "replied" /\ ~ sync[r].seen[s].bound /\ ~ crd[s].exists

SoleInv ==
    /\ \A s \in Sessions : UnansweredInv(s)
    /\ \A r \in Replicas : TakenUpInv(r)

\* A resource that does not exist says nothing (spur_client.rs:91-208).
LEMMA AbsentSaysNothing ==
    ASSUME IInv, NEW s \in Sessions, RouteStep(s) \/ Environment(s),
           \A t \in Sessions : ~ crd[t].exists => crd[t].word = "none"
    PROVE  \A t \in Sessions : ~ crd'[t].exists => crd'[t].word = "none"
<1>1. crd \in [Sessions -> Crd]
  BY DEF IInv, TypeOK, ClusterTypeOK
<1>2. \/ crd' = crd
      \/ crd' = [crd EXCEPT ![s] = [NoCrd EXCEPT !.exists = TRUE]]
      \/ crd' = [crd EXCEPT ![s] = NoCrd]
      \/ \E word, id, node :
            crd' = [crd EXCEPT ![s] = [exists |-> TRUE, word |-> word, id |-> id, node |-> node]]
  <2>1. CASE RouteStep(s)
    BY <2>1
       DEF RouteStep, CreateStep, DeleteStep, PostSession, CheckQuota, CheckCapacity, InsertRow,
           CreateCrd, SubmitJob, BindJob, MarkFailed, AbandonCreate, DeleteRequest, CancelWork,
           cancel_work, create_crd, delete_crd, MarkStopping, AbandonDelete, clusterVars
  <2>2. CASE Environment(s)
    BY <2>2
       DEF Environment, SpurStep, OperatorStep, PodProgress, StartJob, SuspendJob, ResumeJob,
           CompleteJob, RequeueJob, JobMoves, EndJob, ForgetJob, OperatorSubmits,
           OperatorPublishes, OperatorReaps
  <2> QED BY <2>1, <2>2
<1>3. \A t \in Sessions : t # s => crd'[t] = crd[t]
  BY <1>1, <1>2
<1>4. crd'[s] = crd[s] \/ crd'[s].exists \/ crd'[s].word = "none"
  BY <1>1, <1>2 DEF NoCrd
<1> QED BY <1>3, <1>4

\* A creation that goes on after submitting on K8s, without an answer to give, has
\* created nothing, where failures are reported truthfully (sessions.rs:160-200).
LEMMA FailsTruthfully ==
    ASSUME Truthful, IInv, NEW s \in Sessions, RouteStep(s), creator[s] = "submit",
           creator'[s] \in {"bind", "fail"}
    PROVE  crd'[s].exists = crd[s].exists
<1>1. creator \in [Sessions -> CreatorSteps]
  BY DEF IInv, TypeOK, RoutesTypeOK
<1>2. CASE CreateCrd(s)
  BY <1>1, <1>2 DEF CreateCrd, CreateAt, Truthful
<1>3. CASE SubmitJob(s)
  BY <1>3 DEF SubmitJob
<1>4. CASE DeleteRequest(s) \/ DeleteStep(s)
  BY <1>4 DEF DeleteRequest, DeleteStep, CancelWork, MarkStopping, AbandonDelete, DeleteAt
<1>5. CASE PostSession(s) \/ CheckQuota(s) \/ CheckCapacity(s) \/ InsertRow(s) \/ BindJob(s)
           \/ MarkFailed(s) \/ AbandonCreate(s)
  BY <1>1, <1>5
     DEF PostSession, CheckQuota, CheckCapacity, InsertRow, BindJob, MarkFailed, AbandonCreate,
         CreateAt
<1> QED BY <1>2, <1>3, <1>4, <1>5 DEF RouteStep, CreateStep

\* A creation is through with its session before a loop has anything to go on
\* (sessions.rs:107-240).
LEMMA RequestSole ==
    ASSUME Sole, Truthful, IInv, HandInv, SoleInv, NEW s \in Sessions, RouteStep(s),
           UNCHANGED syncVars
    PROVE  SoleInv'
<1>1. /\ \A t \in Sessions : UnansweredInv(t)
      /\ UNCHANGED sync /\ ~ Deleting(s)
  BY DEF SoleInv, Sole, syncVars, Deleting, UnansweredInv
<1>2. /\ \A t \in Sessions : t # s =>
            /\ rows'[t] = rows[t] /\ crd'[t] = crd[t]
            /\ creator'[t] = creator[t] /\ deleter'[t] = deleter[t]
      /\ Checking(s) \/ Inserting(s) \/ Submitting(s) \/ Recording(s)
  BY <1>1, HandlerMoves
<1>3. deleter'[s] = "idle"
  BY <1>1, <1>2 DEF Checking, Inserting, Submitting, Recording, UnansweredInv
<1>4. creator'[s] # "replied" =>
         ~ rows'[s].bound /\ ~ crd'[s].exists /\ rows'[s].state \in {"absent", "creating"}
  <2> SUFFICES ASSUME creator'[s] # "replied"
               PROVE ~ rows'[s].bound /\ ~ crd'[s].exists
                     /\ rows'[s].state \in {"absent", "creating"}
    OBVIOUS
  <2>1. creator[s] # "replied"
    BY <1>2 DEF Checking, Inserting, Submitting, Recording
  <2>2. ~ rows[s].bound /\ ~ crd[s].exists /\ rows[s].state \in {"absent", "creating"}
    BY <1>1, <2>1 DEF UnansweredInv
  <2>3. CASE Submitting(s)
    BY <2>2, <2>3, FailsTruthfully DEF Submitting
  <2>4. CASE Checking(s) \/ Inserting(s)
    BY <2>2, <2>4 DEF Checking, Inserting, SameJob, Stored
  <2> QED BY <1>2, <2>3, <2>4 DEF Recording
<1>5. \A t \in Sessions : ~ crd'[t].exists => crd'[t].word = "none"
  BY <1>1, AbsentSaysNothing DEF UnansweredInv
<1>6. \A t \in Sessions : UnansweredInv(t)'
  BY <1>1, <1>2, <1>3, <1>4, <1>5 DEF UnansweredInv
<1>7. creator[s] = "replied" =>
         creator'[s] = "replied" /\ rows'[s] = rows[s] /\ (crd'[s].exists => crd[s].exists)
  BY <1>2 DEF Checking, Inserting, Submitting, Recording, SameJob
<1>8. creator[s] # "replied" /\ rows'[s].state \in TerminalStates =>
         creator'[s] = "replied" /\ ~ crd'[s].exists
  <2> SUFFICES ASSUME creator[s] # "replied", rows'[s].state \in TerminalStates
               PROVE  creator'[s] = "replied" /\ ~ crd'[s].exists
    OBVIOUS
  <2>1. ~ crd[s].exists /\ rows[s].state \notin TerminalStates
    BY <1>1 DEF UnansweredInv, TerminalStates
  <2>2. Recording(s)
    BY <1>2, <2>1 DEF Checking, Inserting, Submitting, Stored, TerminalStates
  <2> QED BY <2>1, <2>2 DEF Recording, SameJob
<1>9. ASSUME NEW r \in Replicas PROVE TakenUpInv(r)'
  <2>1. TakenUpInv(r) /\ (sync[r].pc # "idle" => sync[r].cur \in Sessions)
    BY DEF SoleInv, IInv, LoopInv
  <2>2. sync[r].pc # "idle" => /\ creator'[sync[r].cur] = "replied"
                               /\ rows'[sync[r].cur] = rows[sync[r].cur]
    BY <1>2, <1>7, <2>1 DEF TakenUpInv
  <2>3. sync[r].pc \in Deciding => sync[r].pc # "idle"
    BY DEF Deciding, CrdSteps
  <2>4. ASSUME NEW t \in Sessions, sync[r].seen[t].state # "absent"
        PROVE  /\ sync[r].seen[t].bound => creator'[t] = "replied"
               /\ sync[r].cur # t /\ rows'[t].state \in TerminalStates =>
                     creator'[t] = "replied" /\ ~ sync[r].seen[t].bound /\ ~ crd'[t].exists
    BY <1>2, <1>7, <1>8, <2>1, <2>4 DEF TakenUpInv
  <2> QED BY <1>1, <2>1, <2>2, <2>3, <2>4 DEF TakenUpInv
<1> QED BY <1>6, <1>9 DEF SoleInv

\* The cluster creates and deletes no resource.
LEMMA EnvironmentSole ==
    ASSUME IInv, SoleInv, NEW s \in Sessions, Environment(s)
    PROVE  SoleInv'
<1>1. /\ UNCHANGED <<rows, creator, deleter, sync>>
      /\ \A t \in Sessions : UnansweredInv(t) /\ crd'[t].exists = crd[t].exists
      /\ \A r \in Replicas : TakenUpInv(r)
  BY EnvironmentMoves DEF SoleInv, Forward
<1>2. \A t \in Sessions : ~ crd'[t].exists => crd'[t].word = "none"
  BY <1>1, AbsentSaysNothing DEF UnansweredInv
<1>3. \A t \in Sessions : UnansweredInv(t)'
  BY <1>1, <1>2 DEF UnansweredInv
<1>4. \A r \in Replicas : TakenUpInv(r)'
  BY <1>1 DEF TakenUpInv
<1> QED BY <1>3, <1>4 DEF SoleInv

\* A loop that is done with a session forgets it; one that goes on has a session that
\* was answered, and that did not end if it is to be written.
LEMMA MovesSole ==
    ASSUME IInv, HandInv, NEW r \in Replicas, TakenUpInv(r), NEW s \in Sessions,
           sync[r].pc = "idle" \/ s = sync[r].cur,
           \A t \in Sessions : t # s => rows'[t] = rows[t],
           UNCHANGED <<creator, crd>>
    PROVE  /\ Done(r, s) => TakenUpInv(r)'
           /\ \A pc, next :
                 /\ Go(r, s, pc, next)
                 /\ creator[s] = "replied"
                 /\ pc \in Deciding => rows'[s].state \notin TerminalStates
                 => TakenUpInv(r)'
<1>1. SyncTypeOK /\ (sync[r].pc = "idle" => sync[r].cur = NoSession)
  BY DEF IInv, TypeOK, HandInv, HeldInv
<1>2. \A t \in Sessions : t # s => sync[r].cur # t
  BY <1>1, NoSessionAssumption
<1>3. ASSUME Done(r, s) PROVE TakenUpInv(r)'
  <2>1. /\ sync'[r].pc = "idle" /\ sync'[r].seen[s].state = "absent"
        /\ \A t \in Sessions : t # s => sync'[r].seen[t] = sync[r].seen[t]
    BY <1>1, <1>3, IsDone
  <2> QED BY <1>2, <2>1 DEF TakenUpInv, Deciding, CrdSteps
<1>4. ASSUME NEW pc, NEW next, Go(r, s, pc, next), creator[s] = "replied",
             pc \in Deciding => rows'[s].state \notin TerminalStates
      PROVE  TakenUpInv(r)'
  <2>1. /\ sync'[r].pc = pc /\ sync'[r].cur = s /\ sync'[r].seen = sync[r].seen
    BY <1>1, <1>4, GoesOn
  <2> QED BY <1>2, <1>4, <2>1 DEF TakenUpInv
<1> QED BY <1>3, <1>4

\* The loop takes up what it listed, and writes no session that ended (main.rs:124-469).
LEMMA PollSole ==
    ASSUME Sole, IInv, HandInv, SoleInv, NEW r \in Replicas, SyncStep(r) \/ Crash(r),
           UNCHANGED routeVars
    PROVE  SoleInv'
<1> DEFINE s == sync[r].cur
<1>1. /\ UNCHANGED <<crd, creator, deleter>> /\ TakenUpInv(r) /\ LoopInv(r) /\ HeldInv(r)
      /\ (sync[r].pc # "idle" => s \in Sessions) /\ SyncTypeOK
      /\ \A t \in Sessions : UnansweredInv(t)
      /\ rows \in [Sessions -> Row]
  BY LoopEffects DEF SoleInv, IInv, HandInv, LoopInv, TypeOK, StoreTypeOK, routeVars
<1>2. /\ \A t \in Sessions : t # s => rows'[t] = rows[t]
      /\ sync[r].pc = "idle" => rows' = rows
  BY LoopEffects
     DEF Effects, Setting, Ending, Binding, Starting, Addressing, OpeningBill, ClosingBill,
         Exposing, Withdrawing, OnlyRow
<1>3. \A t \in Sessions : UnansweredInv(t)'
  <2>1. \A t \in Sessions : rows'[t] = rows[t] \/ creator[t] = "replied"
    BY <1>1, <1>2 DEF TakenUpInv
  <2> QED BY <1>1, <2>1 DEF UnansweredInv
<1>4. ASSUME NEW t \in Sessions, Done(r, t), sync[r].pc = "idle" \/ t = s PROVE TakenUpInv(r)'
  BY <1>1, <1>2, <1>4, MovesSole
<1>5. ASSUME NEW t \in Sessions, NEW pc, NEW next, Go(r, t, pc, next),
             sync[r].pc = "idle" \/ t = s, creator[t] = "replied",
             pc \in Deciding => rows'[t].state \notin TerminalStates
      PROVE  TakenUpInv(r)'
  BY <1>1, <1>2, <1>5, MovesSole
<1>6. ASSUME NEW t \in Sessions, NEW next, Enact(r, t, next), sync[r].pc = "idle" \/ t = s,
             creator[t] = "replied", rows'[t].state \notin TerminalStates
      PROVE  TakenUpInv(r)'
  BY <1>4, <1>5, <1>6 DEF Enact
<1>7. ASSUME NEW t \in Sessions, NEW next, FollowCrd(r, t, next), sync[r].pc = "idle" \/ t = s,
             creator[t] = "replied", rows'[t].state \notin TerminalStates
      PROVE  TakenUpInv(r)'
  BY <1>4, <1>5, <1>7 DEF FollowCrd
<1>8. sync[r].pc # "idle" => s \in Sessions /\ creator[s] = "replied"
  BY <1>1 DEF TakenUpInv
<1>9. TakenUpInv(r)'
  <2>1. CASE SyncList(r)
    <3> DEFINE snap == [t \in Sessions |->
                          IF t \in polled
                            THEN [state |-> rows[t].state, bound |-> rows[t].bound]
                            ELSE NotSeen]
    <3>1. sync' = [sync EXCEPT ![r].seen = snap] /\ sync[r].pc = "idle" /\ UNCHANGED rows
      BY <2>1 DEF SyncList, At, storeVars
    <3>2. \A t \in Sessions : snap[t].state # "absent" =>
             snap[t].bound = rows[t].bound /\ rows[t].state \notin TerminalStates
      BY DEF polled, list_active_sessions, NotSeen, ActiveStates, TerminalStates
    <3> HIDE DEF snap
    <3>3. sync'[r].seen = snap /\ sync'[r].pc = "idle"
      BY <1>1, <3>1 DEF SyncTypeOK, Loop
    <3> QED BY <1>1, <3>1, <3>2, <3>3 DEF TakenUpInv, UnansweredInv, Deciding, CrdSteps
  <2>2. CASE Crash(r)
    <3>1. sync'[r] = Resting
      BY <1>1, <2>2 DEF Crash, SyncTypeOK
    <3> QED BY <3>1 DEF TakenUpInv, Resting, NotSeen, Deciding, CrdSteps
  <2>3. CASE GetJob(r) \/ GetCrd(r)
    <3>1. PICK t \in Todo(r) :
             \/ Done(r, t)
             \/ /\ sync[r].seen[t].bound \/ crd[t].word # "none"
                /\ \/ \E pc, next : Go(r, t, pc, next)
                   \/ \E next : Enact(r, t, next)
                   \/ \E next : FollowCrd(r, t, next)
      BY <2>3 DEF GetJob, GetCrd
    <3>2. t \in Sessions /\ sync[r].seen[t].state # "absent"
      BY <3>1 DEF Todo
    <3>3. sync[r].pc = "idle" /\ s = NoSession /\ UNCHANGED rows
      BY <1>1, <2>3 DEF GetJob, GetCrd, At, HeldInv
    <3>4. sync[r].seen[t].bound \/ crd[t].word # "none" =>
             creator[t] = "replied" /\ rows[t].state \notin TerminalStates
      BY <1>1, <3>2, <3>3, NoSessionAssumption DEF TakenUpInv, UnansweredInv
    <3> HIDE DEF s
    <3> QED BY <1>4, <1>5, <1>6, <1>7, <3>1, <3>2, <3>3, <3>4
  <2>4. CASE PodCheck(r) \/ CrdPodCheck(r)
    <3>1. /\ sync[r].pc # "idle" /\ sync[r].pc \in Deciding /\ UNCHANGED rows
          /\ \/ Done(r, s)
             \/ \E pc, next : Go(r, s, pc, next)
             \/ \E next : Enact(r, s, next)
      BY <2>4 DEF PodCheck, CrdPodCheck, At, Deciding, CrdSteps
    <3>2. s \in Sessions /\ rows'[s].state \notin TerminalStates
      BY <1>1, <3>1 DEF TakenUpInv
    <3> HIDE DEF s
    <3> QED BY <1>4, <1>5, <1>6, <1>8, <3>1, <3>2
  <2>5. CASE CrdBind(r)
    <3>1. /\ sync[r].pc # "idle" /\ sync[r].pc \in Deciding
          /\ FollowCrd(r, s, sync[r].next)
          /\ rows' = rows \/ rows' = update_session_spur_job(s)
      BY <2>5 DEF CrdBind, At, Try, Deciding, CrdSteps
    <3>2. rows[s].state \notin TerminalStates /\ s \in Sessions
      BY <1>1, <3>1 DEF TakenUpInv
    <3>3. rows'[s].state \notin TerminalStates
      BY <1>1, <3>1, <3>2 DEF update_session_spur_job, Row, TerminalStates
    <3> HIDE DEF s
    <3> QED BY <1>7, <1>8, <3>1, <3>2, <3>3
  <2>6. CASE SetRunning(r) \/ CreateService(r) \/ SetSsh(r) \/ SetEnded(r) \/ BillEnd(r)
    <3>1. /\ sync[r].pc # "idle"
          /\ \/ Done(r, s)
             \/ \E pc \in {"svc", "ssh", "bill", "unbill", "unsvc"} : \E next : Go(r, s, pc, next)
      BY <2>6 DEF SetRunning, CreateService, SetSsh, SetEnded, BillEnd, At, after_running
    <3>2. \A pc \in {"svc", "ssh", "bill", "unbill", "unsvc"} : pc \notin Deciding
      BY DEF Deciding, CrdSteps
    <3> HIDE DEF s
    <3> QED BY <1>4, <1>5, <1>8, <3>1, <3>2
  <2>7. CASE SetState(r) \/ SetFailed(r) \/ BillStart(r) \/ DeleteService(r) \/ CrdEnded(r)
    <3>1. sync[r].pc # "idle" /\ Done(r, s)
      BY <2>7 DEF SetState, SetFailed, BillStart, DeleteService, CrdEnded, At
    <3> HIDE DEF s
    <3> QED BY <1>4, <1>8, <3>1
  <2> QED BY <2>1, <2>2, <2>3, <2>4, <2>5, <2>6, <2>7 DEF SyncStep, CrdStep
<1>10. \A q \in Replicas : q = r
  BY DEF Sole
<1> QED BY <1>3, <1>9, <1>10 DEF SoleInv

\* SoleInv is inductive.
LEMMA SoleHolds == ASSUME Truthful PROVE Spec => [](Sole => SoleInv)
<1>1. Init => (Sole => SoleInv)
  BY DEF Init, StoreInit, ClusterInit, RoutesInit, SyncInit, Resting, NotSeen, NoCrd, SoleInv,
         UnansweredInv, TakenUpInv, Deciding, CrdSteps
<1>2. IInv /\ HandInv /\ (Sole => SoleInv) /\ [Next]_vars => (Sole => SoleInv)'
  <2>1. ASSUME SoleInv, UNCHANGED vars PROVE SoleInv'
    BY <2>1
       DEF SoleInv, UnansweredInv, TakenUpInv, vars, storeVars, clusterVars, routeVars, syncVars
  <2> QED BY <2>1, RequestSole, EnvironmentSole, PollSole DEF Next, Request, Poll, Die, Sole
<1> QED BY <1>1, <1>2, Inductive, Holding, PTL DEF Spec

(***************************************************************************)
(* The quota, with any number of loops, creations and deletes and whatever *)
(* fails.  The count a creation is admitted on is several awaits old when  *)
(* its row is written.  What it overlooks is, at that moment, admitted and *)
(* not stored yet, of which there is one per other creation in progress,   *)
(* or shown as ended with its job alive or still to come, of which there   *)
(* is one per failure: these are the sessions beyond the quota.  An        *)
(* admission without a failure chooses them anew; after any other step     *)
(* those of before still do, or with one failure more one session more.    *)
(***************************************************************************)
\* Admitted, and not stored yet.
Asked(u) == {s \in Sessions : Owner[s] = u /\ creator[s] \in {"capacity", "insert"}}
Claims(u) == Committed(u) \cup Asked(u)

Busy(u) == {s \in Sessions : Owner[s] = u /\ creator[s] \in InFlight}
Held(u) == {s \in Sessions : Owner[s] = u /\ rows[s].state \in ActiveStates}

\* Given up, or about to be, while the job may live.
Dropped == {s \in Sessions :
    creator[s] = "fail" \/ (rows[s].state \in TerminalStates /\ ~ Over(s))}

Requested == {s \in Sessions : creator[s] # "idle"}

\* All but fewer than n of the sessions C ask for no more than the limit.
Within(C, n, limit) ==
    \E X \in SUBSET C : /\ IsFiniteSet(X) /\ Cardinality(X) < n
                        /\ Cardinality(Gpus(C \ X)) <= limit

QuotaInv ==
    /\ IsFiniteSet(Requested)
    /\ Cardinality(Dropped) <= faults
    /\ \A u \in Users :
          /\ Cardinality(Busy(u)) <= MaxInFlight
          /\ MaxGpus[u] # NoQuota => Within(Claims(u), MaxInFlight + faults, MaxGpus[u])

\* The GPUs of finitely many sessions are a number of them, which does not shrink
\* when there are more sessions (session_repo.rs:73-82).
LEMMA GpusCounted ==
    ASSUME NEW S \in SUBSET Sessions, IsFiniteSet(S)
    PROVE  /\ IsFiniteSet(Gpus(S)) /\ Cardinality(Gpus(S)) \in Nat
           /\ \A T \in SUBSET S : /\ IsFiniteSet(Gpus(T)) /\ Cardinality(Gpus(T)) \in Nat
                                  /\ Cardinality(Gpus(T)) <= Cardinality(Gpus(S))
<1> DEFINE numbers == 1..8
<1>1. IsFiniteSet(numbers)
  <2>1. \A n \in Nat : IsFiniteSet(1..n)
    BY FS_Interval
  <2> QED BY <2>1
<1>2. IsFiniteSet(S \X numbers)
  <2> HIDE DEF numbers
  <2> QED BY <1>1, FS_Product, Zenon
<1>3. Gpus(S) \in SUBSET (S \X (1..8))
  BY DEF Gpus
<1>4. IsFiniteSet(Gpus(S)) /\ Cardinality(Gpus(S)) \in Nat
  BY <1>2, <1>3, FS_Subset, FS_CardinalityType
<1>5. \A T \in SUBSET S : Gpus(T) \in SUBSET Gpus(S)
  BY DEF Gpus
<1> QED BY <1>4, <1>5, FS_Subset, FS_CardinalityType

\* One session adds at most what it asks for.
LEMMA OneMoreSession ==
    ASSUME NEW S \in SUBSET Sessions, IsFiniteSet(S), NEW s \in Sessions
    PROVE  Cardinality(Gpus(S \cup {s})) <= Cardinality(Gpus(S)) + GpuCount[s]
<1> DEFINE own == {s} \X (1..GpuCount[s])
<1>1. GpuCount[s] \in 0..8
  BY GpuCountAssumption
<1>2. Gpus(S \cup {s}) = Gpus(S) \cup own
  BY <1>1 DEF Gpus
<1>3. IsFiniteSet(own) /\ Cardinality(own) = GpuCount[s]
  <2> DEFINE one == {s}
             numbers == 1..GpuCount[s]
  <2>1. IsFiniteSet(one) /\ Cardinality(one) = 1
    BY FS_Singleton
  <2>2. IsFiniteSet(numbers) /\ Cardinality(numbers) = GpuCount[s]
    BY <1>1, FS_Interval
  <2>3. /\ IsFiniteSet(one \X numbers)
        /\ Cardinality(one \X numbers) = Cardinality(one) * Cardinality(numbers)
    <3> HIDE DEF one, numbers
    <3> QED BY <2>1, <2>2, FS_Product, Zenon
  <2>4. Cardinality(one) * Cardinality(numbers) = GpuCount[s]
    BY <1>1, <2>1, <2>2
  <2> QED BY <2>3, <2>4
<1>4. IsFiniteSet(Gpus(S)) /\ Cardinality(Gpus(S)) \in Nat
  BY GpusCounted
<1>5. /\ Cardinality(Gpus(S) \cup own)
           = Cardinality(Gpus(S)) + Cardinality(own) - Cardinality(Gpus(S) \cap own)
      /\ Cardinality(Gpus(S) \cap own) \in Nat
  <2> HIDE DEF own
  <2>1. IsFiniteSet(Gpus(S) \cap own)
    BY <1>4, FS_Intersection
  <2> QED BY <1>3, <1>4, <2>1, FS_Union, FS_CardinalityType
<1>6. GpuCount[s] \in Nat
  BY <1>1
<1> HIDE DEF own
<1>7. Cardinality(Gpus(S \cup {s}))
        = Cardinality(Gpus(S)) + GpuCount[s] - Cardinality(Gpus(S) \cap own)
  BY <1>2, <1>3, <1>5
<1> QED BY <1>4, <1>5, <1>6, <1>7

\* One more element is at most one more.
LEMMA OneMore ==
    ASSUME NEW S, IsFiniteSet(S), NEW x
    PROVE  /\ IsFiniteSet(S \cup {x})
           /\ Cardinality(S) \in Nat /\ Cardinality(S \cup {x}) \in Nat
           /\ Cardinality(S \cup {x}) <= Cardinality(S) + 1
<1>1. IsFiniteSet(S \cup {x}) /\ Cardinality(S) \in Nat
  BY FS_AddElement, FS_CardinalityType
<1>2. CASE x \in S
  <2>1. S \cup {x} = S
    BY <1>2
  <2> QED BY <1>1, <2>1
<1>3. CASE x \notin S
  <2>1. Cardinality(S \cup {x}) = Cardinality(S) + 1
    BY <1>3, FS_AddElement
  <2> QED BY <1>1, <2>1
<1> QED BY <1>2, <1>3

\* Sessions that leave take none of the rest beyond the limit, nor does one that asks
\* for no GPU; any other that comes counts as one more beyond it.
LEMMA WithinMoves ==
    ASSUME NEW C \in SUBSET Sessions, NEW D \in SUBSET Sessions, IsFiniteSet(C),
           NEW n \in Nat, NEW m \in Nat, n <= m, NEW limit \in Nat, Within(C, n, limit),
           NEW s \in Sessions, D \subseteq C \cup {s}
    PROVE  /\ D \subseteq C \/ GpuCount[s] = 0 => Within(D, m, limit)
           /\ n < m => Within(D, m, limit)
<1>1. PICK X \in SUBSET C : /\ IsFiniteSet(X) /\ Cardinality(X) < n
                            /\ Cardinality(Gpus(C \ X)) <= limit
  BY DEF Within
<1>2. /\ IsFiniteSet(C \ X) /\ Cardinality(X) \in Nat /\ Cardinality(Gpus(C \ X)) \in Nat
      /\ C \ X \in SUBSET Sessions
  <2>1. IsFiniteSet(C \ X) /\ C \ X \in SUBSET Sessions
    BY FS_Subset
  <2> QED BY <1>1, <2>1, GpusCounted, FS_CardinalityType
<1>3. ASSUME D \subseteq C \/ GpuCount[s] = 0
      PROVE  Within(D, m, limit)
  <2> DEFINE Y == X \cap D
  <2>1. IsFiniteSet(Y) /\ Cardinality(Y) \in Nat /\ Cardinality(Y) <= Cardinality(X)
    BY <1>1, FS_Subset, FS_CardinalityType
  <2>2. Gpus(D \ Y) \in SUBSET Gpus(C \ X)
    BY <1>3, GpuCountAssumption DEF Gpus
  <2>3. IsFiniteSet(Gpus(C \ X))
    BY <1>2, GpusCounted
  <2>4. Cardinality(Gpus(D \ Y)) \in Nat /\ Cardinality(Gpus(D \ Y)) <= Cardinality(Gpus(C \ X))
    BY <2>2, <2>3, FS_Subset, FS_CardinalityType
  <2>5. Y \in SUBSET D
    OBVIOUS
  <2> HIDE DEF Y
  <2>6. Cardinality(Y) < m /\ Cardinality(Gpus(D \ Y)) <= limit
    BY <1>1, <1>2, <2>1, <2>4
  <2> QED BY <2>1, <2>5, <2>6 DEF Within
<1>4. ASSUME n < m
      PROVE  Within(D, m, limit)
  <2> DEFINE Z == X \cup {s}
             Y == Z \cap D
  <2>1. IsFiniteSet(Z) /\ Cardinality(Z) \in Nat /\ Cardinality(Z) <= Cardinality(X) + 1
    BY <1>1, OneMore
  <2>2. IsFiniteSet(Y) /\ Cardinality(Y) \in Nat /\ Cardinality(Y) <= Cardinality(Z)
    BY <2>1, FS_Subset, FS_CardinalityType
  <2>3. D \ Y \in SUBSET (C \ X)
    OBVIOUS
  <2>4. Cardinality(Gpus(D \ Y)) \in Nat /\ Cardinality(Gpus(D \ Y)) <= Cardinality(Gpus(C \ X))
    BY <1>2, <2>3, GpusCounted
  <2>5. Y \in SUBSET D
    OBVIOUS
  <2> HIDE DEF Y, Z
  <2>6. Cardinality(Y) < m /\ Cardinality(Gpus(D \ Y)) <= limit
    BY <1>1, <1>2, <1>4, <2>1, <2>2, <2>4
  <2> QED BY <2>2, <2>5, <2>6 DEF Within
<1> QED BY <1>3, <1>4

\* What a user's sessions claim, hold and wait for was requested
\* (sessions.rs:31-240).
LEMMA ClaimsCounted ==
    ASSUME IInv, HandInv, IsFiniteSet(Requested), NEW u \in Users
    PROVE  /\ Claims(u) \in SUBSET Sessions /\ IsFiniteSet(Claims(u))
           /\ IsFiniteSet(Dropped) /\ Dropped \in SUBSET Sessions /\ Cardinality(Dropped) \in Nat
           /\ IsFiniteSet(Busy(u)) /\ Cardinality(Busy(u)) \in Nat
           /\ IsFiniteSet(Asked(u)) /\ Asked(u) \in SUBSET Busy(u)
           /\ IsFiniteSet(Held(u)) /\ Held(u) \in SUBSET Sessions
           /\ Committed(u) \subseteq Held(u) \cup Dropped
<1>1. \A s \in Sessions : RowInv(s) /\ creator[s] \in CreatorSteps
                          /\ rows[s].state \in SessionStates \cup {"absent"}
  BY DEF IInv, HandInv, TypeOK, RoutesTypeOK, StoreTypeOK, Row
<1>2. \A s \in Sessions : creator[s] = "idle" => rows[s].state = "absent"
  BY <1>1 DEF RowInv
<1>3. Committed(u) \in SUBSET Requested
  BY <1>1, <1>2 DEF Committed, Requested, RowInv, LiveJobStates
<1>4. Dropped \in SUBSET Requested
  BY <1>2 DEF Dropped, Requested, TerminalStates
<1>5. Held(u) \in SUBSET Requested
  BY <1>2 DEF Held, Requested, ActiveStates
<1>6. Busy(u) \in SUBSET Requested /\ Asked(u) \in SUBSET Busy(u)
  BY DEF Busy, Requested, InFlight, Asked, CreatorSteps
<1>7. ASSUME NEW s \in Committed(u) PROVE s \in Held(u) \cup Dropped
  <2>1. s \in Sessions /\ Owner[s] = u /\ ~ Over(s)
    BY JobStatesApart DEF Committed, JobStates
  <2>2. rows[s].state # "absent"
    BY <1>1 DEF Committed, RowInv, LiveJobStates
  <2> QED BY <1>1, <2>1, <2>2 DEF Held, Dropped, SessionStates
<1>8. Claims(u) \in SUBSET Requested /\ Requested \in SUBSET Sessions
  BY <1>3, <1>6 DEF Claims, Requested
<1> QED BY <1>3, <1>4, <1>5, <1>6, <1>7, <1>8, FS_Subset, FS_CardinalityType

\* Failures are counted one by one (`Fault` of every failing call).
LEMMA FaultsGrow ==
    ASSUME IInv
    PROVE  /\ \A s \in Sessions : RouteStep(s) => faults' \in {faults, faults + 1}
           /\ \A r \in Replicas : SyncStep(r) \/ Crash(r) => faults' \in {faults, faults + 1}
           /\ faults \in Nat
<1>1. faults \in Nat
  BY MaxFaultsAssumption DEF IInv, TypeOK, StoreTypeOK
<1>2. ASSUME NEW s \in Sessions, RouteStep(s) PROVE faults' \in {faults, faults + 1}
  BY <1>2 DEF RouteStep, CreateStep, DeleteStep, PostSession, CheckQuota, CheckCapacity,
              InsertRow, CreateCrd, SubmitJob, BindJob, MarkFailed, AbandonCreate, DeleteRequest,
              CancelWork, MarkStopping, AbandonDelete, Try, Fault, NoFault, storeVars
<1>3. ASSUME NEW r \in Replicas, SyncStep(r) \/ Crash(r) PROVE faults' \in {faults, faults + 1}
  BY <1>3 DEF SyncStep, CrdStep, SyncList, GetJob, PodCheck, PodAnswers, SetState, SetFailed,
              SetRunning, CreateService, SetSsh, BillStart, SetEnded, BillEnd, DeleteService,
              GetCrd, CrdBind, CrdPodCheck, CrdEnded, Crash, Try, Fault, NoFault, storeVars
<1> QED BY <1>1, <1>2, <1>3

\* How a creation comes to be in progress, to be admitted, and to be given up
\* (sessions.rs:41-240).
LEMMA Admissions ==
    ASSUME IInv, NEW s \in Sessions, RouteStep(s)
    PROVE  /\ creator'[s] \in InFlight =>
                 \/ creator[s] \in InFlight
                 \/ Cardinality(Busy(Owner[s])) < MaxInFlight
           /\ creator'[s] \in {"capacity", "insert"} /\ faults' = faults =>
                 \/ creator[s] \in {"capacity", "insert"}
                 \/ /\ creator[s] = "quota"
                    /\ within_quota(s, count_active_gpus_for_user(Owner[s]))
                 \/ GpuCount[s] = 0
           /\ creator'[s] = "fail" /\ faults' = faults => creator[s] = "fail"
<1>1. /\ creator \in [Sessions -> CreatorSteps] /\ faults \in Nat
      /\ Fault => faults' # faults
  <2>1. faults \in Nat
    BY FaultsGrow
  <2> QED BY <2>1 DEF Fault, IInv, TypeOK, RoutesTypeOK
<1>2. CASE PostSession(s)
  <2>1. GpuCount[s] \in Nat
    BY GpuCountAssumption
  <2>2. Cardinality(Busy(Owner[s])) < MaxInFlight
    BY <1>2 DEF PostSession, Busy
  <2> QED BY <1>1, <1>2, <2>1, <2>2 DEF PostSession, CreateAt
<1>3. CASE CheckQuota(s)
  BY <1>1, <1>3 DEF CheckQuota, CreateAt, InFlight, CreatorSteps
<1>4. CASE CheckCapacity(s) \/ InsertRow(s) \/ CreateCrd(s) \/ SubmitJob(s) \/ BindJob(s)
           \/ MarkFailed(s) \/ AbandonCreate(s)
  BY <1>1, <1>4
     DEF CheckCapacity, InsertRow, CreateCrd, SubmitJob, BindJob, MarkFailed, AbandonCreate,
         CreateAt, InFlight, CreatorSteps
<1>5. CASE DeleteRequest(s) \/ DeleteStep(s)
  BY <1>5 DEF DeleteRequest, DeleteStep, CancelWork, MarkStopping, AbandonDelete, DeleteAt
<1> QED BY <1>2, <1>3, <1>4, <1>5 DEF RouteStep, CreateStep

\* A request claims for its own session only, by an admission, and gives it up only by a
\* failure (sessions.rs:58-240).
LEMMA RequestClaims ==
    ASSUME IInv, HandInv, NEW s \in Sessions, RouteStep(s)
    PROVE  /\ \A u \in Users : \A t \in Claims(u)' :
                 \/ t \in Claims(u)
                 \/ t = s /\ creator'[s] \in {"capacity", "insert"}
                          /\ creator[s] \notin {"capacity", "insert"}
           /\ \A t \in Dropped' : t \in Dropped \/ (t = s /\ faults' = faults + 1)
<1>1. /\ \A t \in Sessions : t # s => /\ rows'[t] = rows[t] /\ jobs'[t] = jobs[t]
                                      /\ crd'[t] = crd[t] /\ creator'[t] = creator[t]
      /\ \/ Checking(s) \/ Inserting(s) \/ Submitting(s) \/ Recording(s) \/ Deleting(s)
  BY HandlerMoves
<1>2. JobInv(s) /\ faults' \in {faults, faults + 1} /\ jobs[s] \in Job
  BY FaultsGrow DEF IInv, TypeOK, ClusterTypeOK
<1>3. ASSUME NEW u \in Users, NEW t \in Claims(u)'
      PROVE  \/ t \in Claims(u)
             \/ t = s /\ creator'[s] \in {"capacity", "insert"}
                      /\ creator[s] \notin {"capacity", "insert"}
  <2>1. CASE t # s
    BY <1>1, <1>3, <2>1 DEF Claims, Committed, Asked
  <2>2. CASE t = s /\ s \in Asked(u)'
    BY <2>2 DEF Claims, Asked
  <2>3. CASE t = s /\ s \in Committed(u)'
    <3>1. Owner[s] = u
      BY <2>3 DEF Committed
    <3>2. CASE Checking(s)
      <4>1. creator'[s] # "submit" /\ SameJob(s)
        BY <3>2 DEF Checking
      <4> QED BY <2>3, <4>1 DEF Claims, Committed, SameJob
    <3>3. CASE Inserting(s)
      BY <2>3, <3>1, <3>3 DEF Inserting, Claims, Asked
    <3>4. CASE Submitting(s)
      BY <1>2, <2>3, <3>1, <3>4 DEF Submitting, JobInv, Early, Claims, Committed
    <3>5. CASE Recording(s)
      BY <2>3, <3>5 DEF Recording, SameJob, Claims, Committed
    <3>6. CASE Deleting(s)
      BY <2>3, <3>6 DEF Deleting, SameJob, Claims, Committed
    <3> QED BY <1>1, <3>2, <3>3, <3>4, <3>5, <3>6
  <2> QED BY <1>3, <2>1, <2>2, <2>3 DEF Claims
<1>4. ASSUME NEW t \in Dropped' PROVE t \in Dropped \/ (t = s /\ faults' = faults + 1)
  <2>1. CASE t # s
    BY <1>1, <1>4, <2>1 DEF Dropped
  <2>2. CASE t = s /\ creator'[s] = "fail"
    BY <1>2, <2>2, Admissions DEF Dropped
  <2>3. CASE t = s /\ creator'[s] # "fail"
    <3>1. rows'[s].state \in TerminalStates /\ ~ Over(s)'
      BY <1>4, <2>3 DEF Dropped
    <3>2. ~ Inserting(s)
      BY <3>1 DEF Inserting, Stored, TerminalStates
    <3>3. Checking(s) \/ Submitting(s) => rows[s].state \in TerminalStates /\ ~ Over(s)
      BY <3>1 DEF Checking, Submitting, SameJob, EndedJobStates
    <3>4. Recording(s) => creator[s] = "fail" \/ (rows[s].state \in TerminalStates /\ ~ Over(s))
      BY <3>1 DEF Recording, SameJob, Stored, TerminalStates
    <3>5. Deleting(s) => rows[s].state \in TerminalStates /\ ~ Over(s)
      BY <3>1 DEF Deleting, SameJob, Stored, TerminalStates
    <3> QED BY <1>1, <2>3, <3>2, <3>3, <3>4, <3>5 DEF Dropped
  <2> QED BY <2>1, <2>2, <2>3
<1> QED BY <1>3, <1>4

\* The cluster and the loops claim nothing, and what they end is over (main.rs:309-469).
LEMMA OthersClaim ==
    ASSUME IInv, HandInv,
           \/ \E s \in Sessions : Environment(s)
           \/ \E r \in Replicas : (SyncStep(r) \/ Crash(r)) /\ UNCHANGED routeVars
    PROVE  /\ UNCHANGED creator /\ faults' \in {faults, faults + 1}
           /\ \A u \in Users : Claims(u)' \subseteq Claims(u)
           /\ Dropped' \subseteq Dropped
<1>1. CASE \E s \in Sessions : Environment(s)
  <2>1. UNCHANGED <<rows, creator, faults>> /\ \A t \in Sessions : Forward(t)
    BY <1>1, EnvironmentMoves
  <2>2. \A t \in Sessions : Live(t)' => Live(t) \/ (~ Submitted(t) /\ crd[t].exists)
    <3>1. \A t \in Sessions : jobs[t].state \in JobStates \cup {"none"}
      BY DEF IInv, TypeOK, ClusterTypeOK, Job
    <3> QED BY <2>1, <3>1, JobStatesApart DEF Forward
  <2>3. \A u \in Users : Committed(u)' \subseteq Committed(u)
    BY <2>1, <2>2 DEF Committed, Forward
  <2>4. Dropped' \subseteq Dropped
    BY <2>1 DEF Dropped, Forward
  <2> QED BY <2>1, <2>3, <2>4 DEF Claims, Asked
<1>2. CASE \E r \in Replicas : (SyncStep(r) \/ Crash(r)) /\ UNCHANGED routeVars
  <2>1. PICK r \in Replicas : (SyncStep(r) \/ Crash(r)) /\ UNCHANGED routeVars
    BY <1>2
  <2>2. UNCHANGED <<jobs, crd, creator>> /\ Effects(r) /\ LoopInv(r)
    BY <2>1, LoopEffects DEF routeVars, IInv
  <2>3. ASSUME NEW t \in Sessions, rows'[t].state \in TerminalStates
        PROVE  rows[t].state \in TerminalStates \/ Over(t)
    <3>1. Ending(r) => rows'[t] = rows[t] \/ Over(t)
      BY <2>2 DEF Ending, OnlyRow, LoopInv
    <3>2. Setting(r) \/ Binding(r) \/ Starting(r) => rows'[t] = rows[t]
      BY <2>3, StatesApart DEF Setting, Binding, Starting, OnlyRow, Stored, TerminalStates, ActiveStates
    <3>3. Addressing(r) => rows'[t].state = rows[t].state
      BY DEF Addressing, OnlyRow
    <3> QED BY <2>2, <2>3, <3>1, <3>2, <3>3
            DEF Effects, OpeningBill, ClosingBill, Exposing, Withdrawing
  <2>4. Dropped' \subseteq Dropped
    BY <2>2, <2>3 DEF Dropped
  <2> QED BY <2>1, <2>2, <2>4, FaultsGrow DEF Claims, Committed, Asked
<1> QED BY <1>1, <1>2

\* The sessions beyond the quota of a creation that is admitted without a failure are
\* those the count overlooks (sessions.rs:58-78).
LEMMA AdmissionFits ==
    ASSUME IInv, HandInv, QuotaInv, NEW s \in Sessions, RouteStep(s), NEW u \in Users,
           Owner[s] = u, MaxGpus[u] # NoQuota, creator[s] = "quota",
           within_quota(s, count_active_gpus_for_user(u))
    PROVE  Within(Claims(u)', MaxInFlight + faults, MaxGpus[u])
<1> DEFINE L == Dropped
           A == Asked(u)
           H == Held(u)
           D == Claims(u)'
           X == (L \cup A) \cap D
<1>1. /\ IsFiniteSet(L) /\ IsFiniteSet(A) /\ IsFiniteSet(H) /\ H \in SUBSET Sessions
      /\ IsFiniteSet(Busy(u)) /\ Cardinality(Busy(u)) \in Nat /\ A \in SUBSET Busy(u)
      /\ Committed(u) \subseteq H \cup L
  BY ClaimsCounted DEF QuotaInv
<1>2. D \subseteq H \cup L \cup A \cup {s}
  BY <1>1, RequestClaims DEF Claims
<1>3. Cardinality(A) \in Nat /\ Cardinality(A) < MaxInFlight /\ MaxInFlight \in Nat
  <2>1. s \in Busy(u) /\ s \notin A
    BY DEF Busy, Asked, InFlight, CreatorSteps
  <2>2. Cardinality(Busy(u)) <= MaxInFlight /\ MaxInFlight \in Nat
    BY RoutesAssumption DEF QuotaInv
  <2> HIDE DEF A
  <2>3. A \cup {s} \in SUBSET Busy(u)
    BY <1>1, <2>1
  <2>4. /\ Cardinality(A) \in Nat /\ Cardinality(A \cup {s}) = Cardinality(A) + 1
        /\ Cardinality(A \cup {s}) <= Cardinality(Busy(u))
    BY <1>1, <2>1, <2>3, FS_AddElement, FS_Subset, FS_CardinalityType
  <2> QED BY <1>1, <2>2, <2>4
<1>4. Cardinality(L) \in Nat /\ Cardinality(L) <= faults /\ faults \in Nat
  BY <1>1, FaultsGrow, FS_CardinalityType DEF QuotaInv
<1>5. IsFiniteSet(X) /\ Cardinality(X) < MaxInFlight + faults
  <2> DEFINE Y == L \cup A
  <2> HIDE DEF L, A, D
  <2>1. /\ IsFiniteSet(Y)
        /\ Cardinality(Y) = Cardinality(L) + Cardinality(A) - Cardinality(L \cap A)
        /\ Cardinality(L \cap A) \in Nat
    <3>1. IsFiniteSet(L \cap A)
      BY <1>1, FS_Intersection
    <3> QED BY <1>1, <3>1, FS_Union, FS_CardinalityType
  <2>2. X \in SUBSET Y
    OBVIOUS
  <2> HIDE DEF Y, X
  <2>3. IsFiniteSet(X) /\ Cardinality(X) \in Nat /\ Cardinality(X) <= Cardinality(Y)
    BY <2>1, <2>2, FS_Subset, FS_CardinalityType
  <2> QED BY <1>3, <1>4, <2>1, <2>3
<1>6. Cardinality(Gpus(D \ X)) <= MaxGpus[u]
  <2>1. /\ Cardinality(Gpus(H)) + GpuCount[s] <= MaxGpus[u]
        /\ GpuCount[s] \in Nat /\ MaxGpus[u] \in Nat
    BY GpuCountAssumption, QuotaAssumption
       DEF within_quota, count_active_gpus_for_user, Held
  <2>2. D \ X \in SUBSET (H \cup {s}) /\ H \cup {s} \in SUBSET Sessions
    BY <1>1, <1>2
  <2> HIDE DEF L, A, H, D, X
  <2>3. Cardinality(Gpus(H)) \in Nat /\ Cardinality(Gpus(H \cup {s})) <= Cardinality(Gpus(H)) + GpuCount[s]
    BY <1>1, OneMoreSession, GpusCounted
  <2>4. IsFiniteSet(H \cup {s})
    BY <1>1, FS_AddElement
  <2>5. /\ Cardinality(Gpus(D \ X)) \in Nat /\ Cardinality(Gpus(H \cup {s})) \in Nat
        /\ Cardinality(Gpus(D \ X)) <= Cardinality(Gpus(H \cup {s}))
    BY <2>2, <2>4, GpusCounted
  <2> QED BY <2>1, <2>3, <2>5
<1> QED BY <1>5, <1>6 DEF Within

\* A step that claims nothing, or for one session with a failure or no GPU, keeps the
\* rest within the quota.
LEMMA ClaimsMove ==
    ASSUME IInv, HandInv, QuotaInv, NEW u \in Users, MaxGpus[u] # NoQuota, NEW s \in Sessions,
           Claims(u)' \subseteq Claims(u) \cup {s}, faults' \in {faults, faults + 1},
           \/ Claims(u)' \subseteq Claims(u)
           \/ GpuCount[s] = 0
           \/ faults' = faults + 1
    PROVE  Within(Claims(u)', MaxInFlight + faults', MaxGpus[u])
<1>1. /\ faults \in Nat /\ MaxInFlight \in Nat /\ MaxGpus[u] \in Nat
      /\ Within(Claims(u), MaxInFlight + faults, MaxGpus[u])
      /\ Claims(u) \in SUBSET Sessions /\ IsFiniteSet(Claims(u))
  BY FaultsGrow, ClaimsCounted, RoutesAssumption, QuotaAssumption DEF QuotaInv
<1>2. /\ MaxInFlight + faults \in Nat /\ MaxInFlight + faults' \in Nat
      /\ MaxInFlight + faults <= MaxInFlight + faults'
      /\ faults' = faults + 1 => MaxInFlight + faults < MaxInFlight + faults'
  BY <1>1
<1>3. Claims(u)' \in SUBSET Sessions
  BY <1>1
<1> QED BY <1>1, <1>2, <1>3, WithinMoves

\* Whatever a request does, the sessions beyond the quota are accounted for
\* (sessions.rs:31-332).
LEMMA RequestKeepsQuota ==
    ASSUME IInv, HandInv, QuotaInv, NEW s \in Sessions, RouteStep(s)
    PROVE  QuotaInv'
<1>1. /\ \A t \in Sessions : t # s => creator'[t] = creator[t]
      /\ IsFiniteSet(Requested) /\ faults \in Nat /\ faults' \in {faults, faults + 1}
      /\ Owner[s] \in Users
  BY HandlerMoves, FaultsGrow, OwnerAssumption DEF QuotaInv
<1>2. IsFiniteSet(Requested)'
  <2> DEFINE after == {t \in Sessions : creator'[t] # "idle"}
  <2>1. after \in SUBSET (Requested \cup {s})
    BY <1>1 DEF Requested
  <2>2. IsFiniteSet(Requested \cup {s})
    BY <1>1, FS_AddElement
  <2>3. IsFiniteSet(after)
    BY <2>1, <2>2, FS_Subset
  <2> QED BY <2>3 DEF Requested
<1>3. (Cardinality(Dropped) <= faults)'
  <2> DEFINE D == Dropped
             E == Dropped'
  <2>1. IsFiniteSet(D) /\ Cardinality(D) \in Nat /\ Cardinality(D) <= faults
    BY <1>1, ClaimsCounted DEF QuotaInv
  <2>2. E \in SUBSET D \/ (E \in SUBSET (D \cup {s}) /\ faults' = faults + 1)
    BY <1>1, RequestClaims
  <2> HIDE DEF D, E
  <2>3. /\ IsFiniteSet(D \cup {s}) /\ Cardinality(D \cup {s}) \in Nat
        /\ Cardinality(D \cup {s}) <= Cardinality(D) + 1
    BY <2>1, OneMore
  <2>4. /\ E \in SUBSET D => Cardinality(E) \in Nat /\ Cardinality(E) <= Cardinality(D)
        /\ E \in SUBSET (D \cup {s}) =>
              Cardinality(E) \in Nat /\ Cardinality(E) <= Cardinality(D \cup {s})
    BY <2>1, <2>3, FS_Subset, FS_CardinalityType
  <2>5. Cardinality(E) <= faults'
    BY <1>1, <2>1, <2>2, <2>3, <2>4
  <2> QED BY <2>5 DEF E
<1>4. ASSUME NEW u \in Users
      PROVE  (Cardinality(Busy(u)) <= MaxInFlight)'
  <2> DEFINE B == Busy(u)
             C == Busy(u)'
  <2>1. IsFiniteSet(B) /\ Cardinality(B) \in Nat /\ Cardinality(B) <= MaxInFlight
    BY <1>1, ClaimsCounted DEF QuotaInv
  <2>2. \/ C \in SUBSET B
        \/ C \in SUBSET (B \cup {s}) /\ Cardinality(B) < MaxInFlight
    BY <1>1, Admissions DEF Busy
  <2>3. MaxInFlight \in Nat
    BY RoutesAssumption
  <2> HIDE DEF B, C
  <2>4. /\ IsFiniteSet(B \cup {s}) /\ Cardinality(B \cup {s}) \in Nat
        /\ Cardinality(B \cup {s}) <= Cardinality(B) + 1
    BY <2>1, OneMore
  <2>5. /\ C \in SUBSET B => Cardinality(C) \in Nat /\ Cardinality(C) <= Cardinality(B)
        /\ C \in SUBSET (B \cup {s}) =>
              Cardinality(C) \in Nat /\ Cardinality(C) <= Cardinality(B \cup {s})
    BY <2>1, <2>4, FS_Subset, FS_CardinalityType
  <2>6. Cardinality(C) <= MaxInFlight
    BY <2>1, <2>2, <2>3, <2>4, <2>5
  <2> QED BY <2>6 DEF C
<1>5. ASSUME NEW u \in Users, MaxGpus[u] # NoQuota
      PROVE  Within(Claims(u)', MaxInFlight + faults', MaxGpus[u])
  <2>1. Claims(u)' \subseteq Claims(u) \cup {s}
    BY RequestClaims
  <2>2. CASE Claims(u)' \subseteq Claims(u) \/ GpuCount[s] = 0 \/ faults' = faults + 1
    BY <1>1, <1>5, <2>1, <2>2, ClaimsMove
  <2>3. CASE ~ (Claims(u)' \subseteq Claims(u)) /\ GpuCount[s] # 0 /\ faults' = faults
    <3>1. /\ creator[s] = "quota" /\ within_quota(s, count_active_gpus_for_user(Owner[s]))
      BY <2>3, RequestClaims, Admissions
    <3>2. Owner[s] = u
      BY <2>3, RequestClaims DEF Claims, Committed, Asked
    <3>3. Within(Claims(u)', MaxInFlight + faults, MaxGpus[u])
      BY <1>5, <3>1, <3>2, AdmissionFits
    <3> QED BY <2>3, <3>3
  <2> QED BY <1>1, <2>2, <2>3
<1> QED BY <1>2, <1>3, <1>4, <1>5 DEF QuotaInv, Within

\* The cluster and the loops leave what is beyond the quota as it was
\* (main.rs:124-469).
LEMMA OthersKeepQuota ==
    ASSUME IInv, HandInv, QuotaInv, UNCHANGED creator, faults' \in {faults, faults + 1},
           \A u \in Users : Claims(u)' \subseteq Claims(u), Dropped' \subseteq Dropped
    PROVE  QuotaInv'
<1>1. UNCHANGED Requested /\ \A u \in Users : UNCHANGED Busy(u)
  BY DEF Requested, Busy
<1>2. ASSUME NEW u \in Users
      PROVE  /\ (Cardinality(Busy(u)) <= MaxInFlight)'
             /\ MaxGpus[u] # NoQuota => Within(Claims(u), MaxInFlight + faults, MaxGpus[u])'
  <2>1. (Cardinality(Busy(u)) <= MaxInFlight)'
    BY <1>1 DEF QuotaInv
  <2>2. ASSUME MaxGpus[u] # NoQuota, NEW s \in Sessions
        PROVE  Within(Claims(u)', MaxInFlight + faults', MaxGpus[u])
    <3>1. Claims(u)' \subseteq Claims(u) \cup {s}
      OBVIOUS
    <3> QED BY <2>2, <3>1, ClaimsMove
  <2>3. ASSUME MaxGpus[u] # NoQuota, Sessions = {}
        PROVE  Within(Claims(u)', MaxInFlight + faults', MaxGpus[u])
    <3>1. Claims(u) = {} /\ Claims(u)' = {}
      BY <2>3 DEF Claims, Committed, Asked
    <3>2. Within({}, MaxInFlight + faults, MaxGpus[u])
      BY <2>3, <3>1 DEF QuotaInv
    <3>3. MaxInFlight \in Nat /\ faults \in Nat /\ Cardinality({}) = 0
      BY FaultsGrow, RoutesAssumption, FS_EmptySet
    <3>4. Within({}, MaxInFlight + faults', MaxGpus[u])
      BY <3>2, <3>3 DEF Within
    <3> QED BY <3>1, <3>4
  <2> QED BY <2>1, <2>2, <2>3 DEF Within
<1>3. Cardinality(Dropped)' <= faults'
  <2> DEFINE D == Dropped
             E == Dropped'
  <2>1. D \in SUBSET Requested
    <3>1. \A s \in Sessions : creator[s] = "idle" => rows[s].state = "absent"
      BY DEF HandInv, RowInv
    <3> QED BY <3>1 DEF Dropped, Requested, TerminalStates
  <2>2. IsFiniteSet(D) /\ Cardinality(D) \in Nat /\ Cardinality(D) <= faults /\ faults \in Nat
    BY <2>1, FaultsGrow, FS_Subset, FS_CardinalityType DEF QuotaInv
  <2>3. E \in SUBSET D
    OBVIOUS
  <2> HIDE DEF D, E
  <2>4. Cardinality(E) \in Nat /\ Cardinality(E) <= Cardinality(D)
    BY <2>2, <2>3, FS_Subset, FS_CardinalityType
  <2>5. Cardinality(E) <= faults'
    BY <2>2, <2>4
  <2> QED BY <2>5 DEF E
<1> QED BY <1>1, <1>2, <1>3 DEF QuotaInv

\* QuotaInv is inductive.
LEMMA QuotaHolds == Spec => []QuotaInv
<1>1. Init => QuotaInv
  <2> SUFFICES ASSUME Init PROVE QuotaInv
    OBVIOUS
  <2>1. /\ \A s \in Sessions : /\ creator[s] = "idle" /\ rows[s].state = "absent"
                               /\ jobs[s].state = "none" /\ crd[s] = NoCrd
        /\ faults = 0
    BY DEF Init, StoreInit, RoutesInit, ClusterInit
  <2>2. /\ Requested = {} /\ Dropped = {}
        /\ \A u \in Users : Busy(u) = {} /\ Claims(u) = {}
    BY <2>1 DEF Requested, Dropped, Busy, Claims, Committed, Asked, InFlight, TerminalStates,
                LiveJobStates, NoCrd
  <2>3. ASSUME NEW u \in Users, MaxGpus[u] # NoQuota
        PROVE  Within({}, MaxInFlight + faults, MaxGpus[u])
    <3>1. Gpus({} \ {}) = {}
      BY DEF Gpus
    <3>2. MaxGpus[u] \in Nat /\ MaxInFlight \in Nat /\ MaxInFlight > 0
      BY <2>3, QuotaAssumption, RoutesAssumption
    <3> QED BY <2>1, <3>1, <3>2, FS_EmptySet DEF Within
  <2>4. MaxInFlight \in Nat /\ IsFiniteSet(Requested) /\ Cardinality(Dropped) = 0
    BY <2>2, RoutesAssumption, FS_EmptySet
  <2>5. \A u \in Users : Cardinality(Busy(u)) = 0
    BY <2>2, FS_EmptySet
  <2>6. \A u \in Users : MaxGpus[u] # NoQuota =>
                            Within(Claims(u), MaxInFlight + faults, MaxGpus[u])
    BY <2>2, <2>3
  <2> QED BY <2>1, <2>4, <2>5, <2>6 DEF QuotaInv
<1>2. IInv /\ HandInv /\ QuotaInv /\ [Next]_vars => QuotaInv'
  <2> SUFFICES ASSUME IInv, HandInv, QuotaInv, [Next]_vars PROVE QuotaInv'
    OBVIOUS
  <2>1. CASE UNCHANGED vars
    BY <2>1 DEF vars, storeVars, clusterVars, routeVars, QuotaInv, Requested, Dropped, Busy,
                Claims, Committed, Asked, Within
  <2>2. ASSUME NEW s \in Sessions, Request(s) PROVE QuotaInv'
    BY <2>2, RequestKeepsQuota DEF Request
  <2>3. CASE \/ \E s \in Sessions : Environment(s)
             \/ \E r \in Replicas : (SyncStep(r) \/ Crash(r)) /\ UNCHANGED routeVars
    BY <2>3, OthersClaim, OthersKeepQuota
  <2> QED BY <2>1, <2>2, <2>3 DEF Next, Poll, Die
<1> QED BY <1>1, <1>2, Inductive, Holding, PTL DEF Spec

\* However creations of a user overlap and whichever calls fail, on either backend, with
\* any number of loops, requeues and deletes: all sessions of a user but one for each
\* other creation in progress and one for each failure are within the quota
\* (sessions.rs:58-157).
THEOREM OverrunBounded == Spec => []OverrunIsBounded
<1>1. IInv /\ HandInv /\ QuotaInv => OverrunIsBounded
  <2> SUFFICES ASSUME IInv, HandInv, QuotaInv, NEW u \in Users, MaxGpus[u] # NoQuota
               PROVE  \E beyond \in SUBSET Committed(u) :
                         /\ Cardinality(beyond) < MaxInFlight + faults
                         /\ Cardinality(Gpus(Committed(u) \ beyond)) <= MaxGpus[u]
    BY DEF OverrunIsBounded
  <2>1. PICK X \in SUBSET Claims(u) :
           /\ IsFiniteSet(X) /\ Cardinality(X) < MaxInFlight + faults
           /\ Cardinality(Gpus(Claims(u) \ X)) <= MaxGpus[u]
    BY DEF QuotaInv, Within
  <2> DEFINE beyond == X \cap Committed(u)
             rest == Claims(u) \ X
  <2>2. /\ faults \in Nat /\ MaxInFlight \in Nat /\ MaxGpus[u] \in Nat
        /\ Cardinality(X) \in Nat /\ Cardinality(beyond) \in Nat
        /\ Cardinality(beyond) <= Cardinality(X)
    BY <2>1, FaultsGrow, RoutesAssumption, QuotaAssumption, FS_Subset, FS_CardinalityType
  <2>3. rest \in SUBSET Sessions /\ IsFiniteSet(rest)
    BY ClaimsCounted, FS_Subset DEF QuotaInv
  <2>4. Committed(u) \ beyond \in SUBSET rest
    BY DEF Claims
  <2>5. /\ Cardinality(Gpus(rest)) \in Nat /\ Cardinality(Gpus(Committed(u) \ beyond)) \in Nat
        /\ Cardinality(Gpus(Committed(u) \ beyond)) <= Cardinality(Gpus(rest))
    <3> HIDE DEF rest, beyond
    <3> QED BY <2>3, <2>4, GpusCounted
  <2> QED BY <2>1, <2>2, <2>5
<1> QED BY <1>1, QuotaHolds, Inductive, Holding, PTL

(***************************************************************************)
(* The refinement: every step of the control plane is a step of the        *)
(* contract, or changes nothing it speaks of.                              *)
(***************************************************************************)
Promised == Contract!Next \/ UNCHANGED <<work, shown, facts, usage, services>>

\* The contract sees the jobs, the states and the facts of the rows, one by one.
LEMMA MappedStays ==
    /\ (\A t \in Sessions : jobs'[t].state = jobs[t].state) => work' = work
    /\ (\A t \in Sessions : is_terminal(rows'[t].state) = is_terminal(rows[t].state)
                            /\ (rows'[t].state = "absent" <=> rows[t].state = "absent"))
          => shown' = shown
    /\ (\A t \in Sessions : /\ rows'[t].bound = rows[t].bound
                            /\ rows'[t].started = rows[t].started
                            /\ rows'[t].addr = rows[t].addr) => facts' = facts
BY DEF work, shown, facts, is_terminal

\* A step about one session changes only what the contract sees of that one.
LEMMA MappedMoves ==
    ASSUME NEW s \in Sessions
    PROVE  /\ (\A t \in Sessions : t # s => jobs'[t].state = jobs[t].state) =>
                 work' = [work EXCEPT ![s] = work'[s]]
           /\ (\A t \in Sessions : t # s => rows'[t] = rows[t]) =>
                 /\ shown' = [shown EXCEPT ![s] = shown'[s]]
                 /\ facts' = [facts EXCEPT ![s] = facts'[s]]
BY DEF work, shown, facts

\* What the contract sees of one session, before and after.
Seeing(s) ==
    /\ work[s] = IF Over(s) THEN "over" ELSE IF Submitted(s) THEN "live" ELSE "none"
    /\ shown[s] = IF rows[s].state = "absent" THEN "absent"
                  ELSE IF rows[s].state \in TerminalStates THEN "ended" ELSE "active"
    /\ facts[s] = [bound |-> rows[s].bound, started |-> rows[s].started, addr |-> rows[s].addr]

\* That is what the mapping says.
LEMMA Sees == \A s \in Sessions : Seeing(s) /\ Seeing(s)'
BY DEF Seeing, work, shown, facts, is_terminal

FactRecord == [bound : BOOLEAN, started : BOOLEAN, addr : BOOLEAN]

\* Two such records with the same fields are one.
LEMMA FactsEqual ==
    ASSUME NEW g \in FactRecord, NEW h \in FactRecord,
           g.bound = h.bound, g.started = h.started, g.addr = h.addr
    PROVE  g = h
BY DEF FactRecord

\* What is stored about a session when one more fact is.
LEMMA FactSet ==
    ASSUME NEW f \in FactRecord
    PROVE  /\ [f EXCEPT !.bound = TRUE] =
                 [bound |-> TRUE, started |-> f.started, addr |-> f.addr]
           /\ [f EXCEPT !.started = TRUE] =
                 [bound |-> f.bound, started |-> TRUE, addr |-> f.addr]
           /\ [f EXCEPT !.addr = TRUE] =
                 [bound |-> f.bound, started |-> f.started, addr |-> TRUE]
<1>1. ASSUME NEW b \in BOOLEAN, NEW st \in BOOLEAN, NEW a \in BOOLEAN
      PROVE  LET g == [bound |-> b, started |-> st, addr |-> a]
             IN g \in FactRecord /\ g.bound = b /\ g.started = st /\ g.addr = a
  BY DEF FactRecord
<1>2. f.bound \in BOOLEAN /\ f.started \in BOOLEAN /\ f.addr \in BOOLEAN
  BY DEF FactRecord
<1>3. [f EXCEPT !.bound = TRUE] = [bound |-> TRUE, started |-> f.started, addr |-> f.addr]
  <2> DEFINE g == [f EXCEPT !.bound = TRUE]
             h == [bound |-> TRUE, started |-> f.started, addr |-> f.addr]
  <2>1. g \in FactRecord /\ g.bound = TRUE /\ g.started = f.started /\ g.addr = f.addr
    BY DEF FactRecord
  <2>2. h \in FactRecord /\ h.bound = TRUE /\ h.started = f.started /\ h.addr = f.addr
    BY <1>1, <1>2
  <2>3. g = h
    <3> HIDE DEF g, h
    <3> QED BY <2>1, <2>2, FactsEqual
  <2> QED BY <2>3
<1>4. [f EXCEPT !.started = TRUE] = [bound |-> f.bound, started |-> TRUE, addr |-> f.addr]
  <2> DEFINE g == [f EXCEPT !.started = TRUE]
             h == [bound |-> f.bound, started |-> TRUE, addr |-> f.addr]
  <2>1. g \in FactRecord /\ g.bound = f.bound /\ g.started = TRUE /\ g.addr = f.addr
    BY DEF FactRecord
  <2>2. h \in FactRecord /\ h.bound = f.bound /\ h.started = TRUE /\ h.addr = f.addr
    BY <1>1, <1>2
  <2>3. g = h
    <3> HIDE DEF g, h
    <3> QED BY <2>1, <2>2, FactsEqual
  <2> QED BY <2>3
<1>5. [f EXCEPT !.addr = TRUE] = [bound |-> f.bound, started |-> f.started, addr |-> TRUE]
  <2> DEFINE g == [f EXCEPT !.addr = TRUE]
             h == [bound |-> f.bound, started |-> f.started, addr |-> TRUE]
  <2>1. g \in FactRecord /\ g.bound = f.bound /\ g.started = f.started /\ g.addr = TRUE
    BY DEF FactRecord
  <2>2. h \in FactRecord /\ h.bound = f.bound /\ h.started = f.started /\ h.addr = TRUE
    BY <1>1, <1>2
  <2>3. g = h
    <3> HIDE DEF g, h
    <3> QED BY <2>1, <2>2, FactsEqual
  <2> QED BY <2>3
<1> QED BY <1>3, <1>4, <1>5

\* What the contract sees when one column of a row is written.
LEMMA FactsMove ==
    ASSUME IInv, NEW s \in Sessions, \A t \in Sessions : t # s => rows'[t] = rows[t]
    PROVE  /\ /\ rows'[s].bound = TRUE /\ rows'[s].started = rows[s].started
              /\ rows'[s].addr = rows[s].addr
              => facts' = [facts EXCEPT ![s].bound = TRUE]
           /\ /\ rows'[s].bound = rows[s].bound /\ rows'[s].started = TRUE
              /\ rows'[s].addr = rows[s].addr
              => facts' = [facts EXCEPT ![s].started = TRUE]
           /\ /\ rows'[s].bound = rows[s].bound /\ rows'[s].started = rows[s].started
              /\ rows'[s].addr = TRUE
              => facts' = [facts EXCEPT ![s].addr = TRUE]
           /\ /\ rows'[s].bound = rows[s].bound /\ rows'[s].started = rows[s].started
              /\ rows'[s].addr = rows[s].addr
              => facts' = facts
<1>1. facts' = [facts EXCEPT ![s] = facts'[s]] /\ facts = [facts EXCEPT ![s] = facts[s]]
  BY MappedMoves DEF facts
<1>2. /\ facts'[s] = [bound |-> rows'[s].bound, started |-> rows'[s].started,
                      addr |-> rows'[s].addr]
      /\ facts[s] = [bound |-> rows[s].bound, started |-> rows[s].started, addr |-> rows[s].addr]
  BY DEF facts
<1>3. /\ [facts[s] EXCEPT !.bound = TRUE] =
            [bound |-> TRUE, started |-> rows[s].started, addr |-> rows[s].addr]
      /\ [facts[s] EXCEPT !.started = TRUE] =
            [bound |-> rows[s].bound, started |-> TRUE, addr |-> rows[s].addr]
      /\ [facts[s] EXCEPT !.addr = TRUE] =
            [bound |-> rows[s].bound, started |-> rows[s].started, addr |-> TRUE]
  <2>1. facts[s] \in FactRecord
    BY <1>2 DEF IInv, TypeOK, StoreTypeOK, Row, FactRecord
  <2>2. /\ facts[s].bound = rows[s].bound /\ facts[s].started = rows[s].started
        /\ facts[s].addr = rows[s].addr
    BY <1>2
  <2> QED BY <2>1, <2>2, FactSet
<1> QED BY <1>1, <1>2, <1>3

\* What a handler does is promised, or not seen (sessions.rs:31-332).
LEMMA RequestPromised ==
    ASSUME Truthful, IInv, HandInv, Sole => SoleInv, NEW s \in Sessions, Request(s)
    PROVE  Promised
<1>1. /\ UNCHANGED <<usage, services>>
      /\ \A t \in Sessions : t # s => rows'[t] = rows[t] /\ jobs'[t] = jobs[t]
      /\ RowInv(s) /\ JobInv(s) /\ (Sole => UnansweredInv(s))
  BY HandlerMoves DEF Request, HandInv, IInv, SoleInv
<1>2. shown' = [shown EXCEPT ![s] = shown'[s]] /\ work' = [work EXCEPT ![s] = work'[s]]
  BY <1>1, MappedMoves
<1>3. Seeing(s) /\ Seeing(s)'
  BY Sees
<1>4. ASSUME rows'[s] = rows[s], jobs'[s].state = jobs[s].state PROVE Promised
  BY <1>1, <1>4, MappedStays DEF Promised
<1>5. CASE Checking(s)
  BY <1>4, <1>5 DEF Checking, SameJob
<1>6. CASE Inserting(s)
  <2>1. rows[s].state = "absent" /\ rows'[s].state = "creating" /\ work' = work /\ facts' = facts
    BY <1>1, <1>6, MappedStays, FactsMove DEF Inserting, Stored, SameJob, RowInv
  <2>2. shown[s] = "absent" /\ shown'[s] = "active"
    BY <1>3, <2>1 DEF Seeing, TerminalStates
  <2>3. Contract!Request(s)
    BY <1>1, <1>2, <2>1, <2>2 DEF Contract!Request, Contract!Show
  <2> QED BY <2>3 DEF Promised, Contract!Next
<1>7. CASE Submitting(s)
  <2>1. CASE jobs'[s].state = jobs[s].state
    BY <1>4, <1>7, <2>1 DEF Submitting
  <2>2. CASE jobs'[s].state = "JobPending" /\ ~ Submitted(s)
    <3>1. rows'[s] = rows[s] /\ rows[s].state # "absent"
      BY <1>1, <1>7 DEF Submitting, RowInv
    <3>2. work[s] = "none" /\ work'[s] = "live" /\ shown[s] # "absent"
      BY <1>3, <2>2, <3>1 DEF Seeing, EndedJobStates
    <3>3. shown' = shown /\ facts' = facts
      BY <1>1, <3>1, MappedStays
    <3>4. Contract!Submit(s)
      BY <1>1, <1>2, <3>2, <3>3 DEF Contract!Submit
    <3> QED BY <3>4 DEF Promised, Contract!Next
  <2> QED BY <1>7, <2>1, <2>2 DEF Submitting
<1>8. CASE Recording(s)
  <2>1. rows[s].state # "absent" /\ jobs'[s].state = jobs[s].state /\ work' = work
    BY <1>1, <1>8, MappedStays DEF Recording, SameJob, RowInv
  <2>2. CASE rows'[s] = rows[s]
    BY <1>4, <2>1, <2>2
  <2>3. CASE creator[s] = "bind" /\ Stored(s, "pending", TRUE)
    <3>1. work[s] # "none" /\ shown[s] # "absent" /\ (Sole => shown[s] = "active")
          /\ shown'[s] = "active"
      BY <1>1, <1>3, <2>1, <2>3
         DEF Seeing, JobInv, UnansweredInv, Stored, TerminalStates, EndedJobStates
    <3>2. facts' = [facts EXCEPT ![s].bound = TRUE]
      BY <1>1, <2>3, FactsMove DEF Stored
    <3>3. Contract!Bind(s)
      BY <1>1, <1>2, <2>1, <3>1, <3>2 DEF Contract!Bind, Contract!Show, Contract!Touchable
    <3> QED BY <3>3 DEF Promised, Contract!Next
  <2>4. CASE creator[s] = "fail" /\ Stored(s, "failed", rows[s].bound)
    <3>1. ~ rows[s].bound /\ shown'[s] = "ended" /\ shown[s] \in {"active", "ended"}
          /\ ~ facts[s].bound
      BY <1>1, <1>3, <2>1, <2>4 DEF JobInv, Seeing, Stored, TerminalStates
    <3>2. facts' = facts
      BY <1>1, <2>4, FactsMove DEF Stored
    <3>3. CASE shown[s] = "active"
      <4>1. Contract!End(s)
        BY <1>1, <1>2, <2>1, <3>1, <3>2, <3>3 DEF Contract!End, Contract!Show
      <4> QED BY <4>1 DEF Promised, Contract!Next
    <3>4. CASE shown[s] = "ended"
      <4>1. shown' = shown
        BY <1>2, <3>1, <3>4 DEF shown
      <4> QED BY <1>1, <2>1, <3>2, <4>1 DEF Promised
    <3> QED BY <3>1, <3>3, <3>4
  <2> QED BY <1>8, <2>2, <2>3, <2>4 DEF Recording
<1>9. CASE Deleting(s)
  <2>1. jobs'[s].state = jobs[s].state /\ work' = work
    BY <1>1, <1>9, MappedStays DEF Deleting, SameJob
  <2>2. CASE rows'[s] = rows[s]
    BY <1>4, <2>1, <2>2
  <2>3. CASE deleter[s] # "idle" /\ Stored(s, "stopping", rows[s].bound)
    <3>1. ~ Sole /\ shown'[s] = "active" /\ shown[s] \in {"active", "ended"}
      BY <1>1, <1>3, <2>3 DEF RowInv, UnansweredInv, Seeing, Stored, TerminalStates
    <3>2. facts' = facts
      BY <1>1, <2>3, FactsMove DEF Stored
    <3>3. CASE shown[s] = "ended"
      <4>1. Contract!Revive(s)
        BY <1>1, <1>2, <2>1, <3>1, <3>2, <3>3 DEF Contract!Revive, Contract!Show
      <4> QED BY <4>1 DEF Promised, Contract!Next
    <3>4. CASE shown[s] = "active"
      <4>1. shown' = shown
        BY <1>2, <3>1, <3>4 DEF shown
      <4> QED BY <1>1, <2>1, <3>2, <4>1 DEF Promised
    <3> QED BY <3>1, <3>3, <3>4
  <2> QED BY <1>9, <2>2, <2>3 DEF Deleting
<1> QED BY <1>5, <1>6, <1>7, <1>8, <1>9, HandlerMoves DEF Request

\* The cluster submits work and finishes it.
LEMMA EnvironmentPromised ==
    ASSUME IInv, HandInv, NEW s \in Sessions, Environment(s)
    PROVE  Promised
<1>1. /\ UNCHANGED <<rows, usage, services>> /\ Forward(s) /\ RowInv(s)
      /\ \A t \in Sessions : t # s => jobs'[t] = jobs[t]
  BY EnvironmentMoves DEF HandInv
<1>2. /\ work' = [work EXCEPT ![s] = work'[s]] /\ shown' = shown /\ facts' = facts
      /\ Seeing(s) /\ Seeing(s)'
  BY <1>1, MappedMoves, MappedStays, Sees
<1>3. /\ work[s] \in {"none", "live", "over"}
      /\ work[s] = "none" => work'[s] = "none" \/ (work'[s] = "live" /\ shown[s] # "absent")
      /\ work[s] = "live" => work'[s] \in {"live", "over"}
      /\ work[s] = "over" => work'[s] = "over"
  BY <1>1, <1>2 DEF Seeing, Forward, RowInv, EndedJobStates
<1>4. CASE work'[s] = work[s]
  <2>1. work' = work
    BY <1>2, <1>4 DEF work
  <2> QED BY <1>1, <1>2, <2>1 DEF Promised
<1>5. CASE work[s] = "none" /\ work'[s] = "live"
  <2>1. Contract!Submit(s)
    BY <1>1, <1>2, <1>3, <1>5 DEF Contract!Submit
  <2> QED BY <2>1 DEF Promised, Contract!Next
<1>6. CASE work[s] = "live" /\ work'[s] = "over"
  <2>1. Contract!Finish(s)
    BY <1>1, <1>2, <1>6 DEF Contract!Finish
  <2> QED BY <2>1 DEF Promised, Contract!Next
<1> QED BY <1>3, <1>4, <1>5, <1>6

\* What a loop writes, bills, exposes and withdraws is promised (main.rs:124-469).
LEMMA PollPromised ==
    ASSUME IInv, HandInv, StartInv, Sole => SoleInv, Alone => AloneInv, NEW r \in Replicas,
           SyncStep(r) \/ Crash(r)
    PROVE  Promised
<1>1. /\ UNCHANGED <<jobs, crd>> /\ Effects(r) /\ work' = work
      /\ LoopInv(r) /\ HeldInv(r) /\ TransitionInv(r)
      /\ (Sole => TakenUpInv(r)) /\ (Alone => LoneInv(r))
  BY LoopEffects, MappedStays DEF IInv, HandInv, StartInv, SoleInv, AloneInv
<1>2. CASE UNCHANGED <<rows, usage, services>>
  BY <1>1, <1>2, MappedStays DEF Promised
<1>3. CASE ~ UNCHANGED <<rows, usage, services>>
  <2>1. sync[r].pc # "idle" /\ sync[r].cur \in Sessions
    BY <1>1, <1>3
       DEF Effects, Setting, Ending, Binding, Starting, Addressing, OpeningBill, ClosingBill,
           Exposing, Withdrawing, LoopInv
  <2>2. PICK s \in Sessions : s = sync[r].cur
    BY <2>1
  <2>3. Seeing(s) /\ Seeing(s)' /\ rows[s].state # "absent"
    BY <1>1, <2>1, <2>2, Sees DEF HeldInv
  <2>4. ASSUME OnlyRow(s)
        PROVE  /\ UNCHANGED <<usage, services>>
               /\ \A t \in Sessions : t # s => rows'[t] = rows[t]
               /\ shown' = [shown EXCEPT ![s] = shown'[s]]
    BY <2>4, MappedMoves DEF OnlyRow
  <2>5. CASE Setting(r)
    <3>1. OnlyRow(s) /\ sync[r].pc = "set" /\ Stored(s, sync[r].next, rows[s].bound)
          /\ sync[r].next \in ActiveStates
      BY <2>2, <2>5 DEF Setting
    <3>2. facts' = facts
      BY <2>4, <3>1, FactsMove DEF Stored
    <3>3. shown'[s] = "active" /\ shown[s] \in {"active", "ended"}
      BY <2>3, <3>1, StatesApart DEF Seeing, Stored
    <3>4. CASE shown[s] = "active"
      <4>1. shown' = shown
        BY <2>4, <3>1, <3>3, <3>4 DEF shown
      <4> QED BY <1>1, <2>4, <3>1, <3>2, <4>1 DEF Promised
    <3>5. CASE shown[s] = "ended"
      <4>1. ~ Sole
        <5>1. rows[s].state \in TerminalStates
          BY <2>3, <3>5 DEF Seeing
        <5> QED BY <1>1, <2>2, <3>1, <5>1 DEF TakenUpInv, Deciding
      <4>2. Contract!Revive(s)
        BY <1>1, <2>4, <3>1, <3>2, <3>3, <3>5, <4>1 DEF Contract!Revive, Contract!Show
      <4> QED BY <4>2 DEF Promised, Contract!Next
    <3> QED BY <3>3, <3>4, <3>5
  <2>6. CASE Ending(r)
    <3>1. OnlyRow(s) /\ Over(s) /\ \E state \in TerminalStates : Stored(s, state, rows[s].bound)
      BY <1>1, <2>2, <2>6 DEF Ending, LoopInv
    <3>2. facts' = facts
      BY <2>4, <3>1, FactsMove DEF Stored
    <3>3. shown'[s] = "ended" /\ shown[s] \in {"active", "ended"} /\ work[s] = "over"
      BY <2>3, <3>1, StatesApart DEF Seeing, Stored
    <3>4. CASE shown[s] = "ended"
      <4>1. shown' = shown
        BY <2>4, <3>1, <3>3, <3>4 DEF shown
      <4> QED BY <1>1, <2>4, <3>1, <3>2, <4>1 DEF Promised
    <3>5. CASE shown[s] = "active"
      <4>1. Contract!End(s)
        BY <1>1, <2>4, <3>1, <3>2, <3>3, <3>5 DEF Contract!End, Contract!Show
      <4> QED BY <4>1 DEF Promised, Contract!Next
    <3> QED BY <3>3, <3>4, <3>5
  <2>7. CASE Binding(r)
    <3>1. /\ OnlyRow(s) /\ Submitted(s) /\ Stored(s, "pending", TRUE)
          /\ Sole => rows[s].state \notin TerminalStates
      BY <1>1, <2>2, <2>7 DEF Binding, LoopInv, TakenUpInv, Deciding, CrdSteps
    <3>2. facts' = [facts EXCEPT ![s].bound = TRUE]
      BY <2>4, <3>1, FactsMove DEF Stored
    <3>3. /\ shown'[s] = "active" /\ shown[s] # "absent" /\ work[s] # "none"
          /\ Sole => shown[s] = "active"
      BY <2>3, <3>1 DEF Seeing, Stored, TerminalStates
    <3>4. Contract!Bind(s)
      BY <1>1, <2>4, <3>1, <3>2, <3>3 DEF Contract!Bind, Contract!Show, Contract!Touchable
    <3> QED BY <3>4 DEF Promised, Contract!Next
  <2>8. CASE Starting(r)
    <3>1. /\ OnlyRow(s) /\ Submitted(s) /\ sync[r].pc = "run"
          /\ rows'[s].state = "running" /\ rows'[s].started = TRUE
          /\ rows'[s].bound = rows[s].bound /\ rows'[s].addr = rows[s].addr
      BY <1>1, <2>2, <2>8 DEF Starting, HeldInv
    <3>2. /\ Alone => ~ rows[s].started
          /\ Sole => rows[s].state \notin TerminalStates
      BY <1>1, <2>2, <3>1 DEF LoneInv, TakenUpInv, Deciding
    <3>3. facts' = [facts EXCEPT ![s].started = TRUE]
      BY <2>4, <3>1, FactsMove
    <3>4. /\ shown'[s] = "active" /\ shown[s] # "absent" /\ work[s] # "none"
          /\ Alone => ~ facts[s].started
          /\ Sole => shown[s] = "active"
      BY <2>3, <3>1, <3>2 DEF Seeing, TerminalStates
    <3>5. Contract!Start(s)
      BY <1>1, <2>4, <3>1, <3>3, <3>4 DEF Contract!Start, Contract!Show, Contract!Touchable
    <3> QED BY <3>5 DEF Promised, Contract!Next
  <2>9. CASE Addressing(r)
    <3>1. /\ OnlyRow(s) /\ rows[s].started
          /\ rows'[s].state = rows[s].state /\ rows'[s].addr = TRUE
          /\ rows'[s].bound = rows[s].bound /\ rows'[s].started = rows[s].started
      BY <1>1, <2>2, <2>9 DEF Addressing, TransitionInv, TransitionSteps
    <3>2. facts' = [facts EXCEPT ![s].addr = TRUE]
      BY <2>4, <3>1, FactsMove
    <3>3. facts[s].started
      BY <2>3, <3>1 DEF Seeing
    <3>4. shown' = shown
      BY <2>4, <3>1, MappedStays
    <3>5. Contract!Address(s)
      BY <1>1, <2>4, <3>1, <3>2, <3>3, <3>4 DEF Contract!Address
    <3> QED BY <3>5 DEF Promised, Contract!Next
  <2>10. CASE UNCHANGED rows
    <3>1. shown' = shown /\ facts' = facts /\ facts[s].started = rows[s].started
      BY <2>3, <2>10, MappedStays DEF Seeing
    <3>2. CASE OpeningBill(r)
      <4>1. /\ rows[s].started /\ UNCHANGED services /\ usage' = [usage EXCEPT ![s].open = @ + 1]
            /\ Alone => usage[s].open + usage[s].closed = 0
        BY <1>1, <2>2, <3>2 DEF OpeningBill, TransitionInv, TransitionSteps, LoneInv
      <4>2. Contract!OpenBill(s)
        BY <1>1, <3>1, <4>1 DEF Contract!OpenBill
      <4> QED BY <4>2 DEF Promised, Contract!Next
    <3>3. CASE ClosingBill(r)
      <4>1. /\ Over(s) /\ UNCHANGED services
            /\ usage' = [usage EXCEPT ![s] = [open |-> 0, closed |-> @.closed + @.open]]
        BY <1>1, <2>2, <3>3 DEF ClosingBill, HeldInv
      <4>2. Contract!CloseBill(s)
        BY <1>1, <2>3, <3>1, <4>1 DEF Contract!CloseBill, Seeing
      <4> QED BY <4>2 DEF Promised, Contract!Next
    <3>4. CASE Exposing(r)
      <4>1. rows[s].started /\ UNCHANGED usage /\ services' = [services EXCEPT ![s] = TRUE]
        BY <1>1, <2>2, <3>4 DEF Exposing, TransitionInv, TransitionSteps
      <4>2. Contract!Expose(s)
        BY <1>1, <3>1, <4>1 DEF Contract!Expose
      <4> QED BY <4>2 DEF Promised, Contract!Next
    <3>5. CASE Withdrawing(r)
      <4>1. Over(s) /\ UNCHANGED usage /\ services' = [services EXCEPT ![s] = FALSE]
        BY <1>1, <2>2, <3>5 DEF Withdrawing, HeldInv
      <4>2. Contract!Withdraw(s)
        BY <1>1, <2>3, <3>1, <4>1 DEF Contract!Withdraw, Seeing
      <4> QED BY <4>2 DEF Promised, Contract!Next
    <3>6. CASE UNCHANGED <<usage, services>>
      BY <1>3, <2>10, <3>6
    <3> QED BY <1>1, <2>10, <3>2, <3>3, <3>4, <3>5, <3>6
            DEF Effects, Setting, Ending, Binding, Starting, Addressing, OnlyRow
  <2> QED BY <1>1, <2>5, <2>6, <2>7, <2>8, <2>9, <2>10
          DEF Effects, OpeningBill, ClosingBill, Exposing, Withdrawing
<1> QED BY <1>2, <1>3

\* The control plane keeps the contract for every number of sessions and replicas,
\* on either backend, whatever calls fail and processes die, as long as a session
\* whose creation on K8s is reported as failed was not created after all.
THEOREM KeepsTheContract == ASSUME Truthful PROVE Spec => ImplementsContract
<1>1. Init => Contract!Init
  BY DEF Init, StoreInit, ClusterInit, RoutesInit, SyncInit, Contract!Init, work, shown, facts,
         EndedJobStates
<1>2. IInv /\ HandInv /\ StartInv /\ (Sole => SoleInv) /\ (Alone => AloneInv) /\ [Next]_vars
         => [Contract!Next]_(Contract!vars)
  <2> SUFFICES ASSUME IInv, HandInv, StartInv, Sole => SoleInv, Alone => AloneInv, [Next]_vars
               PROVE  Promised
    BY DEF Promised, Contract!vars
  <2>1. CASE UNCHANGED vars
    <3>1. UNCHANGED <<rows, usage, services, jobs>>
      BY <2>1 DEF vars, storeVars, clusterVars
    <3> QED BY <3>1, MappedStays DEF Promised
  <2> QED BY <2>1, RequestPromised, EnvironmentPromised, PollPromised DEF Next, Poll, Die
<1> QED BY <1>1, <1>2, Inductive, Holding, Provisioning, SoleHolds, Lone, PTL
        DEF Spec, ImplementsContract, Contract!Spec
=============================================================================
