--------------------------- MODULE SessionControl ---------------------------
(***************************************************************************)
(* The session control plane of spur-cloud: the request handlers and the   *)
(* sync loops of every API replica, over one database and one Spur         *)
(* cluster, with what must hold of a session, its job and its bill.        *)
(***************************************************************************)
EXTENDS SessionRoutes, SyncLoop

vars == <<storeVars, clusterVars, routeVars, syncVars>>

Init == StoreInit /\ ClusterInit /\ RoutesInit /\ SyncInit

Request(s) == RouteStep(s) /\ UNCHANGED syncVars
Poll(r) == SyncStep(r) /\ UNCHANGED routeVars
Die(r) == Crash(r) /\ UNCHANGED routeVars
Environment(s) ==
    /\ SpurStep(s) \/ OperatorStep(s) \/ PodProgress(s)
    /\ UNCHANGED <<storeVars, routeVars, syncVars>>

Next ==
    \/ \E s \in Sessions : Request(s) \/ Environment(s)
    \/ \E r \in Replicas : Poll(r) \/ Die(r)

Spec == Init /\ [][Next]_vars

(***************************************************************************)
(* Some loop ticks again and every call in it returns; the calls have no   *)
(* timeout, and the other loops may hang in one for good.  A handler whose *)
(* client stays runs on; the operator acts on what it sees; a job that was *)
(* told to stop, or is winding down, ends.  Nothing else makes a job end.  *)
(***************************************************************************)
Fairness ==
    /\ \E r \in Replicas : WF_vars(Poll(r))
    /\ \A s \in Sessions :
          /\ WF_vars(CreateStep(s) /\ UNCHANGED syncVars)
          /\ WF_vars(DeleteStep(s) /\ UNCHANGED syncVars)
          /\ WF_vars(OperatorStep(s) /\ UNCHANGED <<storeVars, routeVars, syncVars>>)
          /\ WF_vars(/\ jobs[s].cancel \/ jobs[s].state = "JobCompleting"
                     /\ EndJob(s)
                     /\ UNCHANGED <<storeVars, routeVars, syncVars>>)

FairSpec == Spec /\ Fairness

----------------------------------------------------------------------------
(* The contract *)

\* One loop runs and nobody deletes.
Sole == (\A q, r \in Replicas : q = r) /\ MaxDeletes = 0

\* Besides, the host is a native one and nothing is requeued.
Alone == Sole /\ Backend = "native_host" /\ MaxRequeues = 0

work == [s \in Sessions |->
            IF Over(s) THEN "over" ELSE IF Submitted(s) THEN "live" ELSE "none"]

shown == [s \in Sessions |->
             IF rows[s].state = "absent" THEN "absent"
             ELSE IF is_terminal(rows[s].state) THEN "ended" ELSE "active"]

facts == [s \in Sessions |->
             [bound |-> rows[s].bound, started |-> rows[s].started, addr |-> rows[s].addr]]

Contract == INSTANCE SessionContract WITH bill <- usage, service <- services

\* Whatever loops, handlers and crashes do, work, row, bill and service of a
\* session change as SessionContract allows: nothing is billed or exposed before the
\* start or taken back before the end, no record is lost, with a single loop and no
\* deletes a session ends once, and on a native host without requeues it also starts
\* and is billed once (main.rs:238-469).
ImplementsContract == Contract!Spec

----------------------------------------------------------------------------
(* Safety *)

\* Every variable holds what the code can store in it.
TypeOK == StoreTypeOK /\ ClusterTypeOK /\ RoutesTypeOK /\ SyncTypeOK

\* A session that knows its job is only shown as ended when that job is over,
\* whatever snapshot the loop that ended it was working on (main.rs:432-438,
\* sessions.rs:187-189): otherwise the job runs on with nobody polling it.
EndedMeansJobOver ==
    \A s \in Sessions : rows[s].bound /\ is_terminal(rows[s].state) => Over(s)

\* The final state a native-host session is given is the verdict on its own
\* job, completed, failed or cancelled by a signal (issue #40, main.rs:387-399);
\* 'failed' also stands for a job the scheduler no longer knows.
VerdictMatchesJob ==
    \A s \in Sessions :
       Backend = "native_host" /\ rows[s].bound /\ is_terminal(rows[s].state) =>
         LET cancelled ==
               \/ jobs[s].state = "JobCancelled"
               \/ jobs[s].exit = "signal" /\ jobs[s].state \in {"JobCompleted", "JobFailed"}
             completed == jobs[s].state = "JobCompleted" /\ jobs[s].exit = "zero"
         IN \/ rows[s].state = "cancelled" /\ cancelled
            \/ rows[s].state = "completed" /\ completed
            \/ rows[s].state = "failed" /\ ~ cancelled /\ ~ completed
            \/ rows[s].state = "failed" /\ ~ jobs[s].known

Billed(s) == usage[s].open + usage[s].closed > 0

\* What is provisioned for a running session comes after its row says so: no
\* bill, address or ssh service for a session that never started, and no bill
\* for a native-host session with SSH before its address is stored (main.rs:246-301).
StartedFirst ==
    \A s \in Sessions :
       /\ Billed(s) \/ rows[s].addr \/ services[s] => rows[s].started
       /\ Billed(s) /\ SshEnabled[s] /\ Backend = "native_host" => rows[s].addr

\* A session is billed at most once: a second record counts its GPU seconds
\* twice (billing_repo.rs:42-47, the sum of billing_repo.rs:105-153).
SingleBilling == \A s \in Sessions : usage[s].open + usage[s].closed <= 1

\* As long as no call fails and no process dies, a session shown as running is
\* billed, or a loop is about to do it (transition_session_to_running,
\* main.rs:238-301).
RunningIsBilled ==
    \A s \in Sessions : rows[s].state = "running" /\ faults = 0 =>
       \/ Billed(s)
       \/ \E r \in Replicas : sync[r].cur = s /\ sync[r].pc \in {"svc", "ssh", "bill"}

\* The sessions of a user that hold GPUs, or will without asking again.
Committed(u) ==
    {s \in Sessions :
        /\ Owner[s] = u
        /\ \/ Live(s)
           \/ ~ Submitted(s) /\ (creator[s] = "submit" \/ crd[s].exists)}

\* Nothing holds the count of sessions.rs:62 and the insert of sessions.rs:108
\* together, and a failed count is taken for zero.  But the quota of a user (issue
\* #36) is overrun by no more than one session for each other creation that may be
\* in progress and one for each failure; what the rest hold is within it.
OverrunIsBounded ==
    \A u \in Users : MaxGpus[u] # NoQuota =>
       \E beyond \in SUBSET Committed(u) :
          /\ Cardinality(beyond) < MaxInFlight + faults
          /\ Cardinality(Gpus(Committed(u) \ beyond)) <= MaxGpus[u]

\* As long as no call fails, a job in the scheduler is one its session knows once
\* the native-host creation was answered, whatever deletes came in between: it can
\* be followed and cancelled (sessions.rs:226-229).
NoOrphanJob ==
    \A s \in Sessions :
       Backend = "native_host" /\ creator[s] = "replied" /\ Submitted(s) /\ faults = 0
         => rows[s].bound

----------------------------------------------------------------------------
(* Liveness *)

\* The end of a job the control plane knows ends its session (main.rs:309-469).
JobEndIsNoticed ==
    \A s \in Sessions :
       rows[s].bound /\ Over(s) ~> is_terminal(rows[s].state)

\* A session shown as ended is shown as active again by a loop that read its job
\* before the end, or by a DELETE, which looks at no state (main.rs:417-428,
\* session_repo.rs:98).  But once its job is over it ends again, and then for good.
EndLasts ==
    \A s \in Sessions :
       rows[s].bound /\ Over(s) ~> [](is_terminal(rows[s].state))

\* The bill of a session whose job is over is closed (billing_repo.rs:59), unless
\* a call failed: the terminal branch is gone through only once.
BillingCloses ==
    \A s \in Sessions :
       Over(s) /\ usage[s].open > 0 ~> usage[s].open = 0 \/ faults > 0

\* The ssh service of a session whose job is over is deleted (main.rs:444-458),
\* unless a call failed.
ServiceIsRemoved ==
    \A s \in Sessions : Over(s) /\ services[s] ~> ~ services[s] \/ faults > 0

\* A session being stopped comes to an end (sessions.rs:290).
StoppingTerminates ==
    \A s \in Sessions : rows[s].state = "stopping" ~> is_terminal(rows[s].state)

\* A session whose job runs for good, its pod ready, is in the end shown as
\* running for good (README.md:62), unless it was ended meanwhile: whether it may be
\* is EndedMeansJobOver.
RunningIsDetected ==
    \A s \in Sessions :
       <>[](/\ rows[s].bound /\ jobs[s].state = "JobRunning"
            /\ ~ is_terminal(rows[s].state)
            /\ Backend = "k8s" => pods[s] = "ready")
         => <>[](rows[s].state = "running")
=============================================================================
