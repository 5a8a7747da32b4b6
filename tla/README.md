# A TLA+ model of spur-cloud

spur-cloud rents GPU sessions on a Spur (Slurm-like) cluster. A web client talks
to an API server, of which the deployment runs two replicas
(`src/deploy/k8s/gpuaas-api.yaml:20`) over one PostgreSQL database. A session is a
database row and a Spur job. The job is submitted directly on a *native host*, or
by an operator that acts on a `SpurJob` resource on *K8s*. What this project models
is the part that can go wrong without any single function being wrong: request
handlers, background loops, the scheduler and the browser, each moving between the
awaits of the others.

Paths below are relative to `src/crates/spur-cloud-api/src/` unless they start with
`src/`.

## The system

| part | state it keeps | operations | talks to |
|---|---|---|---|
| session vocabulary (`src/crates/spur-cloud-common/src/session_types.rs`) | none | parse and classify session states | everything |
| session and usage tables (`db/session_repo.rs`, `db/billing_repo.rs`) | `sessions`, `usage_records` | one SQL statement per function | handlers, loops |
| session routes (`routes/sessions.rs`) | none between requests | POST creates a session, DELETE stops it; two GETs | tables, Spur, K8s |
| sync loop (`main.rs:100-470`) | the snapshot of one tick | follow each active session's job or resource; start and end sessions, bills, ssh services | tables, Spur, K8s |
| Spur client, SpurJob and ssh services (`spur_client.rs`, `ssh/service_manager.rs`) | none of its own: the cluster's | submit, cancel and look up jobs; create, read and delete resources and services | spurctld, K8s API |
| GPU capacity (`spur_client.rs:386-496`, `routes/gpus.rs`) | none | add up the GPUs of all nodes | spurctld; POST reads the result |
| terminal bridge (`terminal/ws_handler.rs`, `routes/ws.rs`) | one handler and two tasks per connection | copy between a WebSocket and a shell | browser, kube exec or the Spur agent |
| update check (`update.rs`) | a cache file | ask GitHub for a newer version at start-up and on request | file system, GitHub |
| accounts, login, OAuth (`auth/`, `routes/auth.rs`, `db/user_repo.rs`) | `users`; the tokens clients hold | register, log in, upsert from a provider, refresh | tables, GitHub, Okta |
| profile and SSH keys (`routes/users.rs`, `db/ssh_key_repo.rs`) | `ssh_keys` | list, add and delete keys | tables |
| billing and admin queries (`routes/billing.rs`, `routes/admin.rs`) | none | summaries; set a quota | tables |
| start-up and configuration (`main.rs:41-122`, `db/migrations.rs`, `config.rs`, `state.rs`, `routes/mod.rs`) | which call of `main()` a process is at; the schema | read the file, spawn the update check, connect, migrate, spawn the loop, serve | everything; other processes over the schema |
| web client (`src/frontend/src/`) | per browser: a token, a cookie; per tab: React state | log in and out, poll, create, delete, open a terminal | the API |

How they interact: handlers and loops share only the database and the cluster, and
no statement looks at the state of the row it overwrites. A loop works on a
snapshot, so what it writes is decided several awaits before it is written. The hard behaviours
are these interleavings across replicas, calls that fail or whose answer is
lost, processes and clients that go away between two awaits; in a terminal, two
tasks that end independently while they share a socket; at start-up, processes that
migrate one database together; and, in a browser, answers that arrive after the page,
the login or another tab has moved on.

What makes each part correct:

* sessions: an ended session has an ended job, with the verdict of that job; a job
  that ends is noticed, and its session is ended for good in the end; a stopping one stops;
* billing: one record per session, opened after it started, closed after it ended;
* provisioning: no address or ssh service before the session runs, none after;
* creation: the quota is overrun by no more than what overlaps or fails, and no job is
  left that its session does not know;
* capacity: no more is offered than nodes have left;
* terminal: no output is lost, and sockets are released;
* accounts: an identity keeps its account, an address has one password, a quota
  reaches every account of an address;
* start-up: nothing is served before the database is migrated, every process comes to
  serve, and the update check says what is true without asking too often;
* web client: a login that is dead is left without a circle of redirects, a page shows
  the end of its session, and the return of a login through a provider is refused only
  when another one overtook it or it took too long.

## Modules

```
SessionTypes          vocabulary: states, verdicts
  SessionStore        the two tables, one operator per statement
  SpurCluster         the calls to spurctld and K8s, and what those do themselves (external)
    SessionRoutes     POST and DELETE, await by await
    SyncLoop          one loop per replica, await by await; crashes
      SessionControl  the composition, its fairness and its properties
        MCSessionControl       values for TLC
        SessionControlProofs   IInv: types, and the end of a job before that of its session;
                               StartInv: the start before what is provisioned
          OutcomeProofs        the effects of every step; HandInv; verdicts; what holds
                               while nothing fails
            ContractProofs     AloneInv, SoleInv; the refinement of SessionContract;
                               QuotaInv: how far a quota is overrun
SessionContract       what the owner of a session is promised; SessionControl implements it
TerminalBridge        one terminal connection
  TerminalProofs      types, attempts, output
GpuCapacity           get_gpu_capacity over every answer of the scheduler
  GpuCapacityProofs   PoolInv: a pool and what its nodes have left
Accounts              the users table and the tokens
  MCAccounts          values for TLC
  AccountsProofs      IInv and the theorems about accounts
Startup               main(), the migrations and the update check of several processes
  MCStartup           values for TLC
  StartupProofs       the order of migrations; CheckInv: what an update check knows
WebClient             the tabs of one browser and what they share
  MCWebClient         values for TLC
  WebClientProofs     BrowserInv: the cookie is the last login that was started, or gone
```

**SessionStore.** `rows[s]` is the row of a session: its state, whether
`spur_job_id` (`bound`), `started_at` (`started`) and the ssh address (`addr`) are
set. `usage[s]` counts its usage records without and with an end time. Each
repository function is one atomic statement, written as the table it leaves;
`record_usage_start` adds a record on every call because its
`ON CONFLICT DO NOTHING` has no unique key besides a generated id. `faults` counts
failures, at most `MaxFaults`; every call that can fail has a disjunct that spends
one.

**SpurCluster.** External: `jobs[s]` is what the scheduler knows of the session's
job, `crd[s]` the SpurJob and its published status, `pods[s]` the readiness of its
pod, `services[s]` its ssh service. A job that is over stays over; a running one may
be requeued (`MaxRequeues`), suspended, wind down, or end in any way in `Endings`;
one that is over may be forgotten (`Forgetful`). With `LostReplies` the creation of
a job, resource or service can succeed and still report an error. The operator
submits, publishes (the id and the node may come later than the state) and cancels
the job of a deleted resource.

**SessionRoutes.** `creator[s]` and `deleter[s]` are the program counters of the
POST and DELETE handlers: `quota`, `capacity`, `insert`, `submit`, `bind`, `fail`,
and `cancel`, `mark`. Each step is one await with its error path. A future is
dropped when the client hangs up (`AbandonCreate`, `AbandonDelete`).

**SyncLoop.** `sync[r]` is the loop of replica `r`: the rest of its snapshot
(`seen`), the session it is at (`cur`), the await it stands at (`pc`) and the state
it decided on (`next`). `SyncList` is a tick; `GetJob`, `PodCheck`, `SetState`,
`SetFailed`, `SetEnded`, `BillEnd`, `DeleteService` are the awaits of the loop body;
`SetRunning`, `CreateService`, `SetSsh`, `BillStart` those of
`transition_session_to_running`; `GetCrd`, `CrdBind`, `CrdPodCheck`, `CrdEnded`
those of `handle_k8s_crd_session`. The readiness of a pod has three answers: ready,
not ready, and an error, which a missing pod is too. On an error `PodCheck` leaves the
session as it is (`main.rs:377-380`), while `CrdPodCheck` takes it for not ready
(`main.rs:165-200`). `Crash` loses the snapshot. The order in which a snapshot is worked
through is arbitrary.

**SessionContract.** The abstract specification: a machine with the work done for a
session (none, live, over), what is shown of it (absent, active, ended), the facts
stored about it, its bill and its service, and no handlers, loops, replicas or
backends. It promises that work is done once and only for a session that exists; that
a session which knows its job ends after the job; that start, bill, address and
service come after the job exists and in their order; that nothing is taken back
before the end and no usage record is lost. Under `Sole` (one loop, no deletes) it
promises also that a session which ended is left as it is, and under `Alone` (besides, a
native host and no requeues) that a session is started and billed once: these are the
promises a second loop or a DELETE breaks, as `double_billing` shows. `SessionControl` maps `work`, `shown` and
`facts` from the scheduler's table and the row, and states `ImplementsContract`. The
contract has no code of its own, so the map of definitions to source leaves it out.

**TerminalBridge.** One connection: `handler` is `handle_terminal` or
`handle_terminal_spur`, `stdin` and `stdout` its two tasks, `client` the browser's
end of the socket, `inbox` and `output` what is under way in each direction, and `pipe`
what was written to the shell and not read. `ReadInput` takes a message in hand,
`WriteInput` writes it: neither `write_all` nor the channel's `send` has a timeout, so
the input task waits as long as a live shell leaves the pipe full, and reads nothing else
meanwhile. The backend is chosen in `Init`. `FinishEither` is the `select!` over the two join
handles, which detaches the task that still runs. Connections share nothing.

**GpuCapacity.** `CountNode` is one turn of the loop, for the nodes in any order;
`ComputeAvailable` the loop after it. `Init` ranges over every answer three nodes
can give, also one whose allocations contradict its totals.

**Accounts.** `users` is the set of ids in the table, `row` their rows, `tokens` the
tokens that have not expired. Each handler changes the table by one statement, which
the database runs atomically, so each handler is one action: `Register`, `Login`,
`GithubCallback`, `OktaCallback`, `Refresh`, `SetUserQuota`; `Hour` is the expiry of
tokens. `Login` reads a row and issues its token awaits later, but nothing rewrites
what it took from the row of a registered account. A handler that
answers with an error changes nothing. An email is a spelling; `Lower` and `Trim`
map it to the lower-case one and the one without blanks.

**Startup.** `up[p]` is the call of `main()` process `p` stands at. `Connect` is each
of its fallible calls, `Migrate` one statement of `run_migrations`; `Exit` is the `?`
that ends the process, `Boot` its supervisor. `CREATE TABLE IF NOT EXISTS` is two
steps, because PostgreSQL looks before it creates and the second of two such
statements fails (`FindTable`, `CreateTable`); `ALTER TABLE` takes its lock first.
The update check runs beside: `ReadCache`, `Query`, `StoreAnswer`, over a cache file
that a `Kill` may tear. `Stop` restarts a serving process, also with a newer release.
`verdict` records what a check said and when, for the properties only.

**WebClient.** The token in `localStorage` (`stored`) and the `oauth_state` cookie
belong to all tabs; `late` says that the cookie of the last login has expired (`Lapse`,
`Max-Age=600`); `tab[t]` is the page of a tab, what it found in the fragment, the
provider login it is at and what it shows of a session; `call[t]` its requests under
way. Whether a tab has a React token is in its page: `ProtectedRoute` and the login
page keep the two in step. `Load` is a document that starts, with the effects in
React's order; `Refuse` is a 401, to whichever request; `Visit`, `Fail` and `Leaving`
are pages that are replaced while their requests go on. A tab that comes back from a
provider shows the `400` of `validate_state` (page `refused`, whether the cookie is another
one or gone) or another bare error (`error`, by `FlowFails`: a provider that cannot be
reached, an answer that is not understood, a failed upsert). A verdict that no later step
takes back (a 401 stays a 401), and an answer that says nothing of what changes, is
given and handled in one step; what a poll says of a session is read in one step and
shown in a later one.

Operators commented as *broken form* are not used: each is a plausible bug in the
code it stands next to, and shows that a property would notice it.

## What the runs check

All runs disable deadlock checking: when no session is active and the budgets are
spent, the real system has nothing to do either.

| run | system | properties |
|---|---|---|
| `native_core` | native host, 1 session, 2 replicas of which one may hang, 1 failure anywhere, a requeue, a DELETE at any time and in any state, a forgetful scheduler, lost replies | `TypeOK`, `EndedMeansJobOver`, `RunningIsBilled`, `NoOrphanJob`, `ImplementsContract`, `EndLasts` |
| `native_quiet` | native host, 3 sessions of one user with 2 GPUs each, 2 of them being created at once, quota 3, 1 replica, 1 failure, lost replies, a forgetful scheduler, no delete, no requeue: the system is `Alone` | `VerdictMatchesJob`, `SingleBilling`, `OverrunIsBounded`, `ImplementsContract` |
| `k8s_live` | K8s, 1 replica, 1 failure or lost reply, 1 requeue | `StartedFirst`, `RunningIsDetected`, `JobEndIsNoticed`, `BillingCloses`, `ServiceIsRemoved` |
| `terminal` | one connection, either backend, a shell that may not read | `TypeOK`, `OutputIsDrained`, `VanishedIsNoticed`, `ClosedIsReleased`, `JobEndReleases`, `ShellEndReleases` |
| `gpu_capacity` | every answer of three nodes | `TypeOK`, `PoolMatchesNodes`, `NeverOverstated` |
| `accounts` | 3 accounts, 1 identity of each provider, 1 address in 3 spellings | `TypeOK`, `OnePasswordPerAddress`, `AdminComesFromOkta`, `IdentityKeepsItsAccount`, `QuotaReachesEverySpelling` |
| `startup` | 2 processes, 1 of them with its update check, 1 failure, 1 restart, 2 releases, 3 ticks of half an hour | `TypeOK`, `ServingHasSchema`, `SchemaInOrder`, `VerdictIsRecent`, `OneAnswerPerHour`, `EveryoneServes` |
| `web_client` | 2 tabs, 2 tokens, 2 logins through a provider, overlapping polls in one tab, 1 failure (a request or a login) or expiry of the cookie | `TypeOK`, `RefusedOnlyWhenOvertakenOrLate`, `DeadLoginSettles`, `EndIsShown` |

`native_core` checks the part of the contract that every deployment keeps,
`native_quiet` the whole of it. `EndLasts` holds in `native_core` although a loop that is
behind, or a DELETE of a session that has ended, makes it active again, and although a
call of one replica may never return: once the job is over the session ends, again if
need be, and then for good. Such a session is unbilled, and may be billed, a second
time: what a second loop does to a bill is `double_billing`.

Four runs end in a counterexample, and show where the code departs from what its
comments say:

* `double_billing` (`SingleBilling`): both replicas list the session while it is
  pending and both run the transition; the second `INSERT` conflicts with nothing
  (`db/billing_repo.rs:46`), and summaries add the two records up.
* `bill_left_open` (`BillingCloses`): the branch for a job the scheduler has
  forgotten (`main.rs:342`) fails the session without closing its bill, and the
  session is never looked at again.
* `delete_during_create` (`StoppingTerminates`): a DELETE that reads the row before
  the job id is stored cancels nothing; then `update_session_spur_job` overwrites
  its `stopping`, or its `stopping` is taken back to `running`.
* `email_case` (`RegistrantIsFound`): the provider callbacks store emails as they
  come (`auth/github.rs:164`, `auth/okta.rs:138`), and the column's `UNIQUE` compares
  spellings. Next to a registered `alice@x` there may be an `Alice@x`; the lookup of
  a login then returns either, and a correct password may be refused.

The conditions and bounds of the passing runs mark further limits of the code.
`RunningIsBilled` and `NoOrphanJob` are about behaviours without failure: a failure
after the row says running is never made up for, and a creation that dies between
submitting and binding leaves a job nobody follows. The quota itself is not kept:
counting and inserting are two statements, so creations in progress together are admitted
on the same count, a failed count is taken for zero, and a session that was given up
although its job runs is not counted. `OverrunIsBounded` says how far this goes: what a
user's sessions hold on the cluster, or will hold without another check, is within the
quota but for one session for each other creation in progress (`MaxInFlight`) and one for
each failure. It counts jobs, not rows, so a row that is made active again does not
matter. A session that is `stopping` is not promised to end,
as `delete_during_create` shows; one whose job is over is. On K8s, a DELETE before the loop stored the job id removes the
only thing the loop follows, and the session stays `stopping`.
`EndedMeansJobOver` on K8s needs creations that report truthfully; there it is
proved rather than run (`EndsWithItsJob`). Not shown by a run either: an error of the
creation on K8s that leaves a failed session with a running job, and the ssh service
that the branch for a forgotten job leaves behind.
In a terminal on K8s, a shell that ended is found out only by a key or by leaving
the page; a ping, unlike data, waits without a timeout (`terminal/ws_handler.rs:143`);
a client that vanishes after the output task ended is never found out. A shell that
reads no more holds the input task in a write (`terminal/ws_handler.rs:91`): on K8s
nothing then tells that task that the client left, which the properties except by name
(`Deaf`); on a native host the output task finds it out, and its end cancels the call.
In the browser, a 401 clears whatever token is stored when it arrives, so a request
sent with an old token, or a wrong password in another tab, ends a newer login. And a
browser that stores no token loses the one a provider login brings: React runs the
effects of children first, `ProtectedRoute` navigates to `/login`, and the fragment is
gone when `App` looks for it (`src/frontend/src/App.tsx:49`); `Load` models both. A
provider login that takes more than ten minutes finds no cookie and is refused though
nothing overtook it (`auth/github.rs:58`, `auth/oidc_common.rs:125`).
`VerdictIsRecent` allows the update check to speak of the version that ran within the
last hour, because the cache outlives an upgrade.

### Bounds, and why they are enough

* Sessions: the code never relates two sessions of one user except through the
  quota and the capacity, so the others have one and `native_quiet` three: two that are
  created at once, and one more that a failure lets through. They have two GPUs each and the
  quota is three, so that one fits and the rest of the quota is no room for another. The
  three are alike (owner, GPUs, ssh), no definition orders or picks among them, and the
  properties of the run are safety properties, so they are declared symmetric.
* Creations of a user in progress: two, one admitted while another has counted and
  not stored.
* Replicas: interference is between a loop and one that holds an older snapshot: two.
* Failures: one, anywhere, including a crash or a lost answer. A fault is never
  answered by a retry of the same call, so one is enough to leave each sequence of
  writes unfinished at every place.
* Requeues and deletes: one each; one requeue sends a job through its states again. In
  `native_core` a DELETE may come in every state, so also after the end.
* Endings: `native_quiet` has a job that completes, one that a signal ends although the
  scheduler calls it failed, and one that is forgotten, which gives each of the three
  verdicts; in `native_core` and `k8s_live` a job ends in one way, because nothing but the
  verdict depends on it.
* `GpuCount` is 0 in `k8s_live`, where the two checks of POST decide nothing; 1 or 2
  elsewhere.
* Terminal: two messages and two chunks under way, two stalls: enough for a message
  or chunk behind the one that ends a task, and for a stall before and after. The pipe
  takes one message, so that it is full as soon as the shell does not read.
* Accounts: three, so that a registered one and one of each provider compete for an
  address and for three user names; tokens live two hours and two are held at once,
  enough for one and its refresh. `MaxTokens` bounds nothing the properties look at.
* Capacity: three nodes of up to two GPUs, so that a deficit on one node can be
  hidden by two others. Types do not interact.
* Start-up: two processes collide in every migration. The checks of two processes
  share nothing, so one has its check off. The hour of `CACHE_TTL_HOURS` is two ticks,
  so that an entry can be younger, as old and older; a start and a request are over
  within a tick. One failure is enough for one process to die between any two
  statements; collisions are not counted as failures.
* Web client: `Calls` lets two requests overlap in the tab that watches a session
  (`Viewers`); the other tab is there to log in, log out, expire and be refused beside
  it. Two tokens are an old and a newer login; two provider logins are one that is
  overtaken and the one that overtakes it. One failure is a poll without a verdict, a
  provider login that fails, or a cookie that expires before its login is back.

### Fairness

* `\E r : WF(Poll(r))`: of the loops, which tick every few seconds, one is live. The
  code sets no timeouts on its calls, so the others may hang in one for good.
* `WF(CreateStep)`, `WF(DeleteStep)`: a handler's future is polled to its end.
  Nothing makes a user send a request.
* `WF(OperatorStep)`: the operator acts on the resources it sees.
* A job ends only when it was cancelled or is winding down (`WF` on that); nothing
  else makes a job start, get ready or end.
* Terminal: tasks whose await is over are scheduled; `select!` picks at random among
  ready branches, hence `SF` for reading output and for the 30 s tick. The page polls
  and sends its keepalive. No key, departure or resumption is assumed, and
  no shell reads of necessity.
* Start-up: a process that is down is started again and its calls return
  (`WF(Run(p))`); nothing makes the update check, a restart or a release happen.
* Web client: documents load, the timer of a page fires, requests are answered and
  answers arrive (`WF(Load \/ Poll)`, `WF(Serve \/ Receive)`; of each pair only one can
  be enabled). The user does nothing of necessity, and no token expires or session
  ends of necessity.

A failure is an alternative outcome of the same step, so fairness never forces one.

## What is proved

For all values of the constants that meet the modules' assumptions (any number of
sessions, users, replicas, failures, requeues and deletes):

* `TypeCorrect`: `Spec => []TypeOK`.
* `EndsWithItsJob`: `Spec => []EndedMeansJobOver`, assuming `Truthful`: the backend
  is a native host, or no creation reports an error for something it created.
* `ProvisionedAfterStart`: `Spec => []StartedFirst`.
* `KeepsTheContract`: `Spec => ImplementsContract`, assuming `Truthful`: initial states
  map to initial states, every step to a step of `SessionContract` or a stutter.
* `OverrunBounded`: `Spec => []OverrunIsBounded`, without further assumptions: either
  backend, any loops, deletes, requeues, lost replies and creations in progress.
* `VerdictIsOfItsJob`, `RunningSessionsAreBilled`, `AnsweredJobsAreKnown`:
  `VerdictMatchesJob`, `RunningIsBilled` and `NoOrphanJob` are invariants.
* `AccountsTyped`, `OneAccountByPassword`, `AdministratorsComeFromOkta`,
  `IdentitiesKeepTheirAccounts`, `QuotasReachEverySpelling`: the properties of
  `accounts`, starting from an empty table.
* `BridgeTyped`, `NoOutputIsLost`: the types and `OutputIsDrained` of the terminal.
* `MigratedBeforeServing`, `MigratedInOrder`: `ServingHasSchema` and `SchemaInOrder`;
  `StartupTyped`, `VerdictsAreRecent`, `AnswersStandForAnHour`: the types, and
  `VerdictIsRecent` and `OneAnswerPerHour` of the update check.
* `PoolsTyped`, `PoolsNeverOverstate`, `PoolsAreExact`: the properties of `gpu_capacity`,
  for any finite set of nodes (`NodesAssumption`) and every answer of the scheduler.
* `BrowserTyped`, `OnlyOvertakenOrLateAreRefused`: the types of `WebClient` and
  `RefusedOnlyWhenOvertakenOrLate`.

`EndedMeansJobOver` is not inductive: a loop ends a session because of an answer it
got awaits ago. `IInv` therefore adds to the type invariant

* `JobInv(s)`: how far the creation handler has got decides what exists (nothing
  before `submit`; a job at `bind`); a bound row, a published id and an unknown job
  each imply what they should about the job; a published final word means the job is
  over;
* `LoopInv(r)`: what a loop knows at each await, above all that at `gone`, `end` and
  `crdEnd` the job of the current session is over, and that the snapshot only holds
  active rows.

The argument is that `Advance` holds of every step: a submitted job stays submitted,
and a job that is over stays over. What a loop knows is thus never invalidated by
the others, however old it is. There is one lemma per group of actions (scheduler,
operator, each handler, each part of the loop). Besides types, the proof uses
`CrdWordAssumption` (the operator publishes words `SessionState` knows; an
unknown one parses as `failed`) and `EndingsAssumption`.

`ProvisionedAfterStart` uses `StartInv`: what a loop at `svc`, `ssh` or `bill` knows
of the writes before. All steps but the four of the transition are dealt with at
once, by the lemma that they provision nothing and send no loop into it.

`OutcomeProofs` begins with what each step of a handler, of a loop or of the cluster
does to the session it is about, so that the proofs that follow need not open the actions
again, and proves `HandInv`: what a handler or a loop works on exists in the table,
and at the awaits that need it the job was submitted or is over.

`KeepsTheContract` maps each of these effects to one action of the contract; `IInv`,
`StartInv` and `HandInv` give the contract's guards. For the promises under `Alone` it
uses `AloneInv`: the row a loop is about to write is still the one it saw (`LoneInv`),
and a session goes through its states in one direction (`CourseInv`), so it enters the
transition once and is billed once. Neither survives a second loop, a DELETE or a requeue.

For the promises under `Sole` it cannot use `AloneInv`: on K8s the loop also follows
sessions that do not know their job, by the word of their resource, and a requeue sends a
session back. `SoleInv` says less, and lasts: at the awaits that lead to a write of the
state (`Deciding`) the row has not ended, and a row that ended after it was listed is one
whose resource is gone and whose job id the snapshot does not have, so that the loop passes
it by (`TakenUpInv`); before a creation was answered its row is `creating`, not bound and
without a resource (`UnansweredInv`), so that handler and loop do not meet. This needs
`Truthful`: if the creation of a resource reports an error for one it created, the handler
fails the session while the loop follows its resource. That a session is billed once, and
ended once, is thus proved only as a promise of the contract under these conditions, which
the two replicas of the manifest and the DELETE route do not meet: it is no theorem of its
own.

`OverrunIsBounded` is not inductive: the count a creation is admitted on is several awaits
old when its row is stored, and a session counts for the quota by its row while it holds
GPUs by its job. `QuotaInv` is about the sessions that claim GPUs (`Claims`): those whose
job lives or will be submitted without another check (`Committed`), and those that are
admitted and not stored. It says that all of them but fewer than `MaxInFlight + faults` are
within the quota; that the creations of a user in progress (`Busy`) are at most
`MaxInFlight`; and that the sessions that were given up while their job may live
(`Dropped`) are at most `faults`. An admission without a failure saw all claims but those
of the other busy creations and the dropped ones, so these are chosen as the sessions
beyond the quota, whatever was beyond it before (`AdmissionFits`). After an admission with
a failure, the new session is one more (`WithinMoves`). No other step adds a claim
(`OthersClaim`, `RequestClaims`): a loop that makes an ended session active again
changes its row and not its job. A user has made finitely many requests at any time
(`Requested`), so the sum is one.

Sums are counted: the GPUs of a set of sessions are the pairs of a session and a number
(`Gpus`), those that nodes have left the pairs of a node and a number (`Left`), and a sum
is the cardinality of such a set. The theorems of the library about finite sets then give
what a sum over one more member is worth, for which a fold would need induction over data.

`VerdictIsOfItsJob` uses `Outcomes`: at `end` the state a loop is about to write is
the verdict on the job, and stays so because a job that is over does not change
(`Frozen`). The other two use `Unfailed`: as long as no failure was spent, `running`
is written only by a loop that goes on to bill, and a handler that answers has bound.

In `StartupProofs` the invariant is that what a process has passed is in the schema
(`MainInv`); nothing is taken back, so it survives the steps of the others. For the
update check it is `CheckInv`: what the cache, an answer under way and a verdict say was
true when each was dated (`EntryOf`, `AnswerOf`, `VerdictOf`), and the clock stands while
a check is under way. An upgrade after the date, and a tear by a kill, are covered: the
first is what `VerdictIsRecent` allows for an hour, and a torn file is no entry.

In `GpuCapacityProofs` the invariant is about every turn of the loop, not its end only:
after each node, `total - allocated` is at most what the nodes so far have left, and equal
to it if the scheduler agrees with itself (`PoolInv`). In `WebClientProofs` it is that the
cookie is the last login that was started, or gone once that took too long
(`CookieIsLast`), and that a tab away at a provider has the number of its own (`FlowOf`): a
tab comes back to another cookie only when a later login wrote it. In
`TerminalProofs` types need the bound on the attempts at the agent (`Trying`).

`OnePasswordPerAddress` is not inductive either: the `UNIQUE` of the column tells
spellings apart, not addresses. The `IInv` of `AccountsProofs` adds that emails differ
as spelled (`EmailsDiffer`) and that an account with a password has a lower-case email
and no provider identity (`Sound`), because a later callback would change its email.
Every statement on the table then either adds a sound row, or moves the email and flag
of an identity's row, or changes quotas only: one lemma each.

Only model-checked: the liveness properties (`JobEndIsNoticed`, `EndLasts`, `RunningIsDetected`,
`BillingCloses`, `ServiceIsRemoved`, `VanishedIsNoticed`, `ClosedIsReleased`,
`JobEndReleases`, `ShellEndReleases`, `EveryoneServes`, `DeadLoginSettles`, `EndIsShown`),
which rest on fairness and are out of the prover's reach, and `SingleBilling`. Every other
invariant and every action property of a passing run is proved.

## Abstractions

* Clocks, durations, `gpu_seconds`, names, images, scripts and ids are left out.
  Ticks, timeouts and polls are steps that may happen at any time.
* Every session has a resource and a service name of its own; the code names them by
  the first eight characters of the id.
* A statement fails as a whole. One that was written and reported an error is, for
  the callers that ignore the error, the same as one that succeeded; in the
  transition it is a `Crash` after the write.
* Exit codes are the three classes the loop tells apart; `JobSuspended` stands for
  every job state it does not match.
* The pool a request is compared with is one number, what running jobs leave of
  `GpuTotal`; how the number comes about is `GpuCapacity`.
* Rust and PostgreSQL are taken to agree on lower case, which they may not outside
  ASCII. Rows written by versions before issue #44 are left out.
* The `oauth_state` cookie of the last login may expire once for each failure a run
  allows; a token is valid for as long as it pleases.
* A 401 to the poll of a session also runs `navigate('/')` of its page, after
  `window.location` was set; the document is being left then, so `Refuse` omits it.
* The cache file of the update check survives a restart. The shipped manifest mounts no
  volume for it (`src/deploy/k8s/gpuaas-api.yaml:41-66`): there a container that is
  restarted has no cache and asks again, and `OneAnswerPerHour` is about processes that
  keep their files.
* A process is restarted with the release it ran or a newer one (`Stop`), never rolled
  back; `VerdictIsRecent` relies on that.
* The shell reads the pipe one message at a time, and the pipe is one queue for the
  buffers between the server and the shell.
* A browser has one cookie and one token; storage events, bookmarks and two windows on
  one tab do not exist. The user stored beside the token, which only labels the page,
  is left out.

## Not modelled

* GET handlers, billing and admin summaries: they change nothing. In the session
  modules a quota is a constant; `Accounts` is where it changes.
* The exchange with GitHub and Okta, hashing, signatures, TLS: a callback starts with
  the profile it was sent.
* Profile and SSH keys: single statements on rows of the caller, which nothing else
  writes. What a job is given of them is part of the script that is left out.
* SSH ports and the names of resources: pure functions of a session id, without a
  reaction of the code to a collision or an overflow. Which pod a service selects after
  a requeue is not told apart either.
* Where a job is placed: the scheduler decides, and no state of this code tells the
  nodes apart, so a request that no single node can take just waits.
* The forms and the pages that load once, routing and rendering: no state that lasts.
* Configuration: its values are constants of the modules.
* Manifests and CI; the two replicas of the manifest are those of the runs.

## What could follow

The promises of the contract under `Sole` could be narrowed to what a DELETE breaks,
by a contract with deletes of its own; a K8s run with two replicas is beyond what TLC
finishes in minutes, though its safety is proved; and the selector of the ssh service after
a requeue would need pods with names in `SpurCluster`.
