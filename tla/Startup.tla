------------------------------- MODULE Startup -------------------------------
(***************************************************************************)
(* The life of the API server processes: main() of main.rs from the spawn  *)
(* of the update check to axum::serve, with the migrations every process   *)
(* runs over the shared database (db/migrations.rs), and the update check  *)
(* that runs beside it over a cache file of its own (update.rs).           *)
(*                                                                         *)
(* Every `?` of main() ends the process; its supervisor starts it again.   *)
(* What the background check has not stored by then is lost.               *)
(***************************************************************************)
EXTENDS Integers

CONSTANTS
    Procs,          \* the API server processes, each with its cache_dir
    CheckOnStartup, \* config.update.check_on_startup of each
    UsesKube,       \* whether config.server.backend is k8s
    Ttl,            \* CACHE_TTL_HOURS, in ticks of the clock
    MaxRelease,     \* bound: releases of spur-cloud that ever come out
    MaxTime,        \* bound: ticks in one behaviour
    MaxStops,       \* bound: restarts by the operator
    MaxFaults       \* bound: failures in one behaviour

ASSUME StartupAssumption ==
    /\ CheckOnStartup \in [Procs -> BOOLEAN]
    /\ UsesKube \in BOOLEAN
    /\ Ttl \in Nat \ {0} /\ MaxRelease \in Nat \ {0}
    /\ MaxTime \in Nat /\ MaxStops \in Nat /\ MaxFaults \in Nat

VARIABLES
    up,        \* the call of main() each process stands at; "down", it does not run
    mig,       \* the migration it is at
    creating,  \* whether that CREATE found its table missing
    version,   \* the release each process runs
    check,     \* where its update check stands
    answer,    \* the tag GitHub answered a check in progress with
    cache,     \* the file the check leaves
    verdict,   \* what the last check that ended said, and when
    schema,    \* the migrations that were applied to the database
    released,  \* when each release came out; NotYet, it has not
    upgraded,  \* when the binary of each process was last replaced
    now, stops, faults

procVars == <<up, mig, creating>>
checkVars == <<check, answer, cache, verdict>>
worldVars == <<released, now>>
vars == <<procVars, version, checkVars, schema, worldVars, upgraded, stops, faults>>

\* Four tables (users, ssh_keys, sessions, usage_records), then three changes to
\* sessions and users; each refers to tables made before it.
Creates == 1..4
Statements == 1..7
Steps == {"down", "db", "migrate", "spur", "kube", "bind", "serving"}

Releases == 1..MaxRelease
NotYet == -1
Out == {v \in Releases : released[v] # NotYet}
latest == CHOOSE v \in Out : \A w \in Out : w <= v

NoCache == [kind |-> "none"]
TornCache == [kind |-> "torn"]
Entry == [kind : {"entry"}, at : 0..MaxTime, current : Releases, tag : Releases]
NoVerdict == [kind |-> "none"]
Verdict == [kind : {"update", "current"}, current : Releases, tag : Releases,
            version : Releases, at : 0..MaxTime]

TypeOK ==
    /\ up \in [Procs -> Steps] /\ mig \in [Procs -> 1..8] /\ creating \in [Procs -> BOOLEAN]
    /\ version \in [Procs -> Releases] /\ upgraded \in [Procs -> 0..MaxTime]
    /\ check \in [Procs -> {"none", "read", "query", "store", "done"}]
    /\ answer \in [Procs -> Releases]
    /\ cache \in [Procs -> Entry \cup {NoCache, TornCache}]
    /\ verdict \in [Procs -> Verdict \cup {NoVerdict}]
    /\ schema \subseteq Statements
    /\ released \in [Releases -> 0..MaxTime \cup {NotYet}] /\ Out # {}
    /\ now \in 0..MaxTime /\ stops \in 0..MaxStops /\ faults \in 0..MaxFaults

Init ==
    /\ up = [p \in Procs |-> "down"]
    /\ mig = [p \in Procs |-> 1] /\ creating = [p \in Procs |-> FALSE]
    /\ version = [p \in Procs |-> 1] /\ upgraded = [p \in Procs |-> 0]
    /\ check = [p \in Procs |-> "none"] /\ answer = [p \in Procs |-> 1]
    /\ cache = [p \in Procs |-> NoCache] /\ verdict = [p \in Procs |-> NoVerdict]
    /\ schema = {}
    /\ released = [v \in Releases |-> IF v = 1 THEN 0 ELSE NotYet]
    /\ now = 0 /\ stops = 0 /\ faults = 0

Fault == faults < MaxFaults /\ faults' = faults + 1

----------------------------------------------------------------------------
(* main() *)

\* The process ends; the task of the update check ends with it.
Exit(p) ==
    /\ up' = [up EXCEPT ![p] = "down"]
    /\ creating' = [creating EXCEPT ![p] = FALSE]
    /\ check' = [check EXCEPT ![p] = "none"]
    /\ mig' = [mig EXCEPT ![p] = 1]
    /\ answer' = [answer EXCEPT ![p] = 1]
    /\ UNCHANGED verdict

\* Started by its supervisor: Config::load, then the check is spawned.
Boot(p) ==
    /\ up[p] = "down"
    /\ up' = [up EXCEPT ![p] = "db"]
    /\ check' = [check EXCEPT ![p] = IF CheckOnStartup[p] THEN "read" ELSE "none"]
    /\ UNCHANGED <<mig, creating, version, answer, cache, verdict, schema, worldVars, upgraded,
                   stops, faults>>

after(step) ==
    CASE step = "db" -> "migrate"
      [] step = "spur" -> IF UsesKube THEN "kube" ELSE "bind"
      [] step = "kube" -> "bind"
      [] step = "bind" -> "serving"

\* PgPoolOptions::connect, SlurmControllerClient::connect, Client::try_default, bind.
Connect(p) ==
    /\ up[p] \in {"db", "spur", "kube", "bind"}
    /\ \/ up' = [up EXCEPT ![p] = after(up[p])] /\ UNCHANGED <<mig, creating, checkVars, faults>>
       \/ Exit(p) /\ UNCHANGED cache /\ Fault
    /\ UNCHANGED <<version, schema, worldVars, upgraded, stops>>

\* Broken form: goes on to the controller one statement early.
too_early(p) ==
    /\ mig' = [mig EXCEPT ![p] = @ + 1]
    /\ up' = IF mig[p] = 6 THEN [up EXCEPT ![p] = "spur"] ELSE up

next_statement(p) ==
    /\ mig' = [mig EXCEPT ![p] = @ + 1]
    /\ up' = IF mig[p] = 7 THEN [up EXCEPT ![p] = "spur"] ELSE up

\* Broken form: without IF NOT EXISTS, a table that is there is an error.
create_always(p) ==
    /\ mig[p] \in Creates /\ ~ creating[p]
    /\ IF mig[p] \in schema
         THEN Exit(p) /\ UNCHANGED cache
         ELSE /\ creating' = [creating EXCEPT ![p] = TRUE]
              /\ UNCHANGED <<up, mig, checkVars>>
    /\ UNCHANGED <<schema, faults>>

\* Broken form: a table that another process is about to create is passed over.
pass_over(p) ==
    /\ mig[p] \in Creates /\ ~ creating[p]
    /\ IF mig[p] \in schema \/ \E q \in Procs : creating[q] /\ mig[q] = mig[p]
         THEN next_statement(p) /\ UNCHANGED creating
         ELSE creating' = [creating EXCEPT ![p] = TRUE] /\ UNCHANGED <<up, mig>>
    /\ UNCHANGED <<checkVars, schema, faults>>

\* CREATE TABLE IF NOT EXISTS looks first ...
FindTable(p) ==
    /\ mig[p] \in Creates /\ ~ creating[p]
    /\ IF mig[p] \in schema
         THEN next_statement(p) /\ UNCHANGED creating
         ELSE creating' = [creating EXCEPT ![p] = TRUE] /\ UNCHANGED <<up, mig>>
    /\ UNCHANGED <<checkVars, schema, faults>>

\* ... and creates then: of two that found it missing the second one fails.
CreateTable(p) ==
    /\ mig[p] \in Creates /\ creating[p]
    /\ IF mig[p] \in schema
         THEN Exit(p) /\ UNCHANGED <<schema, cache>>
         ELSE /\ next_statement(p)
              /\ schema' = schema \cup {mig[p]}
              /\ creating' = [creating EXCEPT ![p] = FALSE]
              /\ UNCHANGED checkVars
    /\ UNCHANGED faults

\* ALTER TABLE locks its table before it looks.
AlterTable(p) ==
    /\ mig[p] \in Statements \ Creates
    /\ next_statement(p)
    /\ schema' = schema \cup {mig[p]}
    /\ UNCHANGED <<creating, checkVars, faults>>

\* run_migrations: each statement commits by itself.
Migrate(p) ==
    /\ up[p] = "migrate"
    /\ \/ FindTable(p) \/ CreateTable(p) \/ AlterTable(p)
       \/ Exit(p) /\ UNCHANGED <<schema, cache>> /\ Fault
    /\ UNCHANGED <<version, worldVars, upgraded, stops>>

----------------------------------------------------------------------------
(* spawn_startup_check *)

\* Broken forms: two hours, or half an hour, are taken for one.
fresh_twice_as_long(p) == cache[p].kind = "entry" /\ now - cache[p].at < 2 * Ttl
fresh_half_as_long(p) == cache[p].kind = "entry" /\ 2 * (now - cache[p].at) < Ttl

is_cache_fresh(p) == cache[p].kind = "entry" /\ now - cache[p].at < Ttl

Concludes(p, current, tag) ==
    /\ check' = [check EXCEPT ![p] = "done"]
    /\ verdict' = [verdict EXCEPT ![p] =
          [kind |-> IF tag > current THEN "update" ELSE "current",
           current |-> current, tag |-> tag, version |-> version[p], at |-> now]]

\* A file that is missing or does not parse is no cache.
ReadCache(p) ==
    /\ check[p] = "read"
    /\ IF is_cache_fresh(p)
         THEN Concludes(p, cache[p].current, cache[p].tag)
         ELSE check' = [check EXCEPT ![p] = "query"] /\ UNCHANGED verdict
    /\ UNCHANGED <<answer, cache, faults>>

\* check_for_update; an error or the 10 s timeout ends the check without a word.
Query(p) ==
    /\ check[p] = "query"
    /\ \/ /\ check' = [check EXCEPT ![p] = "store"]
          /\ answer' = [answer EXCEPT ![p] = latest]
          /\ UNCHANGED faults
       \/ check' = [check EXCEPT ![p] = "done"] /\ UNCHANGED answer /\ Fault
    /\ UNCHANGED <<cache, verdict>>

\* Broken form: stores when the answer expires instead of when it came.
write_expiry(p) ==
    cache' = [cache EXCEPT ![p] =
                 [kind |-> "entry", at |-> now + Ttl, current |-> version[p], tag |-> answer[p]]]

\* Nobody learns of a write that failed.
write_cache(p) ==
    cache' = [cache EXCEPT ![p] =
                 [kind |-> "entry", at |-> now, current |-> version[p], tag |-> answer[p]]]

StoreAnswer(p) ==
    /\ check[p] = "store"
    /\ Concludes(p, version[p], answer[p])
    /\ \/ write_cache(p) /\ UNCHANGED faults
       \/ UNCHANGED cache /\ Fault
    /\ answer' = [answer EXCEPT ![p] = 1]

Check(p) ==
    /\ ReadCache(p) \/ Query(p) \/ StoreAnswer(p)
    /\ UNCHANGED <<procVars, version, schema, worldVars, upgraded, stops>>

----------------------------------------------------------------------------
(* What the world does. *)

\* Killed at any point; a file that was being written is left incomplete.
Kill(p) ==
    /\ up[p] # "down"
    /\ Exit(p)
    /\ \/ UNCHANGED cache
       \/ check[p] = "store" /\ cache' = [cache EXCEPT ![p] = TornCache]
    /\ Fault
    /\ UNCHANGED <<version, schema, worldVars, upgraded, stops>>

\* The operator restarts a process that serves, with the binary it has or the latest.
Stop(p) ==
    /\ up[p] = "serving" /\ stops < MaxStops
    /\ Exit(p)
    /\ \/ UNCHANGED <<version, upgraded>>
       \/ /\ version[p] # latest
          /\ version' = [version EXCEPT ![p] = latest]
          /\ upgraded' = [upgraded EXCEPT ![p] = now]
    /\ stops' = stops + 1
    /\ UNCHANGED <<cache, schema, worldVars, faults>>

Release ==
    /\ \E v \in Releases \ Out :
          /\ \A w \in Releases : w < v => w \in Out
          /\ released' = [released EXCEPT ![v] = now]
    /\ UNCHANGED <<procVars, version, checkVars, schema, upgraded, now, stops, faults>>

\* A request is over within its timeout, and a start within a tick.
Tick ==
    /\ now < MaxTime
    /\ \A p \in Procs : check[p] \in {"none", "done"} /\ up[p] \in {"down", "serving"}
    /\ now' = now + 1
    /\ UNCHANGED <<procVars, version, checkVars, schema, released, upgraded, stops, faults>>

Run(p) == Boot(p) \/ Connect(p) \/ Migrate(p)

Next ==
    \/ \E p \in Procs : Run(p) \/ Check(p) \/ Kill(p) \/ Stop(p)
    \/ Release \/ Tick

\* A process that is down is started again, and its calls return.
Spec == Init /\ [][Next]_vars /\ \A p \in Procs : WF_vars(Run(p))

----------------------------------------------------------------------------
(* Properties *)

\* No process polls sessions or answers a request before every migration was applied,
\* by itself or by others it collided with or took over from (main.rs:66-119).
ServingHasSchema ==
    \A p \in Procs : up[p] \in {"spur", "kube", "bind", "serving"} => schema = Statements

\* No migration runs before those it refers to, whichever process ran them and
\* wherever another one died (migrations.rs:8-94).
SchemaInOrder == \A i \in schema, j \in Statements : j < i => j \in schema

\* What a check says was true of some moment of the last hour: the tag was the
\* latest, and the version it was compared with is the one that ran (update.rs:75-78,
\* update.rs:142-157).
VerdictIsRecent ==
    \A p \in Procs : verdict[p].kind # "none" =>
       LET v == verdict[p]
           recent(t) == t > v.at - Ttl
       IN /\ v.tag + 1 \in Out => recent(released[v.tag + 1])
          /\ v.current # v.version => recent(upgraded[p])
          /\ v.kind = "current" => v.tag <= v.version

\* However often a process is killed and restarted, an answer it stored is not
\* replaced within the hour (README.md:234, update.rs:5).
OneAnswerPerHour ==
    [][\A p \in Procs :
          cache'[p] # cache[p] /\ cache[p].kind = "entry" => now - cache[p].at >= Ttl]_vars

\* Restarted as often as it takes, every process comes to serve for good: two that
\* collide in a migration cannot go on doing so.
EveryoneServes == \A p \in Procs : <>[](up[p] = "serving")
=============================================================================
