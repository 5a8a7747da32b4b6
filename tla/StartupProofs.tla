--------------------------- MODULE StartupProofs ---------------------------
(***************************************************************************)
(* For any number of processes, failures, restarts and releases: the       *)
(* database is migrated in order, and completely before a process polls or *)
(* serves; and the update check says what is true of the last hour, and    *)
(* asks at most once in it.                                                *)
(*                                                                         *)
(* What a process has passed was applied by itself or by another, and      *)
(* nothing is ever taken back; so what it knows survives the others.  The  *)
(* check rests on CheckInv: an entry of the cache, an answer and a verdict *)
(* each name what was the latest release when they were had.               *)
(***************************************************************************)
EXTENDS Startup, TLAPS

Beyond == {"spur", "kube", "bind", "serving"}

MainInv(p) ==
    /\ up[p] \in {"down", "db"} => mig[p] = 1
    /\ up[p] = "migrate" => mig[p] \in Statements /\ 1..(mig[p] - 1) \subseteq schema
    /\ up[p] \in Beyond => schema = Statements

IInv ==
    /\ up \in [Procs -> Steps] /\ mig \in [Procs -> 1..8] /\ creating \in [Procs -> BOOLEAN]
    /\ schema \subseteq Statements
    /\ \A p \in Procs : MainInv(p)
    /\ SchemaInOrder

\* A statement is passed once it was applied; with the last one, all were
\* (migrations.rs:95-99).
LEMMA NextStatement ==
    ASSUME IInv, NEW p \in Procs, up[p] = "migrate", next_statement(p),
           schema' = schema \cup {mig[p]}, creating' \in [Procs -> BOOLEAN]
    PROVE  IInv'
<1>1. /\ mig[p] \in 1..7 /\ 1..(mig[p] - 1) \subseteq schema /\ schema \subseteq 1..7
      /\ mig' = [mig EXCEPT ![p] = mig[p] + 1]
      /\ up' = IF mig[p] = 7 THEN [up EXCEPT ![p] = "spur"] ELSE up
  BY DEF IInv, MainInv, Statements, next_statement
<1>2. /\ up' \in [Procs -> Steps] /\ mig' \in [Procs -> 1..8] /\ schema' \subseteq Statements
  <2>1. up \in [Procs -> Steps] /\ mig \in [Procs -> 1..8]
    BY DEF IInv
  <2>2. up' \in [Procs -> Steps]
    BY <1>1, <2>1 DEF Steps
  <2>3. mig[p] + 1 \in 1..8
    BY <1>1
  <2>4. mig' \in [Procs -> 1..8]
    BY <1>1, <2>1, <2>3
  <2>5. schema' \subseteq Statements
    BY <1>1 DEF Statements
  <2> QED BY <2>2, <2>4, <2>5
<1>3. 1..mig[p] \subseteq schema' /\ schema \subseteq schema'
  BY <1>1
<1>4. SchemaInOrder'
  BY <1>1, <1>3 DEF IInv, SchemaInOrder, Statements
<1>5. MainInv(p)'
  <2>1. mig'[p] = mig[p] + 1 /\ up'[p] = IF mig[p] = 7 THEN "spur" ELSE "migrate"
    BY <1>1 DEF IInv
  <2>2. mig[p] = 7 => schema' = 1..7
    BY <1>1, <1>3
  <2> QED BY <1>1, <1>3, <2>1, <2>2 DEF MainInv, Statements, Beyond
<1>6. ASSUME NEW q \in Procs, q # p
      PROVE  MainInv(q)'
  <2>1. up'[q] = up[q] /\ mig'[q] = mig[q]
    BY <1>1, <1>6 DEF IInv
  <2> QED BY <1>1, <1>2, <1>3, <2>1 DEF IInv, MainInv, Statements
<1> QED BY <1>2, <1>4, <1>5, <1>6 DEF IInv

\* A process that ends leaves the tables it made (main.rs:66).
LEMMA ExitKeeps ==
    ASSUME IInv, NEW p \in Procs, Exit(p), UNCHANGED schema
    PROVE  IInv'
BY DEF IInv, MainInv, Exit, SchemaInOrder, Steps, Beyond

\* Every step of any process keeps it all.
LEMMA StepKeeps ==
    ASSUME IInv, [Next]_vars
    PROVE  IInv'
<1>1. ASSUME NEW p \in Procs, Boot(p)
      PROVE  IInv'
  BY <1>1 DEF IInv, MainInv, Boot, SchemaInOrder, Steps, Beyond
<1>2. ASSUME NEW p \in Procs, Connect(p)
      PROVE  IInv'
  <2>1. CASE Exit(p)
    BY <1>2, <2>1, ExitKeeps DEF Connect
  <2>2. CASE up' = [up EXCEPT ![p] = after(up[p])] /\ UNCHANGED <<mig, creating>>
    <3>1. UNCHANGED schema /\ up[p] \in {"db", "spur", "kube", "bind"}
      BY <1>2 DEF Connect
    <3>2. after(up[p]) \in Steps /\ (up[p] = "db" => after(up[p]) = "migrate")
          /\ (up[p] # "db" => after(up[p]) \in Beyond)
      BY <3>1 DEF after, Steps, Beyond
    <3> QED BY <2>2, <3>1, <3>2 DEF IInv, MainInv, SchemaInOrder, Statements, Beyond
  <2> QED BY <1>2, <2>1, <2>2 DEF Connect
<1>3. ASSUME NEW p \in Procs, Migrate(p)
      PROVE  IInv'
  <2>1. CASE Exit(p)
    <3>1. CASE UNCHANGED schema
      BY <2>1, <3>1, ExitKeeps
    <3>2. CASE schema' # schema
      \* Only a statement that succeeds changes the schema, and that is no exit.
      BY <1>3, <2>1, <3>2
         DEF Migrate, FindTable, CreateTable, AlterTable, next_statement, Exit, IInv, Steps,
             MainInv, Statements, Creates
    <3> QED BY <3>1, <3>2
  <2>2. CASE FindTable(p)
    <3>1. CASE mig[p] \in schema
      <4>1. next_statement(p) /\ schema' = schema \cup {mig[p]} /\ creating' \in [Procs -> BOOLEAN]
        BY <2>2, <3>1 DEF FindTable, IInv
      <4> QED BY <1>3, <4>1, NextStatement DEF Migrate
    <3>2. CASE mig[p] \notin schema
      BY <2>2, <3>2 DEF FindTable, IInv, MainInv, SchemaInOrder
    <3> QED BY <3>1, <3>2
  <2>3. CASE CreateTable(p)
    <3>1. CASE mig[p] \in schema
      BY <2>3, <3>1, ExitKeeps DEF CreateTable
    <3>2. CASE mig[p] \notin schema
      <4>1. next_statement(p) /\ schema' = schema \cup {mig[p]} /\ creating' \in [Procs -> BOOLEAN]
        BY <2>3, <3>2 DEF CreateTable, IInv
      <4> QED BY <1>3, <4>1, NextStatement DEF Migrate
    <3> QED BY <3>1, <3>2
  <2>4. CASE AlterTable(p)
    <3>1. next_statement(p) /\ schema' = schema \cup {mig[p]} /\ creating' \in [Procs -> BOOLEAN]
      BY <2>4 DEF AlterTable, IInv
    <3> QED BY <1>3, <3>1, NextStatement DEF Migrate
  <2> QED BY <1>3, <2>1, <2>2, <2>3, <2>4 DEF Migrate
<1>4. ASSUME NEW p \in Procs, Kill(p) \/ Stop(p)
      PROVE  IInv'
  BY <1>4, ExitKeeps DEF Kill, Stop
<1>5. CASE UNCHANGED <<procVars, schema>>
  BY <1>5 DEF IInv, MainInv, SchemaInOrder, procVars
<1>6. ASSUME NEW p \in Procs, Check(p)
      PROVE  UNCHANGED <<procVars, schema>>
  BY <1>6 DEF Check
<1>7. Release \/ Tick \/ UNCHANGED vars => UNCHANGED <<procVars, schema>>
  BY DEF Release, Tick, vars, procVars
<1> QED BY <1>1, <1>2, <1>3, <1>4, <1>5, <1>6, <1>7 DEF Next, Run

\* The database is migrated before a process polls or serves (main.rs:66-119).
THEOREM MigratedBeforeServing == Spec => []ServingHasSchema
<1>1. Init => IInv
  BY DEF Init, IInv, MainInv, SchemaInOrder, Steps, Beyond
<1>2. IInv => ServingHasSchema
  BY DEF IInv, MainInv, ServingHasSchema, Beyond
<1> QED BY <1>1, <1>2, StepKeeps, PTL DEF Spec

\* It is migrated in order, whoever runs the statements (migrations.rs:8-94).
THEOREM MigratedInOrder == Spec => []SchemaInOrder
<1>1. Init => IInv
  BY DEF Init, IInv, MainInv, SchemaInOrder, Steps, Beyond
<1>2. IInv => SchemaInOrder
  BY DEF IInv
<1> QED BY <1>1, <1>2, StepKeeps, PTL DEF Spec

----------------------------------------------------------------------------
(* The update check.  What a check reads, stores and says is dated: no date is of the  *)
(* future, a tag was the latest at its date, and a version ran at its date.  The clock *)
(* stands while a check is under way, so that its answer is of the moment it is stored *)
(* at.                                                                                 *)

CheckSteps == {"none", "read", "query", "store", "done"}
Caches == Entry \cup {NoCache, TornCache}
Verdicts == Verdict \cup {NoVerdict}

CheckTypes ==
    /\ check \in [Procs -> CheckSteps] /\ answer \in [Procs -> Releases]
    /\ cache \in [Procs -> Caches] /\ verdict \in [Procs -> Verdicts]
    /\ version \in [Procs -> Releases] /\ upgraded \in [Procs -> 0..MaxTime]
    /\ released \in [Releases -> 0..MaxTime \cup {NotYet}]
    /\ now \in 0..MaxTime /\ stops \in 0..MaxStops /\ faults \in 0..MaxFaults

\* Releases come out in their order.
InOrder == \E k \in Releases : Out = 1..k

\* No later release was out at t.
WasLatest(tag, t) == tag + 1 \in Out => released[tag + 1] >= t

EntryOf(p) == cache[p].kind = "entry" =>
    /\ cache[p].at <= now
    /\ WasLatest(cache[p].tag, cache[p].at)
    /\ cache[p].current <= version[p]
    /\ cache[p].current # version[p] => upgraded[p] >= cache[p].at
    /\ check[p] \in {"query", "store"} => now - cache[p].at >= Ttl

AnswerOf(p) == check[p] = "store" => WasLatest(answer[p], now)

VerdictOf(p) == verdict[p].kind # "none" =>
    LET v == verdict[p] IN
    /\ v.at <= now
    /\ WasLatest(v.tag, v.at - Ttl + 1)
    /\ v.current # v.version => upgraded[p] >= v.at - Ttl + 1
    /\ v.kind = "current" => v.tag <= v.version

CheckInv ==
    /\ CheckTypes /\ InOrder
    /\ \A p \in Procs : version[p] \in Out /\ EntryOf(p) /\ AnswerOf(p) /\ VerdictOf(p)

\* The latest release is out, and no release after it.
LEMMA LatestIsOut ==
    ASSUME CheckInv
    PROVE  /\ latest \in Out /\ Out \subseteq Releases /\ Out = 1..latest
           /\ \A t : WasLatest(latest, t)
<1>1. PICK k \in Releases : Out = 1..k
  BY DEF CheckInv, InOrder
<1>2. latest = k
  <2>1. k \in Out /\ \A w \in Out : w <= k
    BY <1>1 DEF Releases
  <2>2. latest \in Out /\ \A w \in Out : w <= latest
    BY <2>1 DEF latest
  <2> QED BY <1>1, <2>1, <2>2 DEF Releases
<1> QED BY <1>1, <1>2 DEF Releases, Out, WasLatest

\* A step of one process that no release and no upgrade comes with.
LEMMA OneChecks ==
    ASSUME CheckInv, NEW p \in Procs, UNCHANGED <<version, upgraded, worldVars>>,
           NEW c \in CheckSteps, NEW a \in Releases, NEW e \in Caches, NEW v \in Verdicts,
           check' = [check EXCEPT ![p] = c], answer' = [answer EXCEPT ![p] = a],
           cache' = [cache EXCEPT ![p] = e], verdict' = [verdict EXCEPT ![p] = v],
           stops' \in 0..MaxStops, faults' \in 0..MaxFaults,
           EntryOf(p)', AnswerOf(p)', VerdictOf(p)'
    PROVE  CheckInv'
<1>1. CheckTypes'
  BY DEF CheckInv, CheckTypes, worldVars
<1>2. InOrder' /\ Out' = Out
  BY DEF CheckInv, InOrder, Out, worldVars
<1>3. ASSUME NEW q \in Procs, q # p
      PROVE  EntryOf(q)' /\ AnswerOf(q)' /\ VerdictOf(q)'
  <2>1. check'[q] = check[q] /\ answer'[q] = answer[q] /\ cache'[q] = cache[q]
        /\ verdict'[q] = verdict[q]
    BY <1>3 DEF CheckInv, CheckTypes
  <2> QED BY <1>2, <2>1 DEF CheckInv, EntryOf, AnswerOf, VerdictOf, WasLatest, worldVars
<1>4. \A q \in Procs : version'[q] \in Out'
  BY <1>2 DEF CheckInv
<1> QED BY <1>1, <1>2, <1>3, <1>4 DEF CheckInv

\* What a step leaves alone of the check of p.
LEMMA Kept ==
    ASSUME CheckInv, NEW p \in Procs
    PROVE  /\ check[p] \in CheckSteps /\ answer[p] \in Releases /\ cache[p] \in Caches
           /\ verdict[p] \in Verdicts
           /\ check = [check EXCEPT ![p] = check[p]] /\ answer = [answer EXCEPT ![p] = answer[p]]
           /\ cache = [cache EXCEPT ![p] = cache[p]]
           /\ verdict = [verdict EXCEPT ![p] = verdict[p]]
           /\ stops \in 0..MaxStops /\ faults \in 0..MaxFaults
BY DEF CheckInv, CheckTypes

\* A process that ends, or starts, keeps the verdict of its last check; a cache it was
\* writing is torn (main.rs:31-45).
LEMMA EndOrStart ==
    ASSUME CheckInv, NEW p \in Procs, UNCHANGED <<version, upgraded, worldVars, verdict>>,
           NEW c \in {"none", "read", "done"}, check' = [check EXCEPT ![p] = c],
           NEW a \in Releases, answer' = [answer EXCEPT ![p] = a],
           NEW e \in {cache[p], TornCache}, cache' = [cache EXCEPT ![p] = e],
           stops' \in 0..MaxStops, faults' \in 0..MaxFaults
    PROVE  CheckInv'
<1>1. e \in Caches /\ c \in CheckSteps
  BY Kept DEF Caches, CheckSteps
<1>2. check'[p] = c /\ cache'[p] = e /\ verdict'[p] = verdict[p] /\ Out' = Out
  BY DEF CheckInv, CheckTypes, Out, worldVars
<1>3. EntryOf(p)'
  <2>1. CASE e = cache[p]
    BY <1>2, <2>1 DEF CheckInv, EntryOf, WasLatest, worldVars
  <2>2. CASE e = TornCache
    BY <1>2, <2>2 DEF EntryOf, TornCache
  <2> QED BY <2>1, <2>2
<1>4. AnswerOf(p)' /\ VerdictOf(p)'
  BY <1>2 DEF CheckInv, AnswerOf, VerdictOf, WasLatest, worldVars
<1>5. verdict' = [verdict EXCEPT ![p] = verdict[p]] /\ verdict[p] \in Verdicts
  BY Kept
<1> QED BY <1>1, <1>3, <1>4, <1>5, OneChecks

\* A verdict from a tag and a version that were the latest and the one that ran within
\* the hour (update.rs:142-157).
LEMMA Concluded ==
    ASSUME CheckInv, NEW p \in Procs, NEW current \in Releases, NEW tag \in Releases,
           Concludes(p, current, tag),
           UNCHANGED <<version, upgraded, worldVars, stops>>, faults' \in 0..MaxFaults,
           WasLatest(tag, now - Ttl + 1), current <= version[p],
           current # version[p] => upgraded[p] >= now - Ttl + 1,
           NEW a \in Releases, answer' = [answer EXCEPT ![p] = a],
           NEW e \in Caches, cache' = [cache EXCEPT ![p] = e],
           EntryOf(p)'
    PROVE  CheckInv'
<1> DEFINE v == [kind |-> IF tag > current THEN "update" ELSE "current",
                 current |-> current, tag |-> tag, version |-> version[p], at |-> now]
<1>1. /\ check' = [check EXCEPT ![p] = "done"] /\ verdict' = [verdict EXCEPT ![p] = v]
      /\ v \in Verdicts /\ "done" \in CheckSteps
  BY DEF Concludes, Verdicts, Verdict, CheckInv, CheckTypes, CheckSteps
<1>2. check'[p] = "done" /\ verdict'[p] = v /\ Out' = Out
  BY <1>1 DEF CheckInv, CheckTypes, Out, worldVars
<1>3. AnswerOf(p)'
  BY <1>2 DEF AnswerOf
<1>4. VerdictOf(p)'
  <2>1. /\ v.at = now /\ v.tag = tag /\ v.current = current /\ v.version = version[p]
        /\ v.kind = "current" => tag <= version[p]
        /\ now \in Nat /\ tag \in Nat /\ current \in Nat /\ version[p] \in Nat
    BY DEF Releases, CheckInv, CheckTypes
  <2>2. WasLatest(tag, now - Ttl + 1)'
    BY <1>2 DEF WasLatest, worldVars
  <2> HIDE DEF v
  <2> QED BY <1>2, <2>1, <2>2 DEF VerdictOf, worldVars
<1>5. stops' \in 0..MaxStops
  BY Kept
<1> HIDE DEF v
<1> QED BY <1>1, <1>3, <1>4, <1>5, OneChecks

\* The check itself: it trusts an entry within its hour, replaces one after that, and
\* stores what was the latest a moment ago (update.rs:60-157).
LEMMA CheckKeeps ==
    ASSUME CheckInv, NEW p \in Procs, Check(p)
    PROVE  CheckInv'
<1>1. /\ UNCHANGED <<version, upgraded, worldVars, stops>>
      /\ now \in Nat /\ Ttl \in Nat \ {0} /\ MaxFaults \in Nat
      /\ Out' = Out /\ released \in [Releases -> 0..MaxTime \cup {NotYet}]
      /\ Out \subseteq Releases /\ version[p] \in Releases
  BY StartupAssumption DEF Check, CheckInv, CheckTypes, Out, worldVars
<1>2. CASE ReadCache(p)
  <2>1. UNCHANGED <<answer, cache, faults>> /\ check[p] = "read" /\ faults' \in 0..MaxFaults
    BY <1>2, Kept DEF ReadCache
  <2>2. CASE is_cache_fresh(p)
    <3>1. /\ cache[p] \in Entry /\ now - cache[p].at < Ttl /\ cache[p].kind = "entry"
          /\ cache[p].at \in Nat
      BY <2>2, Kept, StartupAssumption DEF is_cache_fresh, Caches, Entry, NoCache, TornCache
    <3>2. /\ Concludes(p, cache[p].current, cache[p].tag)
          /\ cache[p].current \in Releases /\ cache[p].tag \in Releases
      BY <1>2, <2>2, <3>1 DEF ReadCache, Entry
    <3>3. EntryOf(p)
      BY DEF CheckInv
    <3>4. WasLatest(cache[p].tag, now - Ttl + 1)
      BY <1>1, <3>1, <3>3 DEF EntryOf, WasLatest, NotYet
    <3>5. cache[p].current <= version[p]
          /\ (cache[p].current # version[p] => upgraded[p] >= now - Ttl + 1)
      BY <1>1, <3>1, <3>3 DEF EntryOf, CheckInv, CheckTypes
    <3>6. EntryOf(p)'
      BY <1>1, <2>1, <3>2, <3>3 DEF EntryOf, WasLatest, worldVars, Concludes, CheckInv, CheckTypes
    <3> QED BY <1>1, <2>1, <3>2, <3>4, <3>5, <3>6, Kept, Concluded
  <2>3. CASE ~ is_cache_fresh(p)
    <3>1. check' = [check EXCEPT ![p] = "query"] /\ UNCHANGED verdict /\ check'[p] = "query"
      BY <1>2, <2>3 DEF ReadCache, CheckInv, CheckTypes
    <3>2. EntryOf(p)'
      <4>1. EntryOf(p) /\ cache[p] \in Caches
        BY Kept DEF CheckInv
      <4>2. cache[p].kind = "entry" => now - cache[p].at >= Ttl
        BY <1>1, <2>3, <4>1 DEF is_cache_fresh, Caches, Entry, NoCache, TornCache
      <4> QED BY <1>1, <2>1, <4>1, <4>2 DEF EntryOf, WasLatest, worldVars
    <3>3. AnswerOf(p)' /\ VerdictOf(p)'
      BY <1>1, <2>1, <3>1 DEF CheckInv, AnswerOf, VerdictOf, WasLatest, worldVars
    <3>4. "query" \in CheckSteps /\ stops' \in 0..MaxStops
      BY <1>1, Kept DEF CheckSteps
    <3>5. /\ answer' = [answer EXCEPT ![p] = answer[p]] /\ cache' = [cache EXCEPT ![p] = cache[p]]
          /\ verdict' = [verdict EXCEPT ![p] = verdict[p]]
          /\ answer[p] \in Releases /\ cache[p] \in Caches /\ verdict[p] \in Verdicts
      BY <2>1, <3>1, Kept
    <3> QED BY <1>1, <2>1, <3>1, <3>2, <3>3, <3>4, <3>5, OneChecks
  <2> QED BY <2>2, <2>3
<1>3. CASE Query(p)
  <2>1. UNCHANGED <<cache, verdict>> /\ check[p] = "query" /\ stops' \in 0..MaxStops
    BY <1>1, <1>3, Kept DEF Query
  <2>2. CASE check' = [check EXCEPT ![p] = "store"] /\ answer' = [answer EXCEPT ![p] = latest]
             /\ UNCHANGED faults
    <3>1. check'[p] = "store" /\ answer'[p] = latest /\ latest \in Releases
      BY <2>2, LatestIsOut DEF CheckInv, CheckTypes
    <3>2. AnswerOf(p)'
      BY <1>1, <3>1, LatestIsOut DEF AnswerOf, WasLatest, worldVars
    <3>3. EntryOf(p)' /\ VerdictOf(p)'
      BY <1>1, <2>1, <3>1 DEF CheckInv, EntryOf, VerdictOf, WasLatest, worldVars
    <3>4. "store" \in CheckSteps
      BY DEF CheckSteps
    <3>5. /\ cache' = [cache EXCEPT ![p] = cache[p]] /\ verdict' = [verdict EXCEPT ![p] = verdict[p]]
          /\ cache[p] \in Caches /\ verdict[p] \in Verdicts /\ faults' \in 0..MaxFaults
      BY <2>1, <2>2, Kept
    <3> QED BY <1>1, <2>1, <2>2, <3>1, <3>2, <3>3, <3>4, <3>5, OneChecks
  <2>3. CASE check' = [check EXCEPT ![p] = "done"] /\ UNCHANGED answer /\ Fault
    <3>1. faults' \in 0..MaxFaults
      BY <1>1, <2>3, Kept DEF Fault
    <3> QED BY <1>1, <2>1, <2>3, <3>1, Kept, EndOrStart
  <2> QED BY <1>3, <2>2, <2>3 DEF Query
<1>4. CASE StoreAnswer(p)
  <2>1. /\ check[p] = "store" /\ Concludes(p, version[p], answer[p])
        /\ answer[p] \in Releases /\ 1 \in Releases /\ answer' = [answer EXCEPT ![p] = 1]
    <3>1. 1 \in Releases
      BY StartupAssumption DEF Releases
    <3> QED BY <1>4, <3>1, Kept DEF StoreAnswer
  <2>2. WasLatest(answer[p], now)
    BY <2>1 DEF CheckInv, AnswerOf
  <2>3. WasLatest(answer[p], now - Ttl + 1)
    BY <1>1, <2>1, <2>2 DEF WasLatest, NotYet
  <2>4. version[p] <= version[p] /\ check'[p] = "done"
    BY <1>1, <2>1 DEF Releases, Concludes, CheckInv, CheckTypes
  <2>5. CASE write_cache(p) /\ UNCHANGED faults
    <3> DEFINE e == [kind |-> "entry", at |-> now, current |-> version[p], tag |-> answer[p]]
    <3>1. e \in Caches /\ cache' = [cache EXCEPT ![p] = e] /\ cache'[p] = e
      BY <2>1, <2>5 DEF write_cache, Caches, Entry, CheckInv, CheckTypes
    <3>2. /\ e.at = now /\ e.tag = answer[p] /\ e.current = version[p] /\ now <= now
      BY <1>1
    <3> HIDE DEF e
    <3>3. EntryOf(p)'
      BY <1>1, <2>2, <2>4, <3>1, <3>2 DEF EntryOf, WasLatest, worldVars
    <3>4. faults' \in 0..MaxFaults
      BY <2>5, Kept
    <3> QED BY <1>1, <2>1, <2>3, <2>4, <3>1, <3>3, <3>4, Concluded
  <2>6. CASE UNCHANGED cache /\ Fault
    <3>1. EntryOf(p)'
      BY <1>1, <2>4, <2>6 DEF EntryOf, WasLatest, worldVars, CheckInv
    <3>2. faults' \in 0..MaxFaults
      BY <1>1, <2>6, Kept DEF Fault
    <3> QED BY <1>1, <2>1, <2>3, <2>4, <2>6, <3>1, <3>2, Kept, Concluded
  <2> QED BY <1>4, <2>5, <2>6 DEF StoreAnswer
<1> QED BY <1>2, <1>3, <1>4 DEF Check

\* A release is the one after the latest, and of now.
LEMMA ReleaseKeeps ==
    ASSUME CheckInv, Release
    PROVE  CheckInv'
<1>1. PICK v \in Releases \ Out :
         /\ \A w \in Releases : w < v => w \in Out
         /\ released' = [released EXCEPT ![v] = now]
  BY DEF Release
<1>2. UNCHANGED <<check, answer, cache, verdict, version, upgraded, now, stops, faults>>
  BY DEF Release, checkVars
<1>3. PICK k \in Releases : Out = 1..k
  BY DEF CheckInv, InOrder
<1>4. now \in Nat /\ released \in [Releases -> 0..MaxTime \cup {NotYet}] /\ Ttl \in Nat \ {0}
      /\ now \in 0..MaxTime /\ Out \subseteq Releases
  BY StartupAssumption DEF CheckInv, CheckTypes, Out
<1>5. Out' = Out \cup {v} /\ \A w \in Out : released'[w] = released[w]
  BY <1>1, <1>4 DEF Out, NotYet
<1>6. released'[v] = now
  BY <1>1, <1>4
<1>7. InOrder'
  <2>1. v = k + 1
    <3>1. /\ v \in Nat /\ k \in Nat /\ MaxRelease \in Nat /\ 1 <= v /\ v <= MaxRelease
          /\ v \notin 1..k
      BY <1>1, <1>3, StartupAssumption DEF Releases
    <3>2. k + 1 < v => k + 1 \in 1..k
      BY <1>1, <1>3, <3>1 DEF Releases
    <3> QED BY <3>1, <3>2
  <2> QED BY <1>1, <1>3, <1>5, <2>1 DEF InOrder, Releases
<1>8. CheckTypes'
  BY <1>1, <1>2, <1>4 DEF CheckInv, CheckTypes
<1>9. ASSUME NEW tag, NEW t, WasLatest(tag, t), t <= now
      PROVE  WasLatest(tag, t)'
  BY <1>2, <1>5, <1>6, <1>9 DEF WasLatest
<1>10. ASSUME NEW p \in Procs
       PROVE  EntryOf(p)' /\ AnswerOf(p)' /\ VerdictOf(p)'
  <2>1. EntryOf(p) /\ AnswerOf(p) /\ VerdictOf(p)
    BY DEF CheckInv
  <2>2. EntryOf(p)'
    <3>1. cache[p].kind = "entry" => WasLatest(cache[p].tag, cache[p].at)'
      BY <1>2, <1>9, <2>1 DEF EntryOf
    <3> QED BY <1>2, <2>1, <3>1 DEF EntryOf
  <2>3. AnswerOf(p)'
    <3>1. check[p] = "store" => WasLatest(answer[p], now)'
      BY <1>2, <1>4, <1>9, <2>1 DEF AnswerOf
    <3> QED BY <1>2, <3>1 DEF AnswerOf
  <2>4. VerdictOf(p)'
    <3>1. ASSUME verdict[p].kind # "none"
          PROVE  WasLatest(verdict[p].tag, verdict[p].at - Ttl + 1)'
      <4>1. verdict[p].at \in Nat /\ verdict[p].at <= now
            /\ WasLatest(verdict[p].tag, verdict[p].at - Ttl + 1)
        BY <2>1, <3>1 DEF VerdictOf, CheckInv, CheckTypes, Verdicts, Verdict, NoVerdict
      <4>2. verdict[p].at - Ttl + 1 <= now
        BY <1>4, <4>1
      <4> QED BY <1>2, <1>9, <4>1, <4>2
    <3> QED BY <1>2, <2>1, <3>1 DEF VerdictOf
  <2> QED BY <2>2, <2>3, <2>4
<1>11. \A p \in Procs : version'[p] \in Out'
  BY <1>2, <1>5 DEF CheckInv
<1> QED BY <1>7, <1>8, <1>10, <1>11 DEF CheckInv

\* A check is over within the tick it began in.
LEMMA TickKeeps ==
    ASSUME CheckInv, Tick
    PROVE  CheckInv'
<1>1. /\ UNCHANGED <<check, answer, cache, verdict, version, upgraded, released, stops, faults>>
      /\ now' = now + 1 /\ now \in Nat /\ now' \in 0..MaxTime /\ Out' = Out
      /\ \A p \in Procs : check[p] \in {"none", "done"}
  BY StartupAssumption DEF Tick, checkVars, CheckInv, CheckTypes, Out
<1>2. ASSUME NEW p \in Procs
      PROVE  EntryOf(p)' /\ AnswerOf(p)' /\ VerdictOf(p)'
  <2>1. EntryOf(p)'
    <3>1. cache[p].kind = "entry" => cache[p].at \in Nat
      BY DEF CheckInv, CheckTypes, Caches, Entry, NoCache, TornCache
    <3> QED BY <1>1, <3>1 DEF CheckInv, EntryOf, WasLatest
  <2>2. AnswerOf(p)'
    BY <1>1 DEF AnswerOf
  <2>3. VerdictOf(p)'
    <3>1. verdict[p].kind # "none" => verdict[p].at \in Nat
      BY DEF CheckInv, CheckTypes, Verdicts, Verdict, NoVerdict
    <3> QED BY <1>1, <3>1 DEF CheckInv, VerdictOf, WasLatest
  <2> QED BY <2>1, <2>2, <2>3
<1> QED BY <1>1, <1>2 DEF CheckInv, CheckTypes, InOrder

\* The operator's new binary is the latest, and of now (update.rs:155-218).
LEMMA StopKeeps ==
    ASSUME CheckInv, NEW p \in Procs, Stop(p)
    PROVE  CheckInv'
<1>1. /\ check' = [check EXCEPT ![p] = "none"] /\ answer' = [answer EXCEPT ![p] = 1]
      /\ UNCHANGED <<cache, verdict, worldVars, faults>>
      /\ stops' \in 0..MaxStops /\ faults' \in 0..MaxFaults /\ 1 \in Releases
  BY StartupAssumption, Kept DEF Stop, Exit, Releases
<1>2. CASE UNCHANGED <<version, upgraded>>
  BY <1>1, <1>2, Kept, EndOrStart
<1>3. CASE version' = [version EXCEPT ![p] = latest] /\ upgraded' = [upgraded EXCEPT ![p] = now]
  <2>1. /\ version \in [Procs -> Releases] /\ upgraded \in [Procs -> 0..MaxTime]
        /\ now \in 0..MaxTime /\ MaxTime \in Nat /\ Out' = Out /\ Ttl \in Nat \ {0}
        /\ latest \in Releases /\ latest \in Out
        /\ check \in [Procs -> CheckSteps] /\ version[p] <= latest
    <3>1. /\ version \in [Procs -> Releases] /\ upgraded \in [Procs -> 0..MaxTime]
          /\ now \in 0..MaxTime /\ check \in [Procs -> CheckSteps] /\ version[p] \in Out
      BY DEF CheckInv, CheckTypes
    <3>2. Out' = Out
      BY <1>1 DEF Out, worldVars
    <3>3. latest \in Out /\ Out \subseteq Releases /\ Out = 1..latest
      BY LatestIsOut
    <3>4. version[p] <= latest
      BY <3>1, <3>3 DEF Releases
    <3> QED BY <3>1, <3>2, <3>3, <3>4, StartupAssumption
  <2>2. CheckTypes'
    <3>1. "none" \in CheckSteps
      BY DEF CheckSteps
    <3> QED BY <1>1, <1>3, <2>1, <3>1 DEF CheckInv, CheckTypes, worldVars
  <2>3. ASSUME NEW q \in Procs
        PROVE  version'[q] \in Out' /\ EntryOf(q)' /\ AnswerOf(q)' /\ VerdictOf(q)'
    <3>1. CASE q # p
      <4>1. check'[q] = check[q] /\ answer'[q] = answer[q] /\ version'[q] = version[q]
            /\ upgraded'[q] = upgraded[q]
        BY <1>1, <1>3, <2>1, <3>1 DEF CheckInv, CheckTypes
      <4> QED BY <1>1, <2>1, <4>1
              DEF CheckInv, EntryOf, AnswerOf, VerdictOf, WasLatest, worldVars
    <3>2. CASE q = p
      <4>1. /\ check'[p] = "none" /\ version'[p] = latest /\ upgraded'[p] = now
            /\ cache'[p] = cache[p] /\ verdict'[p] = verdict[p] /\ now' = now
        BY <1>1, <1>3, <2>1 DEF worldVars
      <4>2. EntryOf(p)'
        <5>1. cache[p].kind = "entry" => cache[p].current \in Nat
          <6>1. cache[p].kind = "entry" => cache[p].current \in Releases
            BY Kept DEF Caches, Entry, NoCache, TornCache
          <6> QED BY <6>1 DEF Releases
        <5>2. EntryOf(p) /\ version[p] \in Nat /\ latest \in Nat
          BY <2>1 DEF CheckInv, Releases
        <5>3. cache[p].kind = "entry" => WasLatest(cache[p].tag, cache[p].at)'
          BY <1>1, <2>1, <5>2 DEF EntryOf, WasLatest, worldVars
        <5> QED BY <2>1, <4>1, <5>1, <5>2, <5>3 DEF EntryOf
      <4>3. AnswerOf(p)'
        BY <4>1 DEF AnswerOf
      <4>4. VerdictOf(p)'
        <5>1. verdict[p].kind # "none" => verdict[p].at \in Nat
          BY DEF CheckInv, CheckTypes, Verdicts, Verdict, NoVerdict
        <5>2. VerdictOf(p)
          BY DEF CheckInv
        <5>3. verdict[p].kind # "none" => WasLatest(verdict[p].tag, verdict[p].at - Ttl + 1)'
          BY <1>1, <2>1, <5>2 DEF VerdictOf, WasLatest, worldVars
        <5> QED BY <2>1, <4>1, <5>1, <5>2, <5>3 DEF VerdictOf
      <4> QED BY <2>1, <3>2, <4>1, <4>2, <4>3, <4>4
    <3> QED BY <3>1, <3>2
  <2> QED BY <2>1, <2>2, <2>3 DEF CheckInv, InOrder
<1> QED BY <1>2, <1>3 DEF Stop

\* Every step keeps what the checks know.
LEMMA ChecksKeep ==
    ASSUME CheckInv, [Next]_vars
    PROVE  CheckInv'
<1>0. 1 \in Releases /\ MaxFaults \in Nat
      /\ \A c \in {"none", "read", "done"} : c \in CheckSteps
  BY StartupAssumption DEF Releases, CheckSteps
<1>1. CASE UNCHANGED <<version, checkVars, worldVars, upgraded>> /\ stops' \in 0..MaxStops
           /\ faults' \in 0..MaxFaults
  <2>1. Out' = Out /\ UNCHANGED <<check, answer, cache, verdict, released, now>>
    BY <1>1 DEF Out, worldVars, checkVars
  <2>2. CheckTypes' /\ InOrder'
    BY <1>1, <2>1 DEF CheckInv, CheckTypes, InOrder
  <2>3. ASSUME NEW p \in Procs
        PROVE  version'[p] \in Out' /\ EntryOf(p)' /\ AnswerOf(p)' /\ VerdictOf(p)'
    BY <1>1, <2>1 DEF CheckInv, EntryOf, AnswerOf, VerdictOf, WasLatest
  <2> QED BY <2>2, <2>3 DEF CheckInv
<1>2. ASSUME NEW p \in Procs, Exit(p), UNCHANGED <<version, upgraded, worldVars>>,
             stops' \in 0..MaxStops, faults' \in 0..MaxFaults,
             UNCHANGED cache \/ cache' = [cache EXCEPT ![p] = TornCache]
      PROVE  CheckInv'
  <2>1. check' = [check EXCEPT ![p] = "none"] /\ answer' = [answer EXCEPT ![p] = 1]
        /\ UNCHANGED verdict
    BY <1>2 DEF Exit
  <2>2. CASE UNCHANGED cache
    BY <1>0, <1>2, <2>1, <2>2, Kept, EndOrStart
  <2>3. CASE cache' = [cache EXCEPT ![p] = TornCache]
    BY <1>0, <1>2, <2>1, <2>3, EndOrStart
  <2> QED BY <1>2, <2>2, <2>3
<1>3. stops \in 0..MaxStops /\ faults \in 0..MaxFaults /\ (Fault => faults' \in 0..MaxFaults)
  BY <1>0 DEF CheckInv, CheckTypes, Fault
<1>4. ASSUME NEW p \in Procs, Boot(p)
      PROVE  CheckInv'
  <2>1. UNCHANGED <<version, answer, cache, verdict, worldVars, upgraded, stops, faults>>
    BY <1>4 DEF Boot
  <2>2. PICK c \in {"none", "read", "done"} : check' = [check EXCEPT ![p] = c]
    BY <1>4 DEF Boot
  <2> QED BY <1>3, <2>1, <2>2, Kept, EndOrStart
<1>5. ASSUME NEW p \in Procs, Connect(p)
      PROVE  CheckInv'
  <2>1. UNCHANGED <<version, worldVars, upgraded, stops>>
    BY <1>5 DEF Connect
  <2>2. CASE UNCHANGED checkVars /\ UNCHANGED faults
    BY <1>1, <1>3, <2>1, <2>2
  <2>3. CASE Exit(p) /\ UNCHANGED cache /\ Fault
    BY <1>2, <1>3, <2>1, <2>3
  <2> QED BY <1>5, <2>2, <2>3 DEF Connect
<1>6. ASSUME NEW p \in Procs, Migrate(p)
      PROVE  CheckInv'
  <2>1. UNCHANGED <<version, worldVars, upgraded, stops>>
    BY <1>6 DEF Migrate
  <2>2. CASE UNCHANGED checkVars /\ UNCHANGED faults
    BY <1>1, <1>3, <2>1, <2>2
  <2>3. CASE Exit(p) /\ UNCHANGED cache /\ (Fault \/ UNCHANGED faults)
    BY <1>2, <1>3, <2>1, <2>3
  <2> QED BY <1>6, <2>2, <2>3 DEF Migrate, FindTable, CreateTable, AlterTable
<1>7. ASSUME NEW p \in Procs, Kill(p)
      PROVE  CheckInv'
  BY <1>2, <1>3, <1>7 DEF Kill
<1>8. UNCHANGED vars => CheckInv'
  BY <1>1, <1>3 DEF vars
<1> QED BY <1>4, <1>5, <1>6, <1>7, <1>8, CheckKeeps, StopKeeps, ReleaseKeeps, TickKeeps
        DEF Next, Run

LEMMA ChecksStart ==
    ASSUME Init
    PROVE  CheckInv
<1>1. Out = 1..1 /\ 1 \in Releases
  BY StartupAssumption DEF Init, Out, Releases, NotYet
<1>2. CheckTypes
  <2>1. /\ \A p \in Procs : check[p] = "none" /\ cache[p] = NoCache /\ verdict[p] = NoVerdict
        /\ check \in [Procs -> CheckSteps] /\ cache \in [Procs -> Caches]
        /\ verdict \in [Procs -> Verdicts]
    BY DEF Init, CheckSteps, Caches, Verdicts
  <2>2. /\ now \in 0..MaxTime /\ stops \in 0..MaxStops /\ faults \in 0..MaxFaults
        /\ upgraded \in [Procs -> 0..MaxTime] /\ version \in [Procs -> Releases]
        /\ answer \in [Procs -> Releases]
        /\ released \in [Releases -> 0..MaxTime \cup {NotYet}]
    BY <1>1, StartupAssumption DEF Init
  <2> QED BY <2>1, <2>2 DEF CheckTypes
<1>3. \A p \in Procs : version[p] \in Out /\ EntryOf(p) /\ AnswerOf(p) /\ VerdictOf(p)
  <2> SUFFICES ASSUME NEW p \in Procs
               PROVE  version[p] \in Out /\ EntryOf(p) /\ AnswerOf(p) /\ VerdictOf(p)
    OBVIOUS
  <2>1. /\ version[p] = 1 /\ check[p] = "none" /\ cache[p].kind = "none"
        /\ verdict[p].kind = "none"
    BY DEF Init, NoCache, NoVerdict
  <2> QED BY <1>1, <2>1 DEF EntryOf, AnswerOf, VerdictOf
<1> QED BY <1>1, <1>2, <1>3 DEF CheckInv, InOrder

LEMMA ChecksHold == Spec => []CheckInv
BY ChecksStart, ChecksKeep, PTL DEF Spec

----------------------------------------------------------------------------
\* Everything a process, its file and the database hold is of its kind, and there is
\* always a latest release to ask GitHub for (main.rs:31-119, update.rs:60-157).
THEOREM StartupTyped == Spec => []TypeOK
<1>1. Init => IInv
  BY DEF Init, IInv, MainInv, SchemaInOrder, Steps, Beyond
<1>2. CheckInv /\ IInv => TypeOK
  <2> SUFFICES ASSUME CheckInv, IInv PROVE TypeOK
    OBVIOUS
  <2>1. Out # {}
    BY LatestIsOut
  <2> QED BY <2>1 DEF CheckInv, CheckTypes, IInv, TypeOK, CheckSteps, Caches, Verdicts
<1> QED BY <1>1, <1>2, StepKeeps, ChecksHold, PTL DEF Spec

\* However long a process runs, and however its check, the operator's upgrades and the
\* releases come between each other: what a check says was true within the hour
\* (update.rs:75-78, update.rs:142-157).
THEOREM VerdictsAreRecent == Spec => []VerdictIsRecent
<1>1. CheckInv => VerdictIsRecent
  <2> SUFFICES ASSUME CheckInv, NEW p \in Procs, verdict[p].kind # "none"
               PROVE  LET v == verdict[p]
                          recent(t) == t > v.at - Ttl
                      IN /\ v.tag + 1 \in Out => recent(released[v.tag + 1])
                         /\ v.current # v.version => recent(upgraded[p])
                         /\ v.kind = "current" => v.tag <= v.version
    BY DEF VerdictIsRecent
  <2>1. /\ VerdictOf(p) /\ Ttl \in Nat /\ upgraded[p] \in Nat
        /\ released \in [Releases -> 0..MaxTime \cup {NotYet}] /\ Out \subseteq Releases
        /\ verdict[p].at \in Nat
    <3>1. verdict[p] \in Verdict
      BY Kept DEF Verdicts, NoVerdict
    <3>2. verdict[p].at \in Nat
      BY <3>1 DEF Verdict
    <3>3. VerdictOf(p) /\ upgraded[p] \in 0..MaxTime
          /\ released \in [Releases -> 0..MaxTime \cup {NotYet}]
      BY DEF CheckInv, CheckTypes
    <3>4. Out \subseteq Releases
      BY DEF Out
    <3> QED BY <3>2, <3>3, <3>4, StartupAssumption
  <2>2. verdict[p].tag + 1 \in Out => released[verdict[p].tag + 1] \in Int
    BY <2>1 DEF NotYet
  <2> QED BY <2>1, <2>2 DEF VerdictOf, WasLatest
<1> QED BY <1>1, ChecksHold, PTL

\* However often a process is killed and restarted, and wherever in its check: an answer
\* it stored stands for its hour.  Only a check that found none, or one past its hour,
\* writes the file, and the hour of an entry does not begin again (update.rs:60-78,
\* README.md:234).
THEOREM AnswersStandForAnHour == Spec => OneAnswerPerHour
<1>1. ASSUME CheckInv, [Next]_vars, NEW p \in Procs, cache'[p] # cache[p],
             cache[p].kind = "entry"
      PROVE  now - cache[p].at >= Ttl
  <2>1. EntryOf(p) /\ cache \in [Procs -> Caches]
    BY <1>1 DEF CheckInv, CheckTypes
  <2>2. cache' # cache
    BY <1>1
  <2>3. ASSUME NEW q \in Procs, cache' = [cache EXCEPT ![q] = cache'[q]], check[q] = "store"
        PROVE  now - cache[p].at >= Ttl
    <3>1. q = p
      BY <1>1, <2>1, <2>3
    <3> QED BY <1>1, <2>1, <2>3, <3>1 DEF EntryOf
  <2>4. ASSUME NEW q \in Procs, StoreAnswer(q)
        PROVE  now - cache[p].at >= Ttl
    <3>1. write_cache(q) /\ check[q] = "store"
      BY <2>2, <2>4 DEF StoreAnswer
    <3>2. cache' = [cache EXCEPT ![q] = cache'[q]]
      BY <2>1, <3>1 DEF write_cache
    <3> QED BY <2>3, <3>1, <3>2
  <2>5. ASSUME NEW q \in Procs, Kill(q)
        PROVE  now - cache[p].at >= Ttl
    <3>1. cache' = [cache EXCEPT ![q] = TornCache] /\ check[q] = "store"
      BY <2>2, <2>5 DEF Kill
    <3>2. cache' = [cache EXCEPT ![q] = cache'[q]]
      BY <2>1, <3>1
    <3> QED BY <2>3, <3>1, <3>2
  <2>6. ASSUME NEW q \in Procs, Run(q) \/ Stop(q) \/ ReadCache(q) \/ Query(q)
        PROVE  FALSE
    BY <2>2, <2>6 DEF Run, Boot, Connect, Migrate, FindTable, CreateTable, AlterTable, Exit,
                      checkVars, Stop, ReadCache, Query
  <2>7. ~ (Release \/ Tick \/ UNCHANGED vars)
    BY <2>2 DEF Release, Tick, vars, checkVars
  <2> QED BY <1>1, <2>4, <2>5, <2>6, <2>7 DEF Next, Check
<1>2. CheckInv /\ [Next]_vars =>
        [\A p \in Procs : cache'[p] # cache[p] /\ cache[p].kind = "entry"
                            => now - cache[p].at >= Ttl]_vars
  BY <1>1
<1> QED BY <1>2, ChecksHold, PTL DEF Spec, OneAnswerPerHour
=============================================================================
