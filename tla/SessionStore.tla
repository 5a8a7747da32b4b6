---------------------------- MODULE SessionStore ----------------------------
(***************************************************************************)
(* The PostgreSQL tables the control plane keeps sessions and their bills  *)
(* in.  Each repository function is one statement, hence atomic, and is    *)
(* written as the table it leaves behind; nothing in it looks at the state *)
(* a row is in before it overwrites it.                                    *)
(*                                                                         *)
(* A statement that fails (connection lost, pool exhausted) changes        *)
(* nothing and spends one fault of the budget MaxFaults, as do the other   *)
(* failures of the composed system.                                        *)
(***************************************************************************)
EXTENDS SessionTypes

CONSTANT MaxFaults   \* bound: failures in one behaviour
ASSUME MaxFaultsAssumption == MaxFaults \in Nat

VARIABLES
    rows,      \* sessions
    usage,     \* usage_records, counted per session: those without and with an end_time
    faults     \* failures so far

storeVars == <<rows, usage, faults>>

\* bound: spur_job_id is set; started: started_at is; addr: ssh_host and ssh_port are.
Row == [state : SessionStates \cup {"absent"},
        bound : BOOLEAN, started : BOOLEAN, addr : BOOLEAN]
Records == [open : Nat, closed : Nat]

StoreTypeOK ==
    /\ rows \in [Sessions -> Row]
    /\ usage \in [Sessions -> Records]
    /\ faults \in 0..MaxFaults

StoreInit ==
    /\ rows = [s \in Sessions |-> [state |-> "absent", bound |-> FALSE,
                                   started |-> FALSE, addr |-> FALSE]]
    /\ usage = [s \in Sessions |-> [open |-> 0, closed |-> 0]]
    /\ faults = 0

Fault == faults < MaxFaults /\ faults' = faults + 1
NoFault == UNCHANGED faults

----------------------------------------------------------------------------
(* sessions *)

create_session(s) == [rows EXCEPT ![s].state = "creating"]

update_session_state(s, state) == [rows EXCEPT ![s].state = state]

\* Broken form: the job id is not stored.
set_pending_only(s) == [rows EXCEPT ![s].state = "pending"]

update_session_spur_job(s) ==
    [rows EXCEPT ![s].bound = TRUE, ![s].state = "pending"]

update_session_running(s) ==
    [rows EXCEPT ![s].state = "running", ![s].started = TRUE]

update_session_ssh(s) == [rows EXCEPT ![s].addr = TRUE]

\* ended_at and error_message are left out: nothing reads them back.
update_session_ended(s, final_state) == [rows EXCEPT ![s].state = final_state]

update_session_failed(s) == [rows EXCEPT ![s].state = "failed"]

\* Broken form: the loop forgets sessions being stopped.
list_without_stopping == {s \in Sessions : rows[s].state \in ActiveStates \ {"stopping"}}

list_active_sessions == {s \in Sessions : rows[s].state \in ActiveStates}

count_active_gpus_for_user(u) ==
    Cardinality(Gpus({s \in Sessions : Owner[s] = u /\ rows[s].state \in ActiveStates}))

----------------------------------------------------------------------------
(* usage_records *)

\* Broken form: every insert conflicts with something and is dropped.
conflicting_start(s) == usage

\* ON CONFLICT DO NOTHING has no constraint to conflict with: the only key is
\* a generated id, so every call adds a record.
record_usage_start(s) == [usage EXCEPT ![s].open = @ + 1]

\* Broken form: WHERE end_time IS NOT NULL, records that have ended already.
end_the_ended(s) == usage

\* Broken form: DELETE in place of UPDATE.
forget_the_open(s) == [usage EXCEPT ![s].open = 0]

\* Every record of the session without an end_time gets this one.
record_usage_end(s) ==
    [usage EXCEPT ![s] = [open |-> 0, closed |-> @.closed + @.open]]

----------------------------------------------------------------------------
\* `let _ = update(..).await`: the caller goes on whether or not it was written.
Try(table) ==
    \/ rows' = table /\ NoFault
    \/ UNCHANGED rows /\ Fault
=============================================================================
