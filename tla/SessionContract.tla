--------------------------- MODULE SessionContract ---------------------------
(***************************************************************************)
(* What the owner of a session is promised, with the handlers, loops and   *)
(* replicas left out: the life of the work done for it, of what the API    *)
(* shows of it, and of its bill.  SessionControl implements this.          *)
(*                                                                         *)
(* Sole says that one loop runs and nobody deletes, Alone that besides the *)
(* host is a native one and nothing is requeued; the promises they guard   *)
(* are those that other loops, deletes and requeues break.                 *)
(***************************************************************************)
EXTENDS Integers

CONSTANTS Sessions, Sole, Alone

VARIABLES
    work,      \* the job of each session
    shown,     \* what its row says of it
    facts,     \* what is stored about it once it is known: job id, start, address
    bill,      \* its usage records, those without and with an end
    service    \* whether its ssh service exists

vars == <<work, shown, facts, bill, service>>

Init ==
    /\ work = [s \in Sessions |-> "none"]
    /\ shown = [s \in Sessions |-> "absent"]
    /\ facts = [s \in Sessions |-> [bound |-> FALSE, started |-> FALSE, addr |-> FALSE]]
    /\ bill = [s \in Sessions |-> [open |-> 0, closed |-> 0]]
    /\ service = [s \in Sessions |-> FALSE]

----------------------------------------------------------------------------
(* The work: submitted for a session that exists, done once. *)

Submit(s) ==
    /\ work[s] = "none" /\ shown[s] # "absent"
    /\ work' = [work EXCEPT ![s] = "live"]
    /\ UNCHANGED <<shown, facts, bill, service>>

Finish(s) ==
    /\ work[s] = "live"
    /\ work' = [work EXCEPT ![s] = "over"]
    /\ UNCHANGED <<shown, facts, bill, service>>

----------------------------------------------------------------------------
(* What is shown, and what is stored about the session. *)

Show(s, what) == shown' = [shown EXCEPT ![s] = what]

\* Once it ended, a session is left as it is where one loop runs and nobody deletes.
Touchable(s) == shown[s] # "absent" /\ (Sole => shown[s] = "active")

Request(s) ==
    /\ shown[s] = "absent" /\ Show(s, "active")
    /\ UNCHANGED <<work, facts, bill, service>>

\* A session that knows its job is not shown as ended before the job is over.
End(s) ==
    /\ shown[s] = "active" /\ Show(s, "ended")
    /\ facts[s].bound => work[s] = "over"
    /\ UNCHANGED <<work, facts, bill, service>>

Revive(s) ==
    /\ shown[s] = "ended" /\ ~ Sole /\ Show(s, "active")
    /\ UNCHANGED <<work, facts, bill, service>>

\* The job id: only of work that was submitted.
Bind(s) ==
    /\ Touchable(s) /\ work[s] # "none" /\ Show(s, "active")
    /\ facts' = [facts EXCEPT ![s].bound = TRUE]
    /\ UNCHANGED <<work, bill, service>>

Start(s) ==
    /\ Touchable(s) /\ work[s] # "none" /\ Show(s, "active")
    /\ Alone => ~ facts[s].started
    /\ facts' = [facts EXCEPT ![s].started = TRUE]
    /\ UNCHANGED <<work, bill, service>>

Address(s) ==
    /\ facts[s].started
    /\ facts' = [facts EXCEPT ![s].addr = TRUE]
    /\ UNCHANGED <<work, shown, bill, service>>

----------------------------------------------------------------------------
(* The bill and the service: opened after the start, closed after the end. *)

OpenBill(s) ==
    /\ facts[s].started
    /\ Alone => bill[s].open + bill[s].closed = 0
    /\ bill' = [bill EXCEPT ![s].open = @ + 1]
    /\ UNCHANGED <<work, shown, facts, service>>

\* Every record is kept, those that were open now with an end.
CloseBill(s) ==
    /\ work[s] = "over"
    /\ bill' = [bill EXCEPT ![s] = [open |-> 0, closed |-> @.closed + @.open]]
    /\ UNCHANGED <<work, shown, facts, service>>

Expose(s) ==
    /\ facts[s].started
    /\ service' = [service EXCEPT ![s] = TRUE]
    /\ UNCHANGED <<work, shown, facts, bill>>

Withdraw(s) ==
    /\ work[s] = "over"
    /\ service' = [service EXCEPT ![s] = FALSE]
    /\ UNCHANGED <<work, shown, facts, bill>>

----------------------------------------------------------------------------
Next == \E s \in Sessions :
    \/ Submit(s) \/ Finish(s)
    \/ Request(s) \/ End(s) \/ Revive(s) \/ Bind(s) \/ Start(s) \/ Address(s)
    \/ OpenBill(s) \/ CloseBill(s) \/ Expose(s) \/ Withdraw(s)

Spec == Init /\ [][Next]_vars
=============================================================================
