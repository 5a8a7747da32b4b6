--------------------------- MODULE TerminalBridge ---------------------------
(***************************************************************************)
(* The web terminal: GET /api/sessions/:id/terminal upgrades to a          *)
(* WebSocket, a handler connects it to a shell in the session's job        *)
(* (handle_terminal on K8s, handle_terminal_spur on a native host), and    *)
(* two tasks then copy, one in each direction.  Connections share nothing, *)
(* so one is enough.  The socket closes when every part of it is dropped:  *)
(* by a handler that gave up, or by both tasks.                            *)
(*                                                                         *)
(* Timeouts and intervals are steps of their own; "stalled" is a client    *)
(* that reads nothing, its buffers full.  A client that vanished is only   *)
(* found out by sending to it.  What the input task writes to the shell    *)
(* waits in a pipe of 1024 bytes on K8s and in a channel of 256 messages   *)
(* on a native host; while that is full the write does not return.         *)
(***************************************************************************)
EXTENDS Naturals, Sequences

CONSTANTS
    MaxInbox,    \* bound: messages of the client the server has not read
    MaxOutput,   \* bound: chunks of output the server has not read
    MaxPipe,     \* messages the pipe to the shell takes
    MaxStalls    \* bound: times the client stops reading

ASSUME BoundsAssumption ==
    MaxInbox \in Nat /\ MaxOutput \in Nat /\ MaxPipe \in Nat /\ MaxStalls \in Nat

AGENT_CONNECT_RETRIES == 3

VARIABLES
    backend,   \* "k8s" or "native_host", for good
    job, row,  \* "running" or "over": the job, and what the session row says of it
    shell,     \* the attached shell and the connection to it
    pipe,      \* messages written to the shell that it has not read
    output,    \* chunks the shell wrote and the server has not read
    handler,   \* where handle_terminal(_spur) stands
    attempts,  \* connections to the agent that failed
    stdin,     \* task 1, WebSocket to shell: waiting, writing the message in hand, or done
    stdout,    \* task 2, shell to WebSocket: waiting, sending data or a ping, or done
    client,    \* the browser's end of the WebSocket
    inbox,     \* messages of the client on their way to task 1
    stalls     \* times the client stopped reading

serverVars == <<handler, attempts, stdin, stdout>>
jobVars == <<job, row>>
shellVars == <<shell, pipe, output>>
vars == <<backend, jobVars, shellVars, serverVars, client, inbox, stalls>>

Messages == {"key", "empty"}
Handler == {"idle", "lookup", "connect", "attach", "open", "ended"}
Client == {"absent", "here", "stalled", "closed", "gone", "reset"}

\* Every variable holds what the handlers can bring it to; the agent is tried
\* at most AGENT_CONNECT_RETRIES times (ws_handler.rs:200).
TypeOK ==
    /\ backend \in {"k8s", "native_host"}
    /\ job \in {"running", "over"} /\ row \in {"running", "over"}
    /\ shell \in {"none", "alive", "ended"} /\ output \in 0..MaxOutput
    /\ pipe \in 0..MaxPipe
    /\ handler \in Handler /\ attempts \in 0..AGENT_CONNECT_RETRIES
    /\ stdin \in {"none", "wait", "done"} \cup Messages
    /\ stdout \in {"none", "wait", "data", "ping", "done"}
    /\ client \in Client /\ stalls \in 0..MaxStalls
    /\ inbox \in Seq(Messages) /\ Len(inbox) <= MaxInbox

Init ==
    /\ backend \in {"k8s", "native_host"}
    /\ job = "running" /\ row = "running"
    /\ shell = "none" /\ pipe = 0 /\ output = 0
    /\ handler = "idle" /\ attempts = 0
    /\ stdin = "none" /\ stdout = "none"
    /\ client = "absent" /\ inbox = <<>> /\ stalls = 0

\* The browser sees the socket close once none of these is left.
SocketHeld ==
    \/ handler \in {"lookup", "connect", "attach"}
    \/ stdin \in {"wait"} \cup Messages
    \/ stdout \in {"wait", "data", "ping"}

----------------------------------------------------------------------------
(* terminal_upgrade and the handler up to the start of the tasks *)

\* A session that does not run, or whose pod is not found, gets no socket.
terminal_upgrade ==
    /\ handler = "idle" /\ row = "running"
    /\ handler' = IF backend = "k8s" THEN "attach" ELSE "lookup"
    /\ client' = "here"
    /\ UNCHANGED <<backend, jobVars, shellVars, attempts, stdin, stdout, inbox, stalls>>

HandlerAt(from, to) == handler = from /\ handler' = to

\* get_job may fail, and the job may be on no node.
Lookup ==
    /\ HandlerAt("lookup", "connect") \/ HandlerAt("lookup", "ended")
    /\ UNCHANGED <<backend, jobVars, shellVars, attempts, stdin, stdout, client, inbox, stalls>>

\* Broken form: goes on after the last attempt.
once_more(attempt) == IF attempt <= AGENT_CONNECT_RETRIES THEN "connect" ELSE "ended"

after_failure(attempt) == IF attempt < AGENT_CONNECT_RETRIES THEN "connect" ELSE "ended"

ConnectAgent ==
    /\ \/ HandlerAt("connect", "attach") /\ UNCHANGED attempts
       \/ /\ attempts' = attempts + 1
          /\ HandlerAt("connect", after_failure(attempts'))
    /\ UNCHANGED <<backend, jobVars, shellVars, stdin, stdout, client, inbox, stalls>>

\* exec or attach_job: opens a shell in a job that still runs.
Attach ==
    /\ \/ /\ HandlerAt("attach", "open") /\ job = "running"
          /\ shell' = "alive" /\ stdin' = "wait" /\ stdout' = "wait"
       \/ HandlerAt("attach", "ended") /\ UNCHANGED <<shell, stdin, stdout>>
    /\ UNCHANGED <<backend, jobVars, pipe, output, attempts, client, inbox, stalls>>

EitherDone == handler = "open" /\ "done" \in {stdin, stdout}

\* Broken form: the task that is still running is aborted.
abort_other ==
    /\ EitherDone
    /\ handler' = "ended" /\ stdin' = "done" /\ stdout' = "done"
    /\ UNCHANGED <<backend, jobVars, shellVars, attempts, client, inbox, stalls>>

\* The select! drops the handle of the other task, which runs on by itself.
FinishEither ==
    /\ EitherDone
    /\ handler' = "ended"
    /\ UNCHANGED <<backend, jobVars, shellVars, attempts, stdin, stdout, client, inbox, stalls>>

----------------------------------------------------------------------------
(* Task 1: WebSocket to shell *)

ReadInput ==
    /\ stdin = "wait" /\ inbox # <<>>
    /\ inbox' = Tail(inbox) /\ stdin' = Head(inbox)
    /\ UNCHANGED <<backend, jobVars, shellVars, handler, attempts, stdout, client, stalls>>

\* Broken form: an empty message is not sent on, on either backend.
skips_empty(msg) == msg = "empty"

\* write_all of nothing does not touch the pipe; an empty message to the agent is
\* one message more.
writes_nothing(msg) == backend = "k8s" /\ msg = "empty"

\* No timeout: the task waits while a live shell leaves the pipe full.  An end of
\* the shell, or of the call to the agent, fails the write.
WriteInput ==
    /\ stdin \in Messages
    /\ \/ writes_nothing(stdin) /\ stdin' = "wait" /\ UNCHANGED pipe
       \/ /\ ~ writes_nothing(stdin) /\ shell = "alive" /\ pipe < MaxPipe
          /\ stdin' = "wait" /\ pipe' = pipe + 1
       \/ /\ ~ writes_nothing(stdin) /\ shell # "alive"
          /\ stdin' = "done" /\ UNCHANGED pipe
    /\ UNCHANGED <<backend, jobVars, shell, output, handler, attempts, stdout, client, inbox, stalls>>

\* Close, None or Err.
ReadClose ==
    /\ stdin = "wait" /\ inbox = <<>>
    /\ client \in {"closed", "reset"}
    /\ stdin' = "done"
    /\ UNCHANGED <<backend, jobVars, shellVars, handler, attempts, stdout, client, inbox, stalls>>

----------------------------------------------------------------------------
(* Task 2: shell to WebSocket *)

StdoutGoes(from, to) ==
    /\ stdout = from /\ stdout' = to
    /\ UNCHANGED <<backend, jobVars, shell, pipe, handler, attempts, stdin, inbox, stalls>>

ReadOutput ==
    /\ output > 0 /\ output' = output - 1
    /\ StdoutGoes("wait", "data")
    /\ UNCHANGED client

ReadEof ==
    /\ output = 0 /\ shell = "ended"
    /\ StdoutGoes("wait", "done")
    /\ UNCHANGED <<output, client>>

\* Broken form: the tick does nothing, as it does in task 1.
no_op_tick == StdoutGoes("wait", "wait") /\ UNCHANGED <<output, client>>

PingTick == StdoutGoes("wait", "ping") /\ UNCHANGED <<output, client>>

\* What was sent to a vanished client is not acknowledged: from then on the
\* kernel reports the connection as broken.
Sent(what) ==
    \/ client = "here" /\ StdoutGoes(what, "wait") /\ UNCHANGED client
    \/ client = "gone" /\ StdoutGoes(what, "wait") /\ client' = "reset"

\* Broken form: a failed send is taken for a slow one.
ignored(what) ==
    /\ client \in {"closed", "reset"}
    /\ StdoutGoes(what, "wait") /\ UNCHANGED client

SendFails(what) ==
    /\ client \in {"closed", "reset"}
    /\ StdoutGoes(what, "done") /\ UNCHANGED client

\* Data the client does not take within WS_SEND_TIMEOUT ends the task.
SendTimesOut == client = "stalled" /\ StdoutGoes("data", "done") /\ UNCHANGED client

SendData == (Sent("data") \/ SendFails("data") \/ SendTimesOut) /\ UNCHANGED output

\* A ping has no timeout: it waits for as long as the client stalls.
SendPing == (Sent("ping") \/ SendFails("ping")) /\ UNCHANGED output

----------------------------------------------------------------------------
(* The shell, the job and its session *)

\* What runs in the shell may read what is typed, or not.
ShellReads ==
    /\ shell = "alive" /\ pipe > 0 /\ pipe' = pipe - 1
    /\ UNCHANGED <<backend, jobVars, shell, output, serverVars, client, inbox, stalls>>

\* The connection breaks when nobody reads what the shell writes.
ShellWrites ==
    /\ shell = "alive"
    /\ IF stdout = "done" THEN shell' = "ended" /\ UNCHANGED output
       ELSE output < MaxOutput /\ output' = output + 1 /\ UNCHANGED shell
    /\ UNCHANGED <<backend, jobVars, pipe, serverVars, client, inbox, stalls>>

\* The user leaves the shell, or it dies.
ShellEnds ==
    /\ shell = "alive" /\ shell' = "ended"
    /\ UNCHANGED <<backend, jobVars, pipe, output, serverVars, client, inbox, stalls>>

\* Dropping the stream of a call that is under way cancels the call.
CallCancelled == backend = "native_host" /\ stdout = "done" /\ ShellEnds

JobEnds ==
    /\ job = "running" /\ job' = "over"
    /\ shell' = IF shell = "alive" THEN "ended" ELSE shell
    /\ UNCHANGED <<backend, row, pipe, output, serverVars, client, inbox, stalls>>

\* The sync loop follows (JobEndIsNoticed of SessionControl).
RowFollows ==
    /\ job = "over" /\ row = "running" /\ row' = "over"
    /\ UNCHANGED <<backend, job, shellVars, serverVars, client, inbox, stalls>>

----------------------------------------------------------------------------
(* The browser: Terminal.tsx, shown by SessionDetail.tsx *)

ClientSends(msg) ==
    /\ client = "here" /\ SocketHeld /\ Len(inbox) < MaxInbox
    /\ inbox' = Append(inbox, msg)
    /\ UNCHANGED <<backend, jobVars, shellVars, serverVars, client, stalls>>

Types == ClientSends("key")
KeepAlive == ClientSends("empty")

ClientBecomes(from, to) ==
    /\ client \in from /\ client' = to
    /\ UNCHANGED <<backend, jobVars, shellVars, serverVars, inbox>>

Connected == {"here", "stalled"}

\* Broken form: the terminal stays on the page whatever the session's state.
always_shown == TRUE

terminal_shown == row = "running"

\* The page polls the session and takes the terminal down, which closes the socket.
UiCloses == ~ terminal_shown /\ ClientBecomes({"here"}, "closed") /\ UNCHANGED stalls
Leave == ClientBecomes({"here"}, "closed") /\ UNCHANGED stalls
OnClose == handler # "idle" /\ ~ SocketHeld /\ ClientBecomes(Connected, "closed") /\ UNCHANGED stalls
Vanish == ClientBecomes(Connected, "gone") /\ UNCHANGED stalls
Stall ==
    /\ stalls < MaxStalls /\ stalls' = stalls + 1
    /\ ClientBecomes({"here"}, "stalled")
Resume == ClientBecomes({"stalled"}, "here") /\ UNCHANGED stalls

----------------------------------------------------------------------------
HandlerStep == Lookup \/ ConnectAgent \/ Attach \/ FinishEither
StdinStep == ReadInput \/ WriteInput \/ ReadClose
Environment ==
    \/ ShellReads \/ ShellWrites \/ ShellEnds \/ CallCancelled \/ JobEnds \/ RowFollows
    \/ Types \/ KeepAlive \/ UiCloses \/ Leave \/ OnClose \/ Vanish \/ Stall \/ Resume

Next ==
    \/ terminal_upgrade \/ HandlerStep \/ StdinStep
    \/ ReadOutput \/ ReadEof \/ PingTick \/ SendData \/ SendPing
    \/ Environment

Spec == Init /\ [][Next]_vars

(***************************************************************************)
(* Tasks whose await is over are scheduled; select! picks at random among  *)
(* its ready branches, so neither output nor the tick is passed over for   *)
(* ever.  The page polls and sends its keepalive while the browser is      *)
(* there.  Nobody has to type, leave or resume, and no shell has to read.   *)
(***************************************************************************)
Fairness ==
    /\ WF_vars(HandlerStep) /\ WF_vars(StdinStep)
    /\ SF_vars(ReadOutput) /\ SF_vars(ReadEof) /\ SF_vars(PingTick)
    /\ WF_vars(SendData) /\ WF_vars(SendPing)
    /\ WF_vars(CallCancelled) /\ WF_vars(RowFollows)
    /\ WF_vars(KeepAlive) /\ WF_vars(UiCloses)

FairSpec == Spec /\ Fairness

----------------------------------------------------------------------------
(* What the two independent tasks must achieve together. *)

\* A client that reads gets everything the shell wrote before the output task
\* ends, also when the other task, and with it the handler, ended first
\* (ws_handler.rs:153, 345).
OutputIsDrained ==
    [][stdout # "done" /\ stdout' = "done" /\ client = "here" => output = 0]_vars

\* On K8s the input task is stuck for good in a write to a live shell that reads no
\* more (ws_handler.rs:91, 96): it holds its half of the socket, and nothing tells it
\* that the client left.
Deaf == [](backend = "k8s" /\ stdin \in Messages /\ shell = "alive")

\* A client that vanishes without a word while the output task runs is noticed and
\* its socket released, unless the shell ends first or is deaf: the ping is what finds
\* it out (ws_handler.rs:141, 333), and nobody else sends one.
VanishedIsNoticed ==
    client = "gone" /\ stdout # "done" ~> (~ SocketHeld \/ shell = "ended" \/ Deaf)

\* A client that closed its end has its socket released, wherever the handler stood
\* and whatever the input task had in hand, unless the shell is deaf.  On a native
\* host even then: the end of the output task cancels the call the input task is
\* writing to (ws_handler.rs:275, 282).
ClosedIsReleased == client = "closed" ~> (~ SocketHeld \/ Deaf)

Unreachable == client \in {"gone", "reset"} \/ [](client = "stalled")

\* The end of the job takes the terminal with it: by the page on K8s, where the
\* input task would wait for a key, and by the keepalive on a native host.
JobEndReleases == job = "over" ~> (~ SocketHeld \/ Unreachable)

\* On a native host a shell that ends takes its terminal with it even if nobody
\* types: the keepalive of the page runs into the closed channel
\* (Terminal.tsx:80-86, ws_handler.rs:275).
ShellEndReleases ==
    backend = "native_host" /\ shell = "ended" ~> (~ SocketHeld \/ Unreachable)
=============================================================================
