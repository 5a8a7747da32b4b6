---------------------------- MODULE TerminalProofs ----------------------------
(***************************************************************************)
(* The terminal bridge for every bound on what is under way: its types,    *)
(* the number of attempts at the agent, and that no output is lost.        *)
(*                                                                         *)
(* The types alone are not inductive: the attempts stay within             *)
(* AGENT_CONNECT_RETRIES because the handler only tries again below it.    *)
(***************************************************************************)
EXTENDS TerminalBridge, TLAPS

Trying == handler \in {"idle", "lookup", "connect"} => attempts < AGENT_CONNECT_RETRIES

BridgeInv == TypeOK /\ Trying

\* The handler, up to its select (ws_handler.rs:171-262, ws.rs:17-98).
LEMMA HandlerKeeps ==
    ASSUME BridgeInv, terminal_upgrade \/ HandlerStep
    PROVE  BridgeInv'
<1> USE BoundsAssumption DEF BridgeInv, TypeOK, Trying, Handler, Client, AGENT_CONNECT_RETRIES
<1>1. CASE terminal_upgrade
  BY <1>1 DEF terminal_upgrade, jobVars, shellVars
<1>2. CASE Lookup
  BY <1>2 DEF Lookup, HandlerAt, jobVars, shellVars
<1>3. CASE ConnectAgent
  BY <1>3 DEF ConnectAgent, HandlerAt, after_failure, jobVars, shellVars
<1>4. CASE Attach
  BY <1>4 DEF Attach, HandlerAt, jobVars, shellVars
<1>5. CASE FinishEither
  BY <1>5 DEF FinishEither, EitherDone, jobVars, shellVars
<1> QED BY <1>1, <1>2, <1>3, <1>4, <1>5 DEF HandlerStep

\* The two tasks (ws_handler.rs:80-149, 270-342).
LEMMA TasksKeep ==
    ASSUME BridgeInv,
           StdinStep \/ ReadOutput \/ ReadEof \/ PingTick \/ SendData \/ SendPing
    PROVE  BridgeInv'
<1> USE BoundsAssumption DEF BridgeInv, TypeOK, Trying, Handler, Client
<1>1. CASE ReadInput
  <2>1. inbox' \in Seq(Messages) /\ Len(inbox') <= MaxInbox
    BY <1>1 DEF ReadInput
  <2>2. stdin' \in Messages
    BY <1>1 DEF ReadInput
  <2> QED BY <1>1, <2>1, <2>2 DEF ReadInput, jobVars, shellVars
<1>2. CASE WriteInput
  BY <1>2 DEF WriteInput, Messages, jobVars
<1>3. CASE ReadClose
  BY <1>3 DEF ReadClose, jobVars, shellVars
<1>4. CASE ReadOutput \/ ReadEof \/ PingTick
  BY <1>4 DEF ReadOutput, ReadEof, PingTick, StdoutGoes, jobVars, shellVars
<1>5. CASE SendData \/ SendPing
  BY <1>5 DEF SendData, SendPing, Sent, SendFails, SendTimesOut, StdoutGoes, jobVars, shellVars
<1> QED BY <1>1, <1>2, <1>3, <1>4, <1>5 DEF StdinStep

\* The shell, the job and the browser (Terminal.tsx:60-100).
LEMMA OutsideKeeps ==
    ASSUME BridgeInv, Environment
    PROVE  BridgeInv'
<1> USE BoundsAssumption DEF BridgeInv, TypeOK, Trying, Handler, Client, serverVars, jobVars,
             shellVars
<1>1. CASE ShellReads \/ ShellWrites \/ ShellEnds \/ CallCancelled \/ JobEnds \/ RowFollows
  BY <1>1 DEF ShellReads, ShellWrites, ShellEnds, CallCancelled, JobEnds, RowFollows
<1>2. CASE Types \/ KeepAlive
  <2>1. PICK msg \in Messages : ClientSends(msg)
    BY <1>2 DEF Types, KeepAlive, Messages
  <2>2. inbox' \in Seq(Messages) /\ Len(inbox') <= MaxInbox
    BY <2>1 DEF ClientSends
  <2> QED BY <2>1, <2>2 DEF ClientSends
<1>3. CASE UiCloses \/ Leave \/ OnClose \/ Vanish \/ Stall \/ Resume
  BY <1>3 DEF UiCloses, Leave, OnClose, Vanish, Stall, Resume, ClientBecomes, Connected
<1> QED BY <1>1, <1>2, <1>3 DEF Environment

LEMMA BridgeHolds == Spec => []BridgeInv
<1>1. Init => BridgeInv
  BY BoundsAssumption
     DEF Init, BridgeInv, TypeOK, Trying, Handler, Client, AGENT_CONNECT_RETRIES
<1>2. BridgeInv /\ [Next]_vars => BridgeInv'
  <2>1. ASSUME BridgeInv, UNCHANGED vars PROVE BridgeInv'
    BY <2>1 DEF BridgeInv, TypeOK, Trying, vars, jobVars, shellVars, serverVars
  <2> QED BY <2>1, HandlerKeeps, TasksKeep, OutsideKeeps DEF Next
<1> QED BY <1>1, <1>2, PTL DEF Spec

\* Whatever the bounds, the variables keep their types and the agent is tried at most
\* AGENT_CONNECT_RETRIES times (ws_handler.rs:200).
THEOREM BridgeTyped == Spec => []TypeOK
<1>1. BridgeInv => TypeOK
  BY DEF BridgeInv
<1> QED BY <1>1, BridgeHolds, PTL

\* However much output is under way when the other task, the handler or the shell
\* ends, the output task only ends on a client that reads once it has sent all of it
\* (ws_handler.rs:119-149, 310-342).
THEOREM NoOutputIsLost == Spec => OutputIsDrained
<1> DEFINE Drained == stdout # "done" /\ stdout' = "done" /\ client = "here" => output = 0
<1>1. ASSUME [Next]_vars PROVE Drained
  <2> SUFFICES ASSUME stdout # "done", stdout' = "done", client = "here" PROVE output = 0
    OBVIOUS
  <2>1. CASE ReadEof
    BY <2>1 DEF ReadEof
  <2>2. CASE ReadOutput \/ PingTick \/ SendData \/ SendPing
    BY <2>2
       DEF ReadOutput, PingTick, SendData, SendPing, Sent, SendFails, SendTimesOut, StdoutGoes
  <2>3. CASE terminal_upgrade \/ HandlerStep \/ StdinStep
    BY <2>3
       DEF terminal_upgrade, HandlerStep, Lookup, ConnectAgent, Attach, FinishEither, StdinStep,
           ReadInput, WriteInput, ReadClose
  <2>4. CASE Environment \/ UNCHANGED vars
    BY <2>4
       DEF Environment, ShellReads, ShellWrites, ShellEnds, CallCancelled, JobEnds, RowFollows, Types,
           KeepAlive, ClientSends, UiCloses, Leave, OnClose, Vanish, Stall, Resume,
           ClientBecomes, serverVars, vars
  <2> QED BY <1>1, <2>1, <2>2, <2>3, <2>4 DEF Next
<1> QED BY <1>1, PTL DEF Spec, OutputIsDrained
=============================================================================
