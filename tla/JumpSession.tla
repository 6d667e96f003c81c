----------------------------- MODULE JumpSession -----------------------------
(***************************************************************************)
(* One jump from the user's exec request to the end of its session row:    *)
(* ServerJumpCoordinator.start_jump and JumpPtyBridge (server/jump.py),    *)
(* the tasks of RestrictedShellSession (server/ssh.py) and ReplayRecorder  *)
(* (vibeconnect_common/replay.py).                                         *)
(*                                                                         *)
(* RestrictedShellSession runs several asyncio tasks over one session: the *)
(* start of the jump, an output pump, one task per user input, a waiter    *)
(* for the node process, and the closing tasks of connection_lost and of   *)
(* the first failure. An action is the code one of them runs between two   *)
(* awaits; a statement, an audit event's INSERT included, takes effect     *)
(* while its caller waits, so the effect and the reply are two steps, and  *)
(* a cancellation or the loss of the reply may fall between them.          *)
(***************************************************************************)
EXTENDS Integers, Sequences

CONSTANTS
    Faults,      \* the environment faults of this instance
    MaxInput,    \* bound: user inputs
    MaxOutput    \* bound: chunks of node output

AllFaults == {"db", "audit", "replay", "tunnel", "node"}

ASSUME FaultsAssumption == Faults \subseteq AllFaults
ASSUME BoundsAssumption == MaxInput \in Nat /\ MaxOutput \in Nat

VARIABLES
    channel,    \* the user's SSH channel: open, closing (by _exit), lost
    start,      \* where _start_exec is suspended
    started,    \* RestrictedShellSession._started is set
    row,        \* sessions.status, none before the INSERT
    replay,     \* the recorder: none, recording, failed (by fail), published, stuck (in close)
    node,       \* the SSH connection to the node: none, open, closed
    exited,     \* the node process has ended
    bridge,     \* JumpPtyBridge: none, open, closed (_closed)
    waiter,     \* the task of _wait_for_process
    pump,       \* the task of _pump_output
    hangup,     \* the task created by connection_lost, with its status
    failure,    \* the task created by _pump_done
    fin,        \* the one execution of bridge.close or of _fail_started_jump's own path
    raised,     \* tasks that ended in an exception whose _pump_done is still to run
    taskFailed, \* RestrictedShellSession._task_failed
    pending,    \* _pending_input
    inputs,     \* send_user_input tasks that have not run
    typed,      \* inputs so far
    recorded,   \* events written to the replay
    forwarded,  \* events passed on to the node or to the user
    audits      \* terminal audit events

taskVars == <<waiter, pump, hangup, failure, raised, taskFailed>>
inputVars == <<pending, inputs, typed>>
recordVars == <<recorded, forwarded>>
vars == <<channel, start, started, row, replay, node, exited, bridge, taskVars, fin,
          inputVars, recordVars, audits>>

-----------------------------------------------------------------------------
StartPoints == {"idle", "authorize", "insert", "inserted", "opening", "denyrow", "denied",
                "startaudit", "process", "failing", "done"}
TaskStates == {"none", "ready", "busy", "done"}
Terminal == {"closed", "failed"}
Closers == {"start", "waiter", "hangup", "failure"}

NotClosing == [pc |-> "none", by |-> "none", status |-> "none", viaBridge |-> FALSE]
NoHangup == [state |-> "none", status |-> "none"]

Init ==
    /\ channel = "open" /\ start = "idle" /\ started = FALSE
    /\ row = "none" /\ replay = "none" /\ node = "none" /\ exited = FALSE /\ bridge = "none"
    /\ waiter = "none" /\ pump = "none" /\ hangup = NoHangup /\ failure = "none"
    /\ fin = NotClosing
    /\ raised = {} /\ taskFailed = FALSE
    /\ pending = 0 /\ inputs = 0 /\ typed = 0
    /\ recorded = 0 /\ forwarded = 0
    /\ audits = <<>>

-----------------------------------------------------------------------------
(* Pieces of the code that several tasks run.                              *)

\* _exit: channel.exit and channel.close.
ExitChannel == channel' = IF channel = "open" THEN "closing" ELSE channel

\* ReplayRecorder.fail: the recorder is closed once, with its temporary file.
ReplayFail == replay' = IF replay = "recording" THEN "failed" ELSE replay

\* Closing or removing that file may raise OSError; a closed recorder returns first.
ReplayFailRaises == replay = "recording" /\ "replay" \in Faults /\ ReplayFail

\* Whether _start_exec can still be cancelled.
StartRunning == start \notin {"idle", "done"}

\* cancel() on the tasks of _pump_tasks. Whoever was inside bridge.close or
\* _fail_started_jump leaves it where it stands.
CancelTasks ==
    /\ start' = IF StartRunning THEN "done" ELSE start
    /\ waiter' = IF waiter = "none" THEN waiter ELSE "done"
    /\ pump' = IF pump = "none" THEN pump ELSE "done"
    /\ inputs' = 0
    /\ fin' = IF fin.pc = "none" THEN fin ELSE [fin EXCEPT !.pc = "done"]

\* A task ends in an exception: its done callback will run _pump_done; the
\* failure task's own callback swallows it.
Raise(t) == raised' = IF t = "failure" THEN raised ELSE raised \cup {t}

\* The task that runs the closing code ends.
EndTask(t) ==
    /\ start' = IF t = "start" THEN "done" ELSE start
    /\ waiter' = IF t = "waiter" THEN "done" ELSE waiter
    /\ hangup' = IF t = "hangup" THEN [hangup EXCEPT !.state = "done"] ELSE hangup
    /\ failure' = IF t = "failure" THEN "done" ELSE failure

BusyTask(t) ==
    /\ start' = IF t = "start" THEN "failing" ELSE start
    /\ waiter' = IF t = "waiter" THEN "busy" ELSE waiter
    /\ hangup' = IF t = "hangup" THEN [hangup EXCEPT !.state = "busy"] ELSE hangup
    /\ failure' = IF t = "failure" THEN "busy" ELSE failure

\* After bridge.close returns, _wait_for_process and _start_exec exit the channel.
AfterClose(t) == IF t \in {"waiter", "start"} THEN ExitChannel ELSE UNCHANGED channel

\* A recorder that has not been closed, by close or by fail.
ReplayCanClose == replay = "recording"

\* Mutant of ReplayRecorder.close: a closed recorder returns, as fail does.
ReplayClose_Lenient == replay' = IF ReplayCanClose THEN "published" ELSE replay

\* ReplayRecorder.close publishes the file: flush, fsync, replace, read back.
ReplayClose == ReplayCanClose /\ replay' = "published"

\* Mutant of JumpPtyBridge.close: _closed is not looked at.
BridgeClose_Again(t, s) ==
    /\ bridge # "none"
    /\ bridge' = "closed"
    /\ IF s = "closed" THEN replay' = "published" ELSE ReplayFail
    /\ fin' = [pc |-> "db", by |-> t, status |-> s, viaBridge |-> TRUE]
    /\ BusyTask(t)
    /\ UNCHANGED <<raised, channel>>

\* The synchronous head of JumpPtyBridge.close, run by task t: nothing if the
\* bridge is closed; else it is closed first, then the replay is published
\* or failed, either of which may raise, and the row's UPDATE is sent.
BridgeClose(t, s) ==
    \/ /\ bridge = "closed"
       /\ EndTask(t) /\ AfterClose(t)
       /\ UNCHANGED <<bridge, replay, fin, raised>>
    \/ /\ bridge = "open"
       /\ bridge' = "closed"
       /\ IF s = "closed" THEN ReplayClose ELSE ReplayFail
       /\ fin' = [pc |-> "db", by |-> t, status |-> s, viaBridge |-> TRUE]
       /\ BusyTask(t)
       /\ UNCHANGED <<raised, channel>>
    \/ /\ bridge = "open"
       /\ bridge' = "closed"
       /\ \/ s = "closed" /\ ~ReplayCanClose /\ UNCHANGED replay
          \/ s = "closed" /\ ReplayCanClose /\ "replay" \in Faults /\ replay' = "stuck"
          \/ s = "failed" /\ ReplayFailRaises
       /\ EndTask(t) /\ Raise(t)
       /\ UNCHANGED <<fin, channel>>

\* _fail_started_jump, run by task t.
FailStartedJump(t) ==
    \/ /\ ~started
       /\ EndTask(t) /\ AfterClose(t)
       /\ UNCHANGED <<bridge, replay, fin, raised>>
    \/ /\ started /\ bridge # "none"
       /\ BridgeClose(t, "failed")
    \/ /\ started /\ bridge = "none"
       /\ ReplayFail
       /\ fin' = [pc |-> "db", by |-> t, status |-> "failed", viaBridge |-> FALSE]
       /\ BusyTask(t)
       /\ UNCHANGED <<bridge, raised, channel>>
    \/ /\ started /\ bridge = "none"
       /\ ReplayFailRaises
       /\ EndTask(t) /\ Raise(t)
       /\ UNCHANGED <<bridge, fin, channel>>

-----------------------------------------------------------------------------
(* _start_exec and start_jump.                                             *)

startFrame == <<waiter, pump, hangup, failure, taskFailed, fin, inputs, typed, audits, exited>>

ExecRequested ==
    /\ start = "idle" /\ channel = "open"
    /\ start' = "authorize"
    /\ UNCHANGED <<channel, started, row, replay, node, bridge, raised, pending, recordVars, startFrame>>

\* The command, the inventory, the pinned host key or the freshness of the
\* agent says no: SshServerError, before there is a row.
Denied ==
    /\ start = "authorize"
    /\ start' = "done"
    /\ ExitChannel
    /\ UNCHANGED <<started, row, replay, node, bridge, raised, pending, recordVars, startFrame>>

Authorized ==
    /\ start = "authorize"
    /\ start' = "insert"
    /\ UNCHANGED <<channel, started, row, replay, node, bridge, raised, pending, recordVars, startFrame>>

\* create_session's INSERT is executed.
InsertApplied ==
    /\ start = "insert"
    /\ start' = "inserted" /\ row' = "open"
    /\ UNCHANGED <<channel, started, replay, node, bridge, raised, pending, recordVars, startFrame>>

\* Mutant of start_jump: the jump goes on without its replay.
ReplayStarts_Optional ==
    /\ start = "inserted"
    /\ start' = "opening"
    /\ replay' \in {"recording", "none"}
    /\ UNCHANGED <<channel, started, row, node, bridge, raised, pending, recordVars, startFrame>>

\* create_session returns and the replay starts, or ends in a ReplayError: fail_session. (Its
\* OSError is in ProcessFails.)
ReplayStarts ==
    /\ start = "inserted"
    /\ \/ start' = "opening" /\ replay' = "recording"
       \/ "replay" \in Faults /\ start' = "denyrow" /\ UNCHANGED replay
    /\ UNCHANGED <<channel, started, row, node, bridge, raised, pending, recordVars, startFrame>>

\* The opener's SSH handshake with the node through the tunnel succeeds.
NodeOpened ==
    /\ start = "opening"
    /\ start' = "startaudit" /\ node' = "open"
    /\ UNCHANGED <<channel, started, row, replay, bridge, raised, pending, recordVars, startFrame>>

\* It fails with a JumpError: replay.fail, fail_session; the OSError of the former
\* ends the start with the row still open.
NodeRefused ==
    /\ start = "opening" /\ "node" \in Faults
    /\ \/ ReplayFail /\ start' = "denyrow" /\ UNCHANGED channel
       \/ ReplayFailRaises /\ start' = "done" /\ ExitChannel
    /\ UNCHANGED <<started, row, node, bridge, raised, pending, recordVars, startFrame>>

\* fail_session's UPDATE is executed, then its reply and the denial audit.
DenyApplied ==
    /\ start = "denyrow"
    /\ start' = "denied"
    /\ row' = IF row = "open" THEN "failed" ELSE row
    /\ UNCHANGED <<channel, started, replay, node, bridge, raised, pending, recordVars, startFrame>>

DenyReturns ==
    /\ start = "denied"
    /\ start' = "done"
    /\ ExitChannel
    /\ UNCHANGED <<started, row, replay, node, bridge, raised, pending, recordVars, startFrame>>

\* Where the database, the audit sink or the broker may fail the start: before a
\* statement has its effect, or after it, with the reply lost.
StartFault ==
    \/ start \in {"authorize", "insert", "inserted", "denyrow", "denied"} /\ "db" \in Faults
    \/ start \in {"authorize", "denied", "startaudit"} /\ "audit" \in Faults
    \/ start = "opening" /\ "tunnel" \in Faults

\* An exception that nobody in start_jump or _start_exec handles: one of asyncpg's,
\* or the broker's TunnelStateError.
StartRaises ==
    /\ StartFault
    /\ start' = "done"
    /\ Raise("start")
    /\ UNCHANGED <<channel, started, row, replay, node, bridge, pending, recordVars, startFrame>>

\* SESSION_STARTED is written, start_jump returns, create_process is awaited.
JumpStarted ==
    /\ start = "startaudit"
    /\ start' = "process" /\ started' = TRUE
    /\ UNCHANGED <<channel, row, replay, node, bridge, raised, pending, recordVars, startFrame>>

\* The process runs: the bridge is built, pending input is recorded and
\* forwarded, and the pumps start.
ProcessStarted ==
    /\ start = "process"
    /\ bridge' = "open" /\ start' = "done"
    /\ recorded' = recorded + pending /\ forwarded' = forwarded + pending
    /\ pending' = 0
    /\ pump' = "ready" /\ waiter' = "ready"
    /\ UNCHANGED <<channel, started, row, replay, node, raised, hangup, failure, taskFailed,
                   fin, inputs, typed, audits, exited>>

\* The recorder cannot write a piece of the pending input: ReplayError leaves
\* _start_exec before it creates a pump.
FlushFails ==
    /\ start = "process" /\ "replay" \in Faults
    /\ \E k \in 1..pending :
         /\ recorded' = recorded + k - 1
         /\ forwarded' = forwarded + k - 1
    /\ bridge' = "open" /\ start' = "done"
    /\ ReplayFail
    /\ Raise("start")
    /\ UNCHANGED <<channel, started, row, node, pending, startFrame>>

\* stdin.write raises OSError for a piece of it that is recorded: the except clause
\* of _start_exec closes the bridge as failed.
FlushBreaks ==
    /\ start = "process" /\ "node" \in Faults
    /\ \E k \in 1..pending :
         /\ recorded' = recorded + k
         /\ forwarded' = forwarded + k - 1
    /\ bridge' = "closed"
    /\ ReplayFail
    /\ \/ /\ fin' = [pc |-> "db", by |-> "start", status |-> "failed", viaBridge |-> TRUE]
          /\ start' = "failing"
          /\ UNCHANGED raised
       \/ ReplayFailRaises /\ start' = "done" /\ Raise("start") /\ UNCHANGED fin
    /\ UNCHANGED <<channel, started, row, node, pending, waiter, pump, hangup, failure,
                   taskFailed, inputs, typed, audits, exited>>

\* The except clause of _start_exec: create_process raises OSError or
\* asyncssh.Error, the directory of the replays cannot be prepared, or the database
\* or the tunnel's writer raises OSError.
ProcessFails ==
    /\ \/ start = "process" /\ "node" \in Faults
       \/ start = "inserted" /\ "replay" \in Faults
       \/ StartFault
    /\ FailStartedJump("start")
    /\ UNCHANGED <<started, row, node, exited, pump, taskFailed, inputVars, recordVars, audits>>

Start ==
    \/ ExecRequested \/ Denied \/ Authorized \/ InsertApplied \/ ReplayStarts \/ NodeOpened
    \/ NodeRefused \/ DenyApplied \/ DenyReturns \/ StartRaises \/ JumpStarted
    \/ ProcessStarted \/ FlushFails \/ FlushBreaks \/ ProcessFails

-----------------------------------------------------------------------------
(* Data.                                                                   *)

dataFrame == <<start, started, row, node, exited, bridge, waiter, hangup, failure, taskFailed,
               fin, audits>>

\* data_received: queued until there is a bridge, then one task per call.
DataReceived ==
    /\ channel = "open" /\ start # "idle" /\ typed < MaxInput
    /\ typed' = typed + 1
    /\ IF bridge = "none"
       THEN pending' = pending + 1 /\ UNCHANGED inputs
       ELSE inputs' = inputs + 1 /\ UNCHANGED pending
    /\ UNCHANGED <<channel, replay, pump, raised, recordVars, dataFrame>>

\* Mutant of send_user_input and receive_node_output: forward, then record.
Record_ForwardFirst(t) ==
    \/ /\ bridge = "open" /\ replay = "recording"
       /\ recorded' = recorded + 1 /\ forwarded' = forwarded + 1
       /\ UNCHANGED <<replay, raised>>
    \/ /\ bridge = "open"
       /\ forwarded' = forwarded + 1
       /\ ReplayFail
       /\ Raise(t)
       /\ UNCHANGED recorded

\* Record, then forward. Raises on a closed bridge, a closed replay, a write
\* error, which fails the replay, or when what is recorded cannot be forwarded.
Record(t) ==
    \/ /\ bridge = "open" /\ replay = "recording"
       /\ recorded' = recorded + 1 /\ forwarded' = forwarded + 1
       /\ UNCHANGED <<replay, raised>>
    \/ /\ bridge # "open" \/ replay # "recording"
       /\ Raise(t)
       /\ UNCHANGED <<replay, recordVars>>
    \/ /\ bridge = "open" /\ replay = "recording" /\ "replay" \in Faults
       /\ ReplayFail
       /\ Raise(t)
       /\ UNCHANGED recordVars
    \/ /\ bridge = "open" /\ replay = "recording" /\ "node" \in Faults
       /\ recorded' = recorded + 1
       /\ Raise(t)
       /\ UNCHANGED <<replay, forwarded>>

\* send_user_input
InputRuns ==
    /\ inputs > 0
    /\ inputs' = inputs - 1
    /\ Record("input")
    /\ UNCHANGED <<channel, pump, pending, typed, dataFrame>>

\* One turn of _pump_output; output may still be buffered after the process
\* has ended, and the pump ends with the first exception.
OutputArrives ==
    /\ pump = "ready" /\ recorded < MaxInput + MaxOutput
    /\ Record("pump")
    /\ pump' = IF raised' = raised THEN pump ELSE "done"
    /\ UNCHANGED <<channel, inputVars, dataFrame>>

OutputEnds ==
    /\ pump = "ready" /\ exited
    /\ pump' = "done"
    /\ UNCHANGED <<channel, replay, raised, inputVars, recordVars, dataFrame>>

\* terminal_size_changed: its task raises if the bridge is closed, or for a size
\* that is not positive. (Once a task has failed another exception changes nothing.)
ResizeRaises ==
    /\ channel = "open" /\ bridge # "none" /\ ~taskFailed
    /\ Raise("resize")
    /\ UNCHANGED <<channel, replay, pump, inputVars, recordVars, dataFrame>>

Data == DataReceived \/ InputRuns \/ OutputArrives \/ OutputEnds \/ ResizeRaises

-----------------------------------------------------------------------------
(* The end of the session.                                                 *)

closeFrame == <<started, row, node, pump, taskFailed, inputVars, recordVars, audits>>

\* The shell exits, sshd dies or the tunnel drops: all end the process.
ProcessExits ==
    /\ node = "open" /\ bridge # "none" /\ ~exited
    /\ exited' = TRUE
    /\ UNCHANGED <<channel, start, started, row, replay, node, bridge, taskVars, fin,
                   inputVars, recordVars, audits>>

\* Mutant of _wait_for_process: the closing is left to connection_lost.
WaiterWakes_NoClose ==
    /\ waiter = "ready" /\ exited
    /\ waiter' = "done"
    /\ UNCHANGED <<channel, start, replay, bridge, hangup, failure, raised, fin, exited, closeFrame>>

\* _wait_for_process
WaiterWakes ==
    /\ waiter = "ready" /\ exited
    /\ BridgeClose("waiter", "closed")
    /\ UNCHANGED <<exited, closeFrame>>

\* Mutant of connection_lost: the new closing task is cancelled with the rest.
ConnectionLost_CancelsItself(s) ==
    /\ channel # "lost" /\ start # "idle"
    /\ channel' = "lost"
    /\ hangup' = [state |-> "done", status |-> s]
    /\ failure' = IF failure = "none" THEN failure ELSE "done"
    /\ CancelTasks
    /\ UNCHANGED <<started, row, replay, node, exited, bridge, raised, taskFailed, pending,
                   typed, recordVars, audits>>

\* connection_lost, with or without an exception: a closing task if there is
\* a lifecycle, and everything else is cancelled.
ConnectionLost(s) ==
    /\ channel # "lost" /\ start # "idle"
    /\ channel' = "lost"
    /\ hangup' = IF bridge = "none" THEN hangup ELSE [state |-> "ready", status |-> s]
    /\ failure' = IF failure = "none" THEN failure ELSE "done"
    /\ CancelTasks
    /\ UNCHANGED <<started, row, replay, node, exited, bridge, raised, taskFailed, pending,
                   typed, recordVars, audits>>

HangupRuns ==
    /\ hangup.state = "ready"
    /\ BridgeClose("hangup", hangup.status)
    /\ UNCHANGED <<exited, closeFrame>>

\* Mutant of _pump_done: the channel is left to the failure task.
PumpDone_KeepsChannel(t) ==
    /\ raised' = raised \ {t}
    /\ IF taskFailed
       THEN UNCHANGED <<start, waiter, pump, hangup, failure, taskFailed, fin, inputs>>
       ELSE /\ taskFailed' = TRUE
            /\ CancelTasks
            /\ hangup' = IF hangup.state = "none" THEN hangup ELSE [hangup EXCEPT !.state = "done"]
            /\ failure' = "ready"
    /\ UNCHANGED <<channel, started, row, replay, node, exited, bridge, pending, typed, recordVars,
                   audits>>

\* _pump_done of a task that raised: the first one cancels the others,
\* schedules _fail_started_jump and exits the channel.
PumpDone(t) ==
    /\ raised' = raised \ {t}
    /\ IF taskFailed
       THEN UNCHANGED <<channel, start, waiter, pump, hangup, failure, taskFailed, fin, inputs>>
       ELSE /\ taskFailed' = TRUE
            /\ CancelTasks
            /\ hangup' = IF hangup.state = "none" THEN hangup ELSE [hangup EXCEPT !.state = "done"]
            /\ failure' = "ready"
            /\ ExitChannel
    /\ UNCHANGED <<started, row, replay, node, exited, bridge, pending, typed, recordVars, audits>>

FailureRuns ==
    /\ failure = "ready"
    /\ FailStartedJump("failure")
    /\ UNCHANGED <<exited, closeFrame>>

\* Mutant of close_session: the status is not a parameter of the UPDATE.
FinUpdate_Closed ==
    /\ fin.pc = "db"
    /\ row' = IF row = "open" THEN "closed" ELSE row
    /\ fin' = [fin EXCEPT !.pc = "reply"]
    /\ UNCHANGED <<channel, start, started, replay, node, exited, bridge, taskVars, inputVars,
                   recordVars, audits>>

\* close_session's UPDATE ... WHERE status = 'open' is executed.
FinUpdate ==
    /\ fin.pc = "db"
    /\ row' = IF row = "open" THEN fin.status ELSE row
    /\ fin' = [fin EXCEPT !.pc = "reply"]
    /\ UNCHANGED <<channel, start, started, replay, node, exited, bridge, taskVars, inputVars,
                   recordVars, audits>>

\* Its reply: the bridge closes the node connection and waits for it.
FinReply ==
    /\ fin.pc = "reply"
    /\ node' = IF fin.viaBridge THEN "closed" ELSE node
    /\ fin' = [fin EXCEPT !.pc = "audit"]
    /\ UNCHANGED <<channel, start, started, row, replay, exited, bridge, taskVars, inputVars,
                   recordVars, audits>>

\* The node connection is closed and the INSERT of the terminal audit event is executed.
FinAudit ==
    /\ fin.pc = "audit"
    /\ audits' = Append(audits, fin.status)
    /\ fin' = [fin EXCEPT !.pc = "audited"]
    /\ UNCHANGED <<channel, start, started, row, replay, node, exited, bridge, taskVars, inputVars,
                   recordVars>>

\* Its reply: the closing task returns.
FinAudited ==
    /\ fin.pc = "audited"
    /\ fin' = [fin EXCEPT !.pc = "done"]
    /\ EndTask(fin.by) /\ AfterClose(fin.by)
    /\ UNCHANGED <<started, row, replay, node, exited, bridge, pump, raised, taskFailed,
                   inputVars, recordVars, audits>>

\* The UPDATE or the INSERT fails, or takes effect and its reply is lost: the
\* closing task ends in an exception.
FinRaises ==
    /\ \/ fin.pc \in {"db", "reply"} /\ "db" \in Faults
       \/ fin.pc \in {"audit", "audited"} /\ "audit" \in Faults
    /\ fin' = [fin EXCEPT !.pc = "done"]
    /\ EndTask(fin.by) /\ Raise(fin.by)
    /\ UNCHANGED <<channel, started, row, replay, node, exited, bridge, pump, taskFailed,
                   inputVars, recordVars, audits>>

Ending ==
    \/ ProcessExits \/ WaiterWakes
    \/ \E s \in Terminal : ConnectionLost(s)
    \/ HangupRuns
    \/ \E t \in raised : PumpDone(t)
    \/ FailureRuns \/ FinUpdate \/ FinReply \/ FinAudit \/ FinAudited \/ FinRaises

Next == Start \/ Data \/ Ending

Spec == Init /\ [][Next]_vars

\* The event loop runs every task that is ready, the database and the audit
\* sink answer, and a channel that was closed is reported lost.
Fairness ==
    /\ WF_vars(WaiterWakes) /\ WF_vars(HangupRuns) /\ WF_vars(FailureRuns)
    /\ WF_vars(FinUpdate) /\ WF_vars(FinReply) /\ WF_vars(FinAudit)
    /\ WF_vars(FinAudited)
    /\ WF_vars(\E t \in raised : PumpDone(t))
    /\ WF_vars(channel = "closing" /\ \E s \in Terminal : ConnectionLost(s))

FairSpec == Spec /\ Fairness

-----------------------------------------------------------------------------
(* Properties.                                                             *)

\* The type invariant: among the rest, every exception is one _pump_done knows.
TypeOK ==
    /\ channel \in {"open", "closing", "lost"}
    /\ start \in StartPoints
    /\ started \in BOOLEAN
    /\ row \in {"none", "open"} \cup Terminal
    /\ replay \in {"none", "recording", "failed", "published", "stuck"}
    /\ node \in {"none", "open", "closed"}
    /\ exited \in BOOLEAN
    /\ bridge \in {"none", "open", "closed"}
    /\ waiter \in TaskStates /\ pump \in TaskStates /\ failure \in TaskStates
    /\ hangup \in [state : TaskStates, status : Terminal \cup {"none"}]
    /\ fin \in [pc : {"none", "db", "reply", "audit", "audited", "done"},
                by : Closers \cup {"none"}, status : Terminal \cup {"none"}, viaBridge : BOOLEAN]
    /\ raised \subseteq {"start", "pump", "input", "resize", "waiter", "hangup"}
    /\ taskFailed \in BOOLEAN
    /\ pending \in 0..MaxInput /\ inputs \in 0..MaxInput /\ typed \in 0..MaxInput
    /\ recorded \in Nat /\ forwarded \in Nat
    /\ audits \in Seq(Terminal)

\* "Replay capture is mandatory": the node is only ever reached once the row
\* exists and its replay is being recorded, and nothing goes to the node or
\* to the user that is not in the replay first.
NothingUnrecorded ==
    /\ node # "none" => row # "none" /\ replay # "none"
    /\ forwarded <= recorded

\* Every terminal audit event says what the row says, whichever of the closing tasks
\* wrote it, and a session that had a bridge has one at most. Without a bridge it may
\* have two: the INSERT of _start_exec's own closing lost its reply, which made the
\* failure task close once more.
AuditTruthful ==
    /\ \A i \in 1..Len(audits) : audits[i] = row
    /\ Len(audits) <= IF bridge = "none" /\ taskFailed THEN 2 ELSE 1

\* The recorder and the bridge agree: a published replay belongs to a closed
\* bridge whose row is being closed, and a row never becomes closed by way
\* of a replay that failed or got stuck.
ReplayMatchesRow ==
    /\ replay = "published" => bridge = "closed" /\ fin.status = "closed"
    /\ row = "closed" => replay = "published"
    /\ row = "failed" => replay \in {"none", "failed"}

\* A node process that ends leaves a terminal row, unless the user's channel
\* was lost or a task of the session failed in the meantime.
ExitPersists == exited ~> (row \in Terminal \/ channel = "lost" \/ taskFailed)

\* A user who hangs up while the bridge is open leaves a terminal row, unless
\* a task of the session failed.
HangupOnOpenBridgePersists ==
    (channel = "lost" /\ bridge = "open") ~> (row \in Terminal \/ taskFailed)

\* SPEC.md: "If replay storage fails mid-session, the server terminates the
\* session": whichever task meets the failure, in a write or in the recorder's
\* own close, the user's channel is closed (_record, _pump_done).
ReplayFailureEnds ==
    (started /\ replay \in {"failed", "stuck"}) ~> (channel # "open")

\* The docstring of connection_lost: "Persist terminal state when the user
\* SSH channel closes."
HangupPersists == (channel = "lost" /\ row = "open") ~> (row \in Terminal)

\* The session implements the life of its row.
Row == INSTANCE SessionRow WITH status <- row, published <- (replay = "published")

\* Every step of a session is a step of its row, or none: the row is closed at
\* most once, and as closed only with a published replay.
RefinesRow == Row!RowSpec

\* The inductive invariant, in named parts.

\* Where _start_exec is suspended says what there is: no bridge, no failed task and no
\* closing before it has ended, a row from the INSERT on and a replay from its start on.
StartPhases ==
    /\ start \in {"idle", "authorize", "insert"} => row = "none" /\ replay = "none"
    /\ start = "inserted" => row = "open" /\ replay = "none"
    /\ start \in {"opening", "startaudit", "process"} => row = "open" /\ replay = "recording"
    /\ start = "denyrow" => row = "open" /\ replay \in {"none", "failed"}
    /\ start \in {"process", "failing"} => started
    /\ start \notin {"process", "failing", "done"} => ~started
    /\ start \notin {"failing", "done"} =>
         bridge = "none" /\ raised = {} /\ ~taskFailed /\ fin.pc = "none"
    /\ start = "failing" /\ bridge = "none" => raised = {} /\ ~taskFailed
    /\ start = "failing" => bridge # "open" /\ waiter = "none" /\ pump = "none"

\* What exists once the jump has started, and what needs it to have started.
StartedHas ==
    /\ started => row # "none" /\ replay # "none"
    /\ bridge # "none" \/ fin.pc # "none" => started
    /\ started /\ fin.pc = "none" => row = "open"
    /\ bridge = "none" => replay \in {"none", "recording", "failed"}
    /\ bridge = "open" => replay \in {"recording", "failed"} /\ fin.pc = "none"

\* One closing at a time: it has settled the replay before it asks for the row, the row
\* is its own from the reply on, and it comes before the audit event. Only a closing
\* without a bridge finds an event already there: the start's, one at most.
ClosingSettles ==
    /\ fin.pc # "none" =>
         /\ fin.by \in Closers /\ fin.status \in Terminal
         /\ IF fin.viaBridge THEN bridge = "closed"
            ELSE bridge = "none" /\ fin.status = "failed" /\ fin.by \in {"start", "failure"}
         /\ replay = IF fin.status = "closed" THEN "published" ELSE "failed"
         /\ row \in {"open", fin.status}
    /\ fin.pc \in {"reply", "audit", "audited"} => row = fin.status
    /\ fin.pc = "none" => audits = <<>>
    /\ fin.pc \in {"db", "reply", "audit"} =>
         \/ audits = <<>>
         \/ ~fin.viaBridge /\ fin.by = "failure" /\ Len(audits) <= 1
    /\ fin.pc = "audited" => fin.by = "failure" \/ Len(audits) <= 1
    /\ replay = "published" => fin.pc # "none"

\* Without a bridge no other task runs; only _start_exec can fail, once, and the failure
\* task, which may close after it once more, finds what that one closing has audited.
FailsOnce ==
    /\ taskFailed <=> failure # "none"
    /\ hangup.state # "none" => hangup.status \in Terminal /\ bridge # "none"
    /\ waiter # "none" \/ pump # "none" \/ inputs > 0 => bridge # "none"
    /\ bridge = "none" =>
         /\ raised \subseteq {"start"}
         /\ raised # {} => ~taskFailed
         /\ failure \in {"none", "ready"} => Len(audits) <= 1
    /\ fin.pc \in {"db", "reply", "audit", "audited"} =>
         /\ fin.by = "start" => start = "failing"
         /\ fin.by = "waiter" => waiter = "busy"
         /\ fin.by = "failure" => failure = "busy"
         /\ fin.by = "hangup" => hangup.state = "busy"

\* No more input is pending or under way than was typed.
InputCounted == pending <= typed /\ inputs <= typed

\* Their conjunction: every step of every task keeps it.
JumpInv ==
    /\ TypeOK
    /\ StartPhases
    /\ StartedHas
    /\ ClosingSettles
    /\ FailsOnce
    /\ InputCounted
    /\ NothingUnrecorded
    /\ AuditTruthful
    /\ ReplayMatchesRow
=============================================================================
