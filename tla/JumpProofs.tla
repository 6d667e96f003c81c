----------------------------- MODULE JumpProofs -----------------------------
(***************************************************************************)
(* A session's row, replay and audit trail agree, whatever the faults, the *)
(* amount of input and output and the order in which the tasks of          *)
(* RestrictedShellSession run, fail and are cancelled: the parts of        *)
(* JumpInv support each other through every step, and every step is one of *)
(* the session row's own.  One lemma per action, one step per part of the  *)
(* invariant that the action can disturb.                                  *)
(***************************************************************************)
EXTENDS JumpSession, TLAPS

\* The exec request.
LEMMA ExecRequestedKeeps ==
    ASSUME JumpInv, ExecRequested
    PROVE  JumpInv'
<1>1. TypeOK'
  BY DEF JumpInv, TypeOK, StartPoints, ExecRequested, startFrame, recordVars
<1>2. StartPhases'
  BY DEF JumpInv, StartPhases, ExecRequested, startFrame
<1>3. FailsOnce'
  BY DEF JumpInv, FailsOnce, ExecRequested, startFrame
<1>4. QED
  BY <1>1, <1>2, <1>3
  DEF JumpInv, StartedHas, ClosingSettles, InputCounted, NothingUnrecorded, AuditTruthful,
      ReplayMatchesRow, ExecRequested, startFrame, recordVars

\* A denial before there is a row.
LEMMA DeniedKeeps ==
    ASSUME JumpInv, Denied
    PROVE  JumpInv'
<1>1. TypeOK'
  BY DEF JumpInv, TypeOK, StartPoints, Denied, ExitChannel, startFrame, recordVars
<1>2. StartPhases'
  BY DEF StartPhases, Denied
<1>3. FailsOnce'
  BY DEF JumpInv, FailsOnce, Denied, startFrame
<1>4. QED
  BY <1>1, <1>2, <1>3
  DEF JumpInv, StartedHas, ClosingSettles, InputCounted, NothingUnrecorded, AuditTruthful,
      ReplayMatchesRow, Denied, startFrame, recordVars

\* The checks of start_jump pass.
LEMMA AuthorizedKeeps ==
    ASSUME JumpInv, Authorized
    PROVE  JumpInv'
<1>1. TypeOK'
  BY DEF JumpInv, TypeOK, StartPoints, Authorized, startFrame, recordVars
<1>2. StartPhases'
  BY DEF JumpInv, StartPhases, Authorized, startFrame
<1>3. FailsOnce'
  BY DEF JumpInv, FailsOnce, Authorized, startFrame
<1>4. QED
  BY <1>1, <1>2, <1>3
  DEF JumpInv, StartedHas, ClosingSettles, InputCounted, NothingUnrecorded, AuditTruthful,
      ReplayMatchesRow, Authorized, startFrame, recordVars

\* The INSERT of the session row.
LEMMA InsertAppliedKeeps ==
    ASSUME JumpInv, InsertApplied
    PROVE  JumpInv'
<1>1. TypeOK'
  BY DEF JumpInv, TypeOK, StartPoints, InsertApplied, startFrame, recordVars
<1>2. StartPhases'
  BY DEF JumpInv, StartPhases, InsertApplied, startFrame
<1>3. StartedHas'
  BY DEF JumpInv, StartedHas, InsertApplied, startFrame
<1>4. ClosingSettles'
  BY DEF JumpInv, StartPhases, ClosingSettles, InsertApplied, startFrame
<1>5. FailsOnce'
  BY DEF JumpInv, FailsOnce, InsertApplied, startFrame
<1>6. NothingUnrecorded'
  BY DEF JumpInv, NothingUnrecorded, InsertApplied, recordVars
<1>7. AuditTruthful'
  BY DEF JumpInv, StartPhases, ClosingSettles, AuditTruthful, InsertApplied, startFrame
<1>8. ReplayMatchesRow'
  BY DEF JumpInv, ReplayMatchesRow, InsertApplied, startFrame
<1>9. QED
  BY <1>1, <1>2, <1>3, <1>4, <1>5, <1>6, <1>7, <1>8
  DEF JumpInv, InputCounted, InsertApplied, startFrame

\* The replay starts, or the row has to be failed.
LEMMA ReplayStartsKeeps ==
    ASSUME JumpInv, ReplayStarts
    PROVE  JumpInv'
<1>1. TypeOK'
  BY DEF JumpInv, TypeOK, StartPoints, ReplayStarts, startFrame, recordVars
<1>2. StartPhases'
  BY DEF JumpInv, StartPhases, ReplayStarts, startFrame
<1>3. StartedHas'
  BY DEF JumpInv, StartedHas, ReplayStarts, startFrame
<1>4. ClosingSettles'
  BY DEF JumpInv, StartPhases, ClosingSettles, ReplayStarts, startFrame
<1>5. FailsOnce'
  BY DEF JumpInv, FailsOnce, ReplayStarts, startFrame
<1>6. NothingUnrecorded'
  BY DEF JumpInv, NothingUnrecorded, ReplayStarts, recordVars
<1>7. ReplayMatchesRow'
  BY DEF JumpInv, StartPhases, ReplayMatchesRow, ReplayStarts
<1>8. QED
  BY <1>1, <1>2, <1>3, <1>4, <1>5, <1>6, <1>7
  DEF JumpInv, InputCounted, AuditTruthful, ReplayStarts, startFrame

\* The node is reached with a row and a replay there.
LEMMA NodeOpenedKeeps ==
    ASSUME JumpInv, NodeOpened
    PROVE  JumpInv'
<1>1. TypeOK'
  BY DEF JumpInv, TypeOK, StartPoints, NodeOpened, startFrame, recordVars
<1>2. StartPhases'
  BY DEF JumpInv, StartPhases, NodeOpened, startFrame
<1>3. FailsOnce'
  BY DEF JumpInv, FailsOnce, NodeOpened, startFrame
<1>4. NothingUnrecorded'
  BY DEF JumpInv, StartPhases, NothingUnrecorded, NodeOpened, recordVars
<1>5. QED
  BY <1>1, <1>2, <1>3, <1>4
  DEF JumpInv, StartedHas, ClosingSettles, InputCounted, AuditTruthful, ReplayMatchesRow,
      NodeOpened, startFrame

\* A node that refuses the connection.
LEMMA NodeRefusedKeeps ==
    ASSUME JumpInv, NodeRefused
    PROVE  JumpInv'
<1>1. TypeOK'
  BY DEF JumpInv, TypeOK, StartPoints, NodeRefused, ReplayFailRaises, ReplayFail, ExitChannel,
         startFrame, recordVars
<1>2. StartPhases'
  BY DEF JumpInv, StartPhases, NodeRefused, ReplayFailRaises, ReplayFail, startFrame
<1>3. StartedHas'
  BY DEF JumpInv, StartedHas, NodeRefused, ReplayFailRaises, ReplayFail, startFrame
<1>4. ClosingSettles'
  BY DEF JumpInv, ClosingSettles, NodeRefused, ReplayFailRaises, ReplayFail, startFrame
<1>5. FailsOnce'
  BY DEF JumpInv, FailsOnce, NodeRefused, startFrame
<1>6. NothingUnrecorded'
  BY DEF JumpInv, NothingUnrecorded, NodeRefused, ReplayFailRaises, ReplayFail, recordVars
<1>7. ReplayMatchesRow'
  BY DEF JumpInv, ReplayMatchesRow, NodeRefused, ReplayFailRaises, ReplayFail, startFrame
<1>8. QED
  BY <1>1, <1>2, <1>3, <1>4, <1>5, <1>6, <1>7
  DEF JumpInv, InputCounted, AuditTruthful, NodeRefused, startFrame

\* fail_session's UPDATE.
LEMMA DenyAppliedKeeps ==
    ASSUME JumpInv, DenyApplied
    PROVE  JumpInv'
<1>1. TypeOK'
  BY DEF JumpInv, TypeOK, StartPoints, Terminal, DenyApplied, startFrame, recordVars
<1>2. StartPhases'
  BY DEF JumpInv, StartPhases, DenyApplied, startFrame
<1>3. StartedHas'
  BY DEF JumpInv, StartPhases, StartedHas, DenyApplied, startFrame
<1>4. ClosingSettles'
  BY DEF JumpInv, StartPhases, ClosingSettles, DenyApplied, startFrame
<1>5. FailsOnce'
  BY DEF JumpInv, FailsOnce, DenyApplied, startFrame
<1>6. NothingUnrecorded'
  BY DEF JumpInv, NothingUnrecorded, DenyApplied, recordVars
<1>7. AuditTruthful'
  BY DEF JumpInv, StartPhases, ClosingSettles, AuditTruthful, DenyApplied, startFrame
<1>8. ReplayMatchesRow'
  BY DEF JumpInv, StartPhases, ReplayMatchesRow, DenyApplied
<1>9. QED
  BY <1>1, <1>2, <1>3, <1>4, <1>5, <1>6, <1>7, <1>8
  DEF JumpInv, InputCounted, DenyApplied, startFrame

\* The end of a denied jump.
LEMMA DenyReturnsKeeps ==
    ASSUME JumpInv, DenyReturns
    PROVE  JumpInv'
<1>1. TypeOK'
  BY DEF JumpInv, TypeOK, StartPoints, DenyReturns, ExitChannel, startFrame, recordVars
<1>2. StartPhases'
  BY DEF StartPhases, DenyReturns
<1>3. FailsOnce'
  BY DEF JumpInv, FailsOnce, DenyReturns, startFrame
<1>4. QED
  BY <1>1, <1>2, <1>3
  DEF JumpInv, StartedHas, ClosingSettles, InputCounted, NothingUnrecorded, AuditTruthful,
      ReplayMatchesRow, DenyReturns, startFrame, recordVars

\* An exception leaves _start_exec before the jump has started.
LEMMA StartRaisesKeeps ==
    ASSUME JumpInv, StartRaises
    PROVE  JumpInv'
<1>1. TypeOK'
  BY DEF JumpInv, TypeOK, StartPoints, StartRaises, Raise, startFrame, recordVars
<1>2. StartPhases'
  BY DEF StartPhases, StartRaises
<1>3. FailsOnce'
  BY DEF JumpInv, StartPhases, ClosingSettles, FailsOnce, StartRaises, StartFault, Raise,
         startFrame
<1>4. QED
  BY <1>1, <1>2, <1>3
  DEF JumpInv, StartedHas, ClosingSettles, InputCounted, NothingUnrecorded, AuditTruthful,
      ReplayMatchesRow, StartRaises, startFrame, recordVars

\* start_jump returns.
LEMMA JumpStartedKeeps ==
    ASSUME JumpInv, JumpStarted
    PROVE  JumpInv'
<1>1. TypeOK'
  BY DEF JumpInv, TypeOK, StartPoints, JumpStarted, startFrame, recordVars
<1>2. StartPhases'
  BY DEF JumpInv, StartPhases, JumpStarted, startFrame
<1>3. StartedHas'
  BY DEF JumpInv, StartPhases, StartedHas, JumpStarted
<1>4. FailsOnce'
  BY DEF JumpInv, FailsOnce, JumpStarted, startFrame
<1>5. QED
  BY <1>1, <1>2, <1>3, <1>4
  DEF JumpInv, ClosingSettles, InputCounted, NothingUnrecorded, AuditTruthful, ReplayMatchesRow,
      JumpStarted, startFrame, recordVars

\* The bridge is built and its pumps start.
LEMMA ProcessStartedKeeps ==
    ASSUME JumpInv, ProcessStarted
    PROVE  JumpInv'
<1>1. TypeOK'
  BY BoundsAssumption DEF JumpInv, TypeOK, StartPoints, TaskStates, ProcessStarted
<1>2. StartPhases'
  BY DEF StartPhases, ProcessStarted
<1>3. StartedHas'
  BY DEF JumpInv, StartPhases, StartedHas, ProcessStarted
<1>4. ClosingSettles'
  BY DEF JumpInv, StartPhases, ClosingSettles, ProcessStarted
<1>5. FailsOnce'
  BY DEF JumpInv, StartPhases, FailsOnce, ProcessStarted
<1>6. InputCounted'
  BY DEF JumpInv, TypeOK, InputCounted, ProcessStarted
<1>7. NothingUnrecorded'
  BY DEF JumpInv, TypeOK, NothingUnrecorded, ProcessStarted
<1>8. ReplayMatchesRow'
  BY DEF JumpInv, StartPhases, ReplayMatchesRow, ProcessStarted
<1>9. AuditTruthful'
  BY DEF JumpInv, StartPhases, ClosingSettles, AuditTruthful, ProcessStarted
<1>10. QED
  BY <1>1, <1>2, <1>3, <1>4, <1>5, <1>6, <1>7, <1>8, <1>9 DEF JumpInv

\* The pending input cannot be recorded.
LEMMA FlushFailsKeeps ==
    ASSUME JumpInv, FlushFails
    PROVE  JumpInv'
<1>1. TypeOK'
  BY BoundsAssumption
  DEF JumpInv, TypeOK, StartPoints, FlushFails, ReplayFail, Raise, startFrame
<1>2. StartPhases'
  BY DEF StartPhases, FlushFails
<1>3. StartedHas'
  BY DEF JumpInv, StartPhases, StartedHas, FlushFails, ReplayFail, startFrame
<1>4. ClosingSettles'
  BY DEF JumpInv, StartPhases, ClosingSettles, FlushFails, ReplayFail, startFrame
<1>5. FailsOnce'
  BY DEF JumpInv, FailsOnce, FlushFails, startFrame
<1>6. NothingUnrecorded'
  BY DEF JumpInv, TypeOK, NothingUnrecorded, FlushFails, ReplayFail
<1>7. ReplayMatchesRow'
  BY DEF JumpInv, StartPhases, ReplayMatchesRow, FlushFails, ReplayFail
<1>8. AuditTruthful'
  BY DEF JumpInv, StartPhases, ClosingSettles, AuditTruthful, FlushFails, startFrame
<1>9. QED
  BY <1>1, <1>2, <1>3, <1>4, <1>5, <1>6, <1>7, <1>8
  DEF JumpInv, InputCounted, FlushFails, startFrame

\* The pending input cannot be forwarded: the bridge is closed as soon as it is built.
LEMMA FlushBreaksKeeps ==
    ASSUME JumpInv, FlushBreaks
    PROVE  JumpInv'
<1>0. /\ replay = "recording" /\ replay' = "failed" /\ row = "open" /\ fin.pc = "none"
      /\ audits = <<>> /\ started /\ raised = {} /\ ~taskFailed
  BY DEF JumpInv, StartPhases, ClosingSettles, FlushBreaks, ReplayFail
<1>1. TypeOK'
  <2>1. recorded' \in Nat /\ forwarded' \in Nat
    BY BoundsAssumption DEF JumpInv, TypeOK, FlushBreaks
  <2>2. raised' \subseteq {"start", "pump", "input", "resize", "waiter", "hangup"}
    BY DEF JumpInv, TypeOK, FlushBreaks, Raise
  <2>3. fin' \in [pc : {"none", "db", "reply", "audit", "audited", "done"},
                 by : Closers \cup {"none"}, status : Terminal \cup {"none"}, viaBridge : BOOLEAN]
    <3>1. \/ fin' = fin
          \/ fin' = [pc |-> "db", by |-> "start", status |-> "failed", viaBridge |-> TRUE]
      BY DEF FlushBreaks
    <3>2. CASE fin' = fin
      BY <3>2 DEF JumpInv, TypeOK
    <3>3. CASE fin' = [pc |-> "db", by |-> "start", status |-> "failed", viaBridge |-> TRUE]
      BY <3>3 DEF Closers, Terminal
    <3>4. QED
      BY <3>1, <3>2, <3>3
  <2>4. QED
    BY <1>0, <2>1, <2>2, <2>3 DEF JumpInv, TypeOK, StartPoints, FlushBreaks
<1>2. StartPhases'
  BY <1>0 DEF JumpInv, FailsOnce, StartPhases, FlushBreaks
<1>3. StartedHas'
  BY <1>0 DEF JumpInv, StartedHas, FlushBreaks
<1>4. ClosingSettles'
  BY <1>0 DEF JumpInv, ClosingSettles, Closers, Terminal, FlushBreaks
<1>5. FailsOnce'
  BY <1>0 DEF JumpInv, FailsOnce, FlushBreaks
<1>6. NothingUnrecorded'
  BY <1>0 DEF JumpInv, TypeOK, NothingUnrecorded, FlushBreaks
<1>7. ReplayMatchesRow'
  BY <1>0 DEF ReplayMatchesRow, FlushBreaks
<1>8. AuditTruthful'
  BY <1>0 DEF AuditTruthful, FlushBreaks
<1>9. QED
  BY <1>1, <1>2, <1>3, <1>4, <1>5, <1>6, <1>7, <1>8 DEF JumpInv, InputCounted, FlushBreaks

\* Input from the user.
LEMMA DataReceivedKeeps ==
    ASSUME JumpInv, DataReceived
    PROVE  JumpInv'
<1>1. TypeOK'
  BY BoundsAssumption DEF JumpInv, TypeOK, InputCounted, DataReceived, dataFrame, recordVars
<1>2. FailsOnce'
  BY DEF JumpInv, FailsOnce, DataReceived, dataFrame
<1>3. InputCounted'
  BY DEF JumpInv, TypeOK, InputCounted, DataReceived
<1>4. QED
  BY <1>1, <1>2, <1>3
  DEF JumpInv, StartPhases, StartedHas, ClosingSettles, NothingUnrecorded, AuditTruthful,
      ReplayMatchesRow, DataReceived, dataFrame, recordVars

\* An input task runs.
LEMMA InputRunsKeeps ==
    ASSUME JumpInv, InputRuns
    PROVE  JumpInv'
<1>1. TypeOK'
  <2>1. inputs' \in 0..MaxInput
    BY BoundsAssumption DEF JumpInv, TypeOK, InputRuns
  <2>2. /\ recorded' \in Nat /\ forwarded' \in Nat
        /\ replay' \in {"none", "recording", "failed", "published", "stuck"}
    BY DEF JumpInv, TypeOK, InputRuns, Record, ReplayFail, recordVars
  <2>3. raised' \subseteq {"start", "pump", "input", "resize", "waiter", "hangup"}
    BY DEF JumpInv, TypeOK, InputRuns, Record, Raise
  <2>4. QED
    BY <2>1, <2>2, <2>3 DEF JumpInv, TypeOK, InputRuns, dataFrame
<1>2. StartPhases'
  BY DEF JumpInv, FailsOnce, StartPhases, InputRuns, dataFrame
<1>3. StartedHas'
  BY DEF JumpInv, StartedHas, InputRuns, Record, ReplayFail, dataFrame
<1>4. ClosingSettles'
  BY DEF JumpInv, ClosingSettles, InputRuns, Record, ReplayFail, dataFrame
<1>5. FailsOnce'
  BY DEF JumpInv, FailsOnce, InputRuns, dataFrame
<1>6. InputCounted'
  BY DEF JumpInv, TypeOK, InputCounted, InputRuns
<1>7. NothingUnrecorded'
  BY DEF JumpInv, TypeOK, NothingUnrecorded, InputRuns, Record, ReplayFail, dataFrame, recordVars
<1>8. ReplayMatchesRow'
  BY DEF JumpInv, ReplayMatchesRow, InputRuns, Record, ReplayFail, dataFrame
<1>9. QED
  BY <1>1, <1>2, <1>3, <1>4, <1>5, <1>6, <1>7, <1>8
  DEF JumpInv, AuditTruthful, InputRuns, dataFrame

\* The output pump has a chunk.
LEMMA OutputArrivesKeeps ==
    ASSUME JumpInv, OutputArrives
    PROVE  JumpInv'
<1>1. TypeOK'
  <2>1. /\ recorded' \in Nat /\ forwarded' \in Nat
        /\ replay' \in {"none", "recording", "failed", "published", "stuck"}
    BY DEF JumpInv, TypeOK, OutputArrives, Record, ReplayFail, recordVars
  <2>2. raised' \subseteq {"start", "pump", "input", "resize", "waiter", "hangup"}
    BY DEF JumpInv, TypeOK, OutputArrives, Record, Raise
  <2>3. pump' \in TaskStates
    BY DEF OutputArrives, TaskStates
  <2>4. QED
    BY <2>1, <2>2, <2>3 DEF JumpInv, TypeOK, OutputArrives, dataFrame, inputVars
<1>2. StartPhases'
  BY DEF JumpInv, FailsOnce, StartPhases, OutputArrives, dataFrame
<1>3. StartedHas'
  BY DEF JumpInv, StartedHas, OutputArrives, Record, ReplayFail, dataFrame
<1>4. ClosingSettles'
  BY DEF JumpInv, ClosingSettles, OutputArrives, Record, ReplayFail, dataFrame
<1>5. FailsOnce'
  BY DEF JumpInv, FailsOnce, OutputArrives, dataFrame
<1>6. NothingUnrecorded'
  BY DEF JumpInv, TypeOK, NothingUnrecorded, OutputArrives, Record, ReplayFail, dataFrame,
         recordVars
<1>7. ReplayMatchesRow'
  BY DEF JumpInv, ReplayMatchesRow, OutputArrives, Record, ReplayFail, dataFrame
<1>8. QED
  BY <1>1, <1>2, <1>3, <1>4, <1>5, <1>6, <1>7
  DEF JumpInv, InputCounted, AuditTruthful, OutputArrives, dataFrame, inputVars

\* The output pump ends.
LEMMA OutputEndsKeeps ==
    ASSUME JumpInv, OutputEnds
    PROVE  JumpInv'
<1>1. TypeOK'
  BY DEF JumpInv, TypeOK, TaskStates, OutputEnds, dataFrame, inputVars, recordVars
<1>2. FailsOnce'
  BY DEF JumpInv, FailsOnce, OutputEnds, dataFrame
<1>3. QED
  BY <1>1, <1>2
  DEF JumpInv, StartPhases, StartedHas, ClosingSettles, InputCounted, NothingUnrecorded,
      AuditTruthful, ReplayMatchesRow, OutputEnds, dataFrame, inputVars, recordVars

\* A resize task meets a closed bridge.
LEMMA ResizeRaisesKeeps ==
    ASSUME JumpInv, ResizeRaises
    PROVE  JumpInv'
<1>1. TypeOK'
  BY DEF JumpInv, TypeOK, ResizeRaises, Raise, dataFrame, inputVars, recordVars
<1>2. StartPhases'
  BY DEF JumpInv, StartPhases, ResizeRaises, dataFrame
<1>3. FailsOnce'
  BY DEF JumpInv, FailsOnce, ResizeRaises, dataFrame
<1>4. QED
  BY <1>1, <1>2, <1>3
  DEF JumpInv, StartedHas, ClosingSettles, InputCounted, NothingUnrecorded, AuditTruthful,
      ReplayMatchesRow, ResizeRaises, dataFrame, inputVars, recordVars

\* The node process ends.
LEMMA ProcessExitsKeeps ==
    ASSUME JumpInv, ProcessExits
    PROVE  JumpInv'
<1>1. TypeOK'
  BY DEF JumpInv, TypeOK, ProcessExits, taskVars, inputVars, recordVars
<1>2. QED
  BY <1>1 DEF JumpInv, StartPhases, StartedHas, ClosingSettles, FailsOnce, InputCounted,
      NothingUnrecorded, AuditTruthful, ReplayMatchesRow, ProcessExits, taskVars, inputVars,
      recordVars

\* The user's channel is lost and the tasks are cancelled.
LEMMA ConnectionLostKeeps ==
    ASSUME JumpInv, NEW s \in Terminal, ConnectionLost(s)
    PROVE  JumpInv'
<1>1. TypeOK'
  BY BoundsAssumption
  DEF JumpInv, TypeOK, StartPoints, TaskStates, ConnectionLost, CancelTasks, recordVars
<1>2. StartPhases'
  BY DEF StartPhases, ConnectionLost, CancelTasks, StartRunning
<1>3. StartedHas'
  BY DEF JumpInv, StartedHas, ConnectionLost, CancelTasks
<1>4. ClosingSettles'
  BY DEF JumpInv, ClosingSettles, ConnectionLost, CancelTasks
<1>5. FailsOnce'
  BY DEF JumpInv, FailsOnce, ConnectionLost, CancelTasks
<1>6. InputCounted'
  BY DEF JumpInv, TypeOK, InputCounted, ConnectionLost, CancelTasks
<1>7. ReplayMatchesRow'
  BY DEF JumpInv, ReplayMatchesRow, ConnectionLost, CancelTasks
<1>8. QED
  BY <1>1, <1>2, <1>3, <1>4, <1>5, <1>6, <1>7
  DEF JumpInv, NothingUnrecorded, AuditTruthful, ConnectionLost, recordVars

\* The first failed task cancels the others and schedules the failure task.
LEMMA PumpDoneKeeps ==
    ASSUME JumpInv, NEW t \in raised, PumpDone(t)
    PROVE  JumpInv'
<1>1. TypeOK'
  <2>1. raised' \subseteq {"start", "pump", "input", "resize", "waiter", "hangup"}
    BY DEF JumpInv, TypeOK, PumpDone
  <2>2. /\ fin' \in [pc : {"none", "db", "reply", "audit", "audited", "done"}, by : Closers \cup {"none"},
                    status : Terminal \cup {"none"}, viaBridge : BOOLEAN]
        /\ hangup' \in [state : TaskStates, status : Terminal \cup {"none"}]
    BY DEF JumpInv, TypeOK, PumpDone, CancelTasks, TaskStates
  <2>3. /\ start' \in StartPoints /\ inputs' \in 0..MaxInput
        /\ waiter' \in TaskStates /\ pump' \in TaskStates /\ failure' \in TaskStates
    BY BoundsAssumption DEF JumpInv, TypeOK, PumpDone, CancelTasks, StartPoints, TaskStates
  <2>4. channel' \in {"open", "closing", "lost"}
    BY DEF JumpInv, TypeOK, PumpDone, ExitChannel
  <2>5. taskFailed' \in BOOLEAN
    BY Zenon DEF PumpDone
  <2>6. QED
    BY <2>2, <2>3, <2>4, <2>5 DEF JumpInv, TypeOK, PumpDone, recordVars
<1>2. StartPhases'
  BY DEF JumpInv, StartPhases, PumpDone, CancelTasks
<1>3. StartedHas'
  BY DEF JumpInv, TypeOK, StartedHas, PumpDone, CancelTasks
<1>4. ClosingSettles'
  BY DEF JumpInv, TypeOK, ClosingSettles, PumpDone, CancelTasks
<1>5. FailsOnce'
  BY DEF JumpInv, TypeOK, FailsOnce, PumpDone, CancelTasks
<1>6. InputCounted'
  BY DEF JumpInv, TypeOK, InputCounted, PumpDone, CancelTasks
<1>7. ReplayMatchesRow'
  BY DEF JumpInv, TypeOK, ReplayMatchesRow, PumpDone, CancelTasks
<1>8. QED
  BY <1>1, <1>2, <1>3, <1>4, <1>5, <1>6, <1>7
  DEF JumpInv, NothingUnrecorded, AuditTruthful, PumpDone, recordVars

\* close_session's UPDATE.
LEMMA FinUpdateKeeps ==
    ASSUME JumpInv, FinUpdate
    PROVE  JumpInv'
<1>1. TypeOK'
  BY DEF JumpInv, TypeOK, FinUpdate, taskVars, inputVars, recordVars
<1>2. StartPhases'
  BY DEF JumpInv, StartPhases, FinUpdate, taskVars
<1>3. StartedHas'
  BY DEF JumpInv, Terminal, ClosingSettles, StartedHas, FinUpdate
<1>4. ClosingSettles'
  BY DEF JumpInv, ClosingSettles, FinUpdate
<1>5. FailsOnce'
  BY DEF JumpInv, FailsOnce, FinUpdate, taskVars, inputVars
<1>6. NothingUnrecorded'
  BY DEF JumpInv, ClosingSettles, Terminal, NothingUnrecorded, FinUpdate, recordVars
<1>7. AuditTruthful'
  <2>1. CASE row = "open"
    <3>1. \A i \in 1..Len(audits) : audits[i] \in Terminal
      BY DEF JumpInv, TypeOK
    <3>2. ~(\E i \in 1..Len(audits) : TRUE)
      BY <2>1, <3>1 DEF JumpInv, AuditTruthful, Terminal
    <3>3. QED
      BY <3>2 DEF JumpInv, AuditTruthful, FinUpdate, taskVars
  <2>2. CASE row # "open"
    BY <2>2 DEF JumpInv, AuditTruthful, FinUpdate, taskVars
  <2>3. QED
    BY <2>1, <2>2
<1>8. ReplayMatchesRow'
  BY DEF JumpInv, ClosingSettles, ReplayMatchesRow, FinUpdate
<1>9. QED
  BY <1>1, <1>2, <1>3, <1>4, <1>5, <1>6, <1>7, <1>8
  DEF JumpInv, InputCounted, FinUpdate, inputVars

\* Its reply.
LEMMA FinReplyKeeps ==
    ASSUME JumpInv, FinReply
    PROVE  JumpInv'
<1>1. TypeOK'
  BY DEF JumpInv, TypeOK, FinReply, taskVars, inputVars, recordVars
<1>2. StartPhases'
  BY DEF JumpInv, StartPhases, FinReply, taskVars
<1>3. StartedHas'
  BY DEF JumpInv, StartedHas, FinReply
<1>4. ClosingSettles'
  BY DEF JumpInv, ClosingSettles, FinReply
<1>5. FailsOnce'
  BY DEF JumpInv, FailsOnce, FinReply, taskVars, inputVars
<1>6. NothingUnrecorded'
  BY DEF JumpInv, StartedHas, NothingUnrecorded, FinReply, recordVars
<1>7. ReplayMatchesRow'
  BY DEF JumpInv, ReplayMatchesRow, FinReply
<1>8. QED
  BY <1>1, <1>2, <1>3, <1>4, <1>5, <1>6, <1>7
  DEF JumpInv, InputCounted, AuditTruthful, FinReply, taskVars, inputVars

\* The terminal audit event.
LEMMA FinAuditKeeps ==
    ASSUME JumpInv, FinAudit
    PROVE  JumpInv'
<1>1. TypeOK'
  BY DEF JumpInv, TypeOK, ClosingSettles, FinAudit, taskVars, inputVars, recordVars
<1>2. StartPhases'
  BY DEF JumpInv, StartPhases, FinAudit, taskVars
<1>3. StartedHas'
  BY DEF JumpInv, StartedHas, FinAudit
<1>4. ClosingSettles'
  BY DEF JumpInv, TypeOK, ClosingSettles, FinAudit
<1>5. FailsOnce'
  BY DEF JumpInv, TypeOK, ClosingSettles, FailsOnce, FinAudit, taskVars, inputVars
<1>6. AuditTruthful'
  BY DEF JumpInv, TypeOK, ClosingSettles, FailsOnce, AuditTruthful, FinAudit, taskVars
<1>7. ReplayMatchesRow'
  BY DEF JumpInv, ReplayMatchesRow, FinAudit
<1>8. QED
  BY <1>1, <1>2, <1>3, <1>4, <1>5, <1>6, <1>7
  DEF JumpInv, InputCounted, NothingUnrecorded, FinAudit, inputVars, recordVars

\* Its reply.
LEMMA FinAuditedKeeps ==
    ASSUME JumpInv, FinAudited
    PROVE  JumpInv'
<1>1. TypeOK'
  BY DEF JumpInv, TypeOK, ClosingSettles, StartPoints, TaskStates, FinAudited, EndTask, AfterClose,
         ExitChannel, inputVars, recordVars
<1>2. StartPhases'
  BY DEF JumpInv, ClosingSettles, FailsOnce, StartPhases, FinAudited, EndTask
<1>3. StartedHas'
  BY DEF JumpInv, StartedHas, FinAudited
<1>4. ClosingSettles'
  BY DEF JumpInv, ClosingSettles, FinAudited
<1>5. FailsOnce'
  BY DEF JumpInv, StartPhases, ClosingSettles, FailsOnce, FinAudited, EndTask, inputVars
<1>6. ReplayMatchesRow'
  BY DEF JumpInv, ReplayMatchesRow, FinAudited
<1>7. QED
  BY <1>1, <1>2, <1>3, <1>4, <1>5, <1>6
  DEF JumpInv, InputCounted, NothingUnrecorded, AuditTruthful, FinAudited, inputVars, recordVars

\* The UPDATE or the INSERT of the audit event fails, or its reply is lost.
LEMMA FinRaisesKeeps ==
    ASSUME JumpInv, FinRaises
    PROVE  JumpInv'
<1>1. TypeOK'
  BY DEF JumpInv, TypeOK, ClosingSettles, StartPoints, TaskStates, Closers, FinRaises, EndTask,
         Raise, inputVars, recordVars
<1>2. StartPhases'
  BY DEF JumpInv, ClosingSettles, FailsOnce, StartPhases, FinRaises, EndTask, Raise
<1>3. StartedHas'
  BY DEF JumpInv, StartedHas, FinRaises
<1>4. ClosingSettles'
  BY DEF JumpInv, ClosingSettles, FinRaises
<1>5. FailsOnce'
  BY DEF JumpInv, StartPhases, ClosingSettles, FailsOnce, FinRaises, EndTask, Raise, inputVars
<1>6. ReplayMatchesRow'
  BY DEF JumpInv, ReplayMatchesRow, FinRaises
<1>7. QED
  BY <1>1, <1>2, <1>3, <1>4, <1>5, <1>6
  DEF JumpInv, InputCounted, NothingUnrecorded, AuditTruthful, FinRaises, inputVars, recordVars

\* Whichever ready task comes to JumpPtyBridge.close: the first one closes, the others
\* find it done.
LEMMA BridgeCloseKeeps ==
    ASSUME JumpInv, NEW t \in {"waiter", "hangup", "failure"}, NEW s \in Terminal,
           t = "waiter" => waiter = "ready",
           t = "hangup" => hangup.state = "ready",
           t = "failure" => failure = "ready",
           BridgeClose(t, s), UNCHANGED <<exited, closeFrame>>
    PROVE  JumpInv'
<1>1. TypeOK'
  <2>1. /\ start' \in StartPoints /\ waiter' \in TaskStates /\ failure' \in TaskStates
        /\ hangup' \in [state : TaskStates, status : Terminal \cup {"none"}]
    BY DEF JumpInv, TypeOK, BridgeClose, EndTask, BusyTask, TaskStates
  <2>2. channel' \in {"open", "closing", "lost"}
    BY DEF JumpInv, TypeOK, BridgeClose, AfterClose, ExitChannel
  <2>3. /\ bridge' \in {"none", "open", "closed"}
        /\ replay' \in {"none", "recording", "failed", "published", "stuck"}
    BY DEF JumpInv, TypeOK, BridgeClose, ReplayClose, ReplayFailRaises, ReplayFail
  <2>4. fin' \in [pc : {"none", "db", "reply", "audit", "audited", "done"},
                 by : Closers \cup {"none"}, status : Terminal \cup {"none"}, viaBridge : BOOLEAN]
    <3>1. \/ fin' = fin
          \/ fin' = [pc |-> "db", by |-> t, status |-> s, viaBridge |-> TRUE]
      BY DEF BridgeClose
    <3>2. CASE fin' = fin
      BY <3>2 DEF JumpInv, TypeOK
    <3>3. CASE fin' = [pc |-> "db", by |-> t, status |-> s, viaBridge |-> TRUE]
      BY <3>3 DEF Closers
    <3>4. QED
      BY <3>1, <3>2, <3>3
  <2>5. raised' \subseteq {"start", "pump", "input", "resize", "waiter", "hangup"}
    BY DEF JumpInv, TypeOK, BridgeClose, Raise
  <2>6. QED
    BY <2>1, <2>2, <2>3, <2>4, <2>5 DEF JumpInv, TypeOK, closeFrame, inputVars, recordVars
<1>2. StartPhases'
  BY DEF JumpInv, FailsOnce, StartPhases, BridgeClose, EndTask, BusyTask, closeFrame
<1>3. StartedHas'
  BY DEF JumpInv, StartedHas, BridgeClose, ReplayClose, ReplayFailRaises, ReplayFail, closeFrame
<1>4. ClosingSettles'
  BY DEF JumpInv, StartedHas, Closers, ClosingSettles, BridgeClose, ReplayClose, ReplayFailRaises,
         ReplayFail, closeFrame
<1>5. FailsOnce'
  BY DEF JumpInv, TypeOK, FailsOnce, BridgeClose, EndTask, BusyTask, closeFrame
<1>6. NothingUnrecorded'
  BY DEF JumpInv, NothingUnrecorded, BridgeClose, ReplayClose, ReplayFailRaises, ReplayFail,
         closeFrame, recordVars
<1>7. ReplayMatchesRow'
  BY DEF JumpInv, ReplayMatchesRow, BridgeClose, ReplayClose, ReplayCanClose, ReplayFailRaises,
         ReplayFail, closeFrame
<1>8. AuditTruthful'
  BY DEF JumpInv, AuditTruthful, BridgeClose, closeFrame
<1>9. QED
  BY <1>1, <1>2, <1>3, <1>4, <1>5, <1>6, <1>7, <1>8
  DEF JumpInv, InputCounted, closeFrame, inputVars

\* _fail_started_jump, in the failure task or in _start_exec itself.
LEMMA FailStartedJumpKeeps ==
    ASSUME JumpInv, NEW t \in {"start", "failure"},
           t = "start" => start \notin {"idle", "failing", "done"},
           t = "failure" => failure = "ready",
           FailStartedJump(t), UNCHANGED <<exited, closeFrame>>
    PROVE  JumpInv'
<1>1. CASE ~started
  <2>1. EndTask(t) /\ AfterClose(t) /\ UNCHANGED <<bridge, replay, fin, raised>>
    BY <1>1 DEF FailStartedJump
  <2>2. TypeOK'
    BY <2>1
    DEF JumpInv, TypeOK, StartPoints, TaskStates, EndTask, AfterClose, ExitChannel, closeFrame,
        inputVars, recordVars
  <2>3. StartPhases'
    BY <2>1 DEF JumpInv, StartPhases, EndTask, closeFrame
  <2>4. FailsOnce'
    BY <2>1 DEF JumpInv, FailsOnce, EndTask, closeFrame, inputVars
  <2>5. QED
    BY <2>1, <2>2, <2>3, <2>4
    DEF JumpInv, StartedHas, ClosingSettles, InputCounted, NothingUnrecorded, AuditTruthful,
        ReplayMatchesRow, closeFrame, inputVars, recordVars
<1>2. CASE started /\ bridge # "none"
  <2>1. BridgeClose(t, "failed") /\ t = "failure"
    BY <1>2 DEF FailStartedJump, JumpInv, StartPhases
  <2>2. QED
    BY <2>1, BridgeCloseKeeps DEF Terminal
<1>3. CASE /\ started /\ bridge = "none"
           /\ ReplayFail /\ BusyTask(t) /\ UNCHANGED <<bridge, raised, channel>>
           /\ fin' = [pc |-> "db", by |-> t, status |-> "failed", viaBridge |-> FALSE]
  <2>2. TypeOK'
    BY <1>3
    DEF JumpInv, TypeOK, StartPoints, TaskStates, Terminal, Closers, BusyTask, ReplayFail,
        closeFrame, inputVars, recordVars
  <2>3. StartPhases'
    BY <1>3 DEF JumpInv, FailsOnce, StartPhases, BusyTask, closeFrame
  <2>4. StartedHas'
    BY <1>3 DEF JumpInv, StartedHas, ReplayFail, closeFrame
  <2>5. ClosingSettles'
    BY <1>3
    DEF JumpInv, StartPhases, StartedHas, Closers, Terminal, FailsOnce, ClosingSettles,
        ReplayFail, closeFrame
  <2>6. FailsOnce'
    BY <1>3 DEF JumpInv, FailsOnce, BusyTask, closeFrame, inputVars
  <2>7. NothingUnrecorded'
    BY <1>3 DEF JumpInv, NothingUnrecorded, ReplayFail, closeFrame, recordVars
  <2>8. ReplayMatchesRow'
    BY <1>3 DEF JumpInv, ReplayMatchesRow, ReplayFail, closeFrame
  <2>9. QED
    BY <1>3, <2>2, <2>3, <2>4, <2>5, <2>6, <2>7, <2>8
    DEF JumpInv, InputCounted, AuditTruthful, closeFrame, inputVars
<1>4. CASE /\ started /\ bridge = "none"
           /\ ReplayFailRaises /\ EndTask(t) /\ Raise(t) /\ UNCHANGED <<bridge, fin, channel>>
  <2>1. replay = "recording" /\ replay' = "failed"
    BY <1>4 DEF ReplayFailRaises, ReplayFail
  <2>2. fin.pc = "none" /\ row = "open" /\ audits = <<>>
    BY <1>4, <2>1 DEF JumpInv, TypeOK, Terminal, StartedHas, ClosingSettles
  <2>3. TypeOK'
    <3>1. raised' \subseteq {"start", "pump", "input", "resize", "waiter", "hangup"}
      BY <1>4 DEF JumpInv, TypeOK, Raise
    <3>2. QED
      BY <1>4, <2>1, <3>1
      DEF JumpInv, TypeOK, StartPoints, TaskStates, EndTask, closeFrame, inputVars, recordVars
  <2>4. StartPhases'
    BY <1>4, <2>1, <2>2 DEF JumpInv, FailsOnce, StartPhases, EndTask, Raise, closeFrame
  <2>5. FailsOnce'
    BY <1>4, <2>2 DEF JumpInv, StartPhases, FailsOnce, EndTask, Raise, closeFrame, inputVars
  <2>6. QED
    BY <1>4, <2>1, <2>2, <2>3, <2>4, <2>5
    DEF JumpInv, StartedHas, ClosingSettles, InputCounted, NothingUnrecorded, AuditTruthful,
        ReplayMatchesRow, closeFrame, inputVars, recordVars
<1>5. QED
  BY <1>1, <1>2, <1>3, <1>4 DEF FailStartedJump

\* The except clause of _start_exec.
LEMMA ProcessFailsKeeps ==
    ASSUME JumpInv, ProcessFails
    PROVE  JumpInv'
BY FailStartedJumpKeeps DEF ProcessFails, StartFault, closeFrame

\* _wait_for_process.
LEMMA WaiterWakesKeeps ==
    ASSUME JumpInv, WaiterWakes
    PROVE  JumpInv'
BY BridgeCloseKeeps DEF WaiterWakes, Terminal

\* The closing task of connection_lost.
LEMMA HangupRunsKeeps ==
    ASSUME JumpInv, HangupRuns
    PROVE  JumpInv'
BY BridgeCloseKeeps DEF HangupRuns, JumpInv, FailsOnce

\* The failure task.
LEMMA FailureRunsKeeps ==
    ASSUME JumpInv, FailureRuns
    PROVE  JumpInv'
BY FailStartedJumpKeeps DEF FailureRuns

\* Every step of the session keeps the invariant.
LEMMA NextKeeps == JumpInv /\ [Next]_vars => JumpInv'
<1> SUFFICES ASSUME JumpInv, [Next]_vars
             PROVE  JumpInv'
  OBVIOUS
<1>1. CASE Start
  BY <1>1, ExecRequestedKeeps, DeniedKeeps, AuthorizedKeeps, InsertAppliedKeeps,
     ReplayStartsKeeps, NodeOpenedKeeps, NodeRefusedKeeps, DenyAppliedKeeps, DenyReturnsKeeps,
     StartRaisesKeeps, JumpStartedKeeps, ProcessStartedKeeps, FlushFailsKeeps,
     FlushBreaksKeeps, ProcessFailsKeeps
  DEF Start
<1>2. CASE Data
  BY <1>2, DataReceivedKeeps, InputRunsKeeps, OutputArrivesKeeps, OutputEndsKeeps,
     ResizeRaisesKeeps
  DEF Data
<1>3. CASE Ending
  BY <1>3, ProcessExitsKeeps, WaiterWakesKeeps, ConnectionLostKeeps, HangupRunsKeeps,
     PumpDoneKeeps, FailureRunsKeeps, FinUpdateKeeps, FinReplyKeeps, FinAuditKeeps,
     FinAuditedKeeps, FinRaisesKeeps
  DEF Ending
<1>4. CASE UNCHANGED vars
  BY <1>4 DEF vars, taskVars, inputVars, recordVars, JumpInv, TypeOK, StartPhases, StartedHas,
      ClosingSettles, FailsOnce, InputCounted, NothingUnrecorded, AuditTruthful,
      ReplayMatchesRow
<1>5. QED
  BY <1>1, <1>2, <1>3, <1>4 DEF Next

\* The inductive invariant of a jump session holds for any faults and any amount of
\* input and output (start_jump, JumpPtyBridge, RestrictedShellSession).
THEOREM JumpInvariant == Spec => []JumpInv
<1>1. Init => TypeOK
  <2>1. NotClosing \in [pc : {"none", "db", "reply", "audit", "audited", "done"},
                       by : Closers \cup {"none"}, status : Terminal \cup {"none"}, viaBridge : BOOLEAN]
    BY DEF NotClosing
  <2>2. NoHangup \in [state : TaskStates, status : Terminal \cup {"none"}]
    BY DEF NoHangup, TaskStates
  <2>3. <<>> \in Seq(Terminal)
    OBVIOUS
  <2>4. 0 \in 0..MaxInput
    BY BoundsAssumption
  <2>5. Init => started \in BOOLEAN /\ exited \in BOOLEAN /\ taskFailed \in BOOLEAN
    BY Zenon DEF Init
  <2>6. 0 \in Nat
    OBVIOUS
  <2>7. QED
    BY <2>1, <2>2, <2>3, <2>4, <2>6, Zenon DEF Init, TypeOK, StartPoints, TaskStates
<1>2. Init => JumpInv
  BY <1>1 DEF Init, NotClosing, NoHangup, JumpInv, StartPhases, StartedHas, ClosingSettles,
      FailsOnce, InputCounted, NothingUnrecorded, AuditTruthful, ReplayMatchesRow
<1>3. QED
  BY <1>2, NextKeeps, PTL DEF Spec

\* "Replay capture is mandatory": no byte reaches the node or the user unrecorded, and the
\* node is not reached before there is a row and a replay (start_jump, _record).
THEOREM ReplayIsMandatory == Spec => []NothingUnrecorded
BY JumpInvariant, PTL DEF JumpInv

\* Every terminal audit event says what the row says, and there is one at most, or two
\* where _start_exec's own closing lost the reply to its INSERT and the failure task
\* closed once more (JumpPtyBridge.close, _fail_started_jump).
THEOREM AuditIsTruthful == Spec => []AuditTruthful
BY JumpInvariant, PTL DEF JumpInv

\* A row is closed only with a published replay and failed only without one
\* (JumpPtyBridge.close, ReplayRecorder).
THEOREM ReplayFollowsRow == Spec => []ReplayMatchesRow
BY JumpInvariant, PTL DEF JumpInv

\* A step that changes neither the row nor whether its replay is published is none of the
\* row's.
LEMMA StuttersRow ==
    ASSUME UNCHANGED <<row, replay>>
    PROVE  UNCHANGED Row!rowVars
BY DEF Row!rowVars

\* BridgeClose publishes the replay of an open row, or leaves both alone.
LEMMA BridgeClosePublishes ==
    ASSUME JumpInv, NEW t, NEW s \in Terminal, BridgeClose(t, s), UNCHANGED row
    PROVE  [Row!RowNext]_Row!rowVars
BY DEF BridgeClose, ReplayFailRaises, ReplayFail, Row!RowNext, Row!Publish, Row!rowVars, JumpInv, StartedHas

\* _fail_started_jump publishes nothing.
LEMMA FailStartedJumpStutters ==
    ASSUME JumpInv, NEW t, FailStartedJump(t), UNCHANGED row
    PROVE  [Row!RowNext]_Row!rowVars
<1>1. CASE started /\ bridge # "none"
  BY <1>1, BridgeClosePublishes DEF FailStartedJump, Terminal
<1>2. CASE ~started \/ bridge = "none"
  BY <1>2 DEF FailStartedJump, ReplayFailRaises, ReplayFail, Row!rowVars
<1>3. QED
  BY <1>1, <1>2

\* Every step of a session is a step of its row, or none of them.
LEMMA NextRefinesRow == JumpInv /\ [Next]_vars => [Row!RowNext]_Row!rowVars
<1> SUFFICES ASSUME JumpInv, [Next]_vars
             PROVE  [Row!RowNext]_Row!rowVars
  OBVIOUS
<1>1. CASE InsertApplied
  BY <1>1 DEF InsertApplied, JumpInv, StartPhases, Row!RowNext, Row!Create
<1>2. CASE ReplayStarts \/ NodeRefused \/ FlushFails \/ FlushBreaks
  BY <1>2 DEF ReplayStarts, NodeRefused, FlushFails, FlushBreaks, ReplayFailRaises, ReplayFail, JumpInv, StartPhases,
      Row!rowVars
<1>3. CASE DenyApplied
  BY <1>3 DEF DenyApplied, JumpInv, StartPhases, Row!RowNext, Row!Fail
<1>4. CASE \/ ExecRequested \/ Denied \/ Authorized \/ NodeOpened \/ DenyReturns \/ StartRaises
           \/ JumpStarted \/ ProcessStarted
  BY <1>4, StuttersRow
  DEF ExecRequested, Denied, Authorized, NodeOpened, DenyReturns, StartRaises, JumpStarted,
      ProcessStarted
<1>5. CASE ProcessFails \/ FailureRuns
  BY <1>5, FailStartedJumpStutters DEF ProcessFails, FailureRuns, closeFrame
<1>6. CASE InputRuns \/ OutputArrives
  BY <1>6 DEF InputRuns, OutputArrives, Record, ReplayFail, dataFrame, Row!rowVars
<1>7. CASE DataReceived \/ OutputEnds \/ ResizeRaises
  BY <1>7, StuttersRow DEF DataReceived, OutputEnds, ResizeRaises, dataFrame
<1>8. CASE WaiterWakes \/ HangupRuns
  BY <1>8, BridgeClosePublishes
  DEF WaiterWakes, HangupRuns, closeFrame, JumpInv, FailsOnce, Terminal
<1>9. CASE FinUpdate
  BY <1>9 DEF FinUpdate, JumpInv, ClosingSettles, Terminal, Row!RowNext, Row!Close, Row!Fail,
      Row!rowVars
<1>10. CASE \/ ProcessExits \/ FinReply \/ FinAudit \/ FinAudited \/ FinRaises
            \/ (\E s \in Terminal : ConnectionLost(s)) \/ (\E t \in raised : PumpDone(t))
  BY <1>10, StuttersRow DEF ProcessExits, FinReply, FinAudit, FinAudited, FinRaises,
      ConnectionLost, PumpDone
<1>11. CASE UNCHANGED vars
  BY <1>11, StuttersRow DEF vars
<1>12. QED
  BY <1>1, <1>2, <1>3, <1>4, <1>5, <1>6, <1>7, <1>8, <1>9, <1>10, <1>11
  DEF Next, Start, Data, Ending

\* A jump session implements the life of its row: created once, ended at most once, closed
\* only after its replay was published (sessions.status, ReplayRecorder.close).
THEOREM JumpRefinesRow == Spec => RefinesRow
<1>1. Init => Row!RowInit
  BY DEF Init, Row!RowInit
<1>2. QED
  BY <1>1, NextRefinesRow, JumpInvariant, PTL DEF Spec, RefinesRow, Row!RowSpec
=============================================================================
