-------------------------- MODULE ReconnectProofs --------------------------
(***************************************************************************)
(* Credentials that are void stay void, for any limits and delays and any  *)
(* number of faults.                                                       *)
(***************************************************************************)
EXTENDS Reconnect, TLAPS

\* The row's credentials are not the agent's, and no connection is past the check.
Barred == barred # {} /\ link \notin {"checked", "seen", "up"}

\* The operator's and the clock's steps only add reasons to turn the agent away, and only a
\* connection that passes authenticate gets on to the registry.
LEMMA BarredStays ==
    ASSUME Barred, [Next]_vars
    PROVE  Barred'
<1>1. CASE UNCHANGED vars
  BY <1>1 DEF vars, Barred
<1>2. CASE Loop
  BY <1>2 DEF Loop, Begin, Dial, Welcome, ReadError, ReadEof, Wake, RestartAgent, Barred
<1>3. CASE EnrollCommand
  BY <1>3 DEF EnrollCommand, PostEnroll, WriteIdentity, RewriteConf, Barred
<1>4. CASE Handler
  BY <1>4 DEF Handler, Authenticate, HandlerRaises, Holds, UpdateLastSeen, Register, Barred
<1>5. CASE Operator \/ Expire
  BY <1>5 DEF Operator, RevokeAgent, RotateTunnelSecret, Expire, Barred
<1>6. CASE Recovery \/ Orphan \/ FrameArrives \/ JumpFindsHalfOpen \/ Staleness
  BY <1>6 DEF Recovery, ServerStarts, DatabaseStarts, Orphan, OrphanGoesOn, OrphanTimesOut, FrameArrives,
    JumpFindsHalfOpen, Staleness, Barred
<1>7. CASE Reset \/ SilentLoss \/ NodeCrash \/ ServerStops \/ DatabaseStops
  BY <1>7 DEF Reset, SilentLoss, NodeCrash, Abandoned, ServerStops, DatabaseStops, Barred
<1>8. QED
  BY <1>1, <1>2, <1>3, <1>4, <1>5, <1>6, <1>7 DEF Next

\* An agent that was revoked, whose secret was rotated or whose certificate has run out, and
\* that is not past the check at that moment, has no tunnel ever again (authenticate).
THEOREM VoidCredentialsStayVoid == Spec => DeadCredentialsStayDead
<1>1. Barred /\ [Next]_vars => Barred'
  BY BarredStays
<1>2. Barred => link # "up"
  BY DEF Barred
<1>3. (barred # {} /\ link \notin {"checked", "seen", "up"}) => Barred
  BY DEF Barred
<1>4. QED
  BY <1>1, <1>2, <1>3, PTL DEF Spec, DeadCredentialsStayDead

-----------------------------------------------------------------------------
\* The exponential part of the backoff.
LEMMA ExponentialBound ==
    ASSUME NEW a \in Nat
    PROVE  Exponential(a) \in 0..MaxDelay
<1>1. /\ 2 ^ 0 \in Nat /\ 2 ^ 1 \in Nat /\ 2 ^ 2 \in Nat /\ 2 ^ 3 \in Nat /\ 2 ^ 4 \in Nat /\ 2 ^ 5 \in Nat
      /\ 2 ^ 6 \in Nat /\ 2 ^ 7 \in Nat /\ 2 ^ 8 \in Nat /\ 2 ^ 9 \in Nat /\ 2 ^ 10 \in Nat /\ 2 ^ 11 \in Nat
  OBVIOUS
<1>2. a < 12 => \/ a = 0 \/ a = 1 \/ a = 2 \/ a = 3 \/ a = 4 \/ a = 5
                \/ a = 6 \/ a = 7 \/ a = 8 \/ a = 9 \/ a = 10 \/ a = 11
  OBVIOUS
<1>3. a < 12 => 2 ^ a \in Nat
  BY Zenon, <1>1, <1>2
<1>4. QED
  BY <1>3, DelayAssumption DEF Exponential, Least

\* next_reconnect_delay never exceeds the configured maximum, whatever the jitter.
LEMMA DelayBound ==
    ASSUME NEW a \in Nat, NEW jitter \in {0, 1}
    PROVE  NextDelay(a, jitter) \in 0..(2 * MaxDelay)
<1>1. Exponential(a) \in Nat /\ MaxDelay \in Nat
  BY ExponentialBound, DelayAssumption
<1>2. CASE jitter = 0
  BY <1>1, <1>2 DEF NextDelay, Least
<1>3. CASE jitter = 1
  BY <1>1, <1>3 DEF NextDelay, Least
<1>4. QED
  BY <1>2, <1>3

\* The types of what the run command keeps, the attempt among them.
RunTyped ==
    /\ agent \in {"start", "dial", "connected", "sleep", "dead", "crashed"}
    /\ attempt \in 0..OverflowAt /\ (limit > 0 => attempt <= limit)
    /\ delay \in 0..(2 * MaxDelay) /\ limit \in Limits

\* The except clause of _run_tunnel counts an attempt only below both limits.
LEMMA RetryTyped ==
    ASSUME RunTyped, Retry, limit' = limit
    PROVE  RunTyped'
<1>1. attempt \in Nat /\ limit \in Nat /\ OverflowAt \in Nat
  BY LimitsAssumption, OverflowAssumption DEF RunTyped
<1>2. CASE LimitReached \/ attempt >= OverflowAt
  BY <1>2 DEF RunTyped, Retry
<1>3. CASE ~(LimitReached \/ attempt >= OverflowAt)
  <2>1. agent' = "sleep" /\ attempt' = attempt + 1 /\ \E jitter \in {0, 1} : delay' = NextDelay(attempt, jitter)
    BY <1>3 DEF Retry
  <2>2. delay' \in 0..(2 * MaxDelay)
    BY <1>1, <2>1, DelayBound
  <2>3. attempt' \in 0..OverflowAt /\ (limit > 0 => attempt' <= limit)
    BY <1>1, <1>3, <2>1 DEF LimitReached
  <2>4. QED
    BY <2>1, <2>2, <2>3 DEF RunTyped
<1>4. QED
  BY <1>2, <1>3

\* The types of everything else.
RestTyped ==
    /\ identity \in {"ok", "missing", "garbled"} /\ enroll \in {"idle", "answered", "written", "over"}
    /\ link \in Links /\ orphan \in Stages \cup {"none", "told"} /\ slot \in {"free", "current", "half"}
    /\ barred \subseteq {"revoked", "rotated", "expired"}
    /\ server \in {"up", "down"} /\ database \in {"up", "down"}
    /\ faults \in 0..MaxFaults

\* The loop, the commands and the faults keep the run command's types.
LEMMA RunStaysTyped ==
    ASSUME RunTyped, [Next]_vars
    PROVE  RunTyped'
<1>1. CASE Begin \/ Wake \/ RestartAgent \/ ReadEof
  BY <1>1, OverflowAssumption, LimitsAssumption DEF Begin, Wake, RestartAgent, ReadEof, Return, RunTyped
<1>2. CASE Dial \/ ReadError \/ Reset \/ SilentLoss
  <2>1. limit' = limit /\ (Retry \/ (agent' \in {"connected", "dead"} /\ UNCHANGED <<attempt, delay>>))
    BY <1>2 DEF Dial, ReadError, Reset, SilentLoss
  <2>2. QED
    BY <2>1, RetryTyped DEF RunTyped
<1>3. CASE NodeCrash
  BY <1>3 DEF NodeCrash, RunTyped
<1>4. CASE UNCHANGED runVars
  BY <1>4 DEF runVars, RunTyped
<1>5. QED
  BY <1>1, <1>2, <1>3, <1>4 DEF Next, Loop, EnrollCommand, PostEnroll, WriteIdentity, RewriteConf, Handler,
    Authenticate, UpdateLastSeen, Register, Operator, RevokeAgent, RotateTunnelSecret, Expire, Recovery,
    ServerStarts, DatabaseStarts, FrameArrives, JumpFindsHalfOpen, Staleness, ServerStops, DatabaseStops,
    Orphan, OrphanGoesOn, OrphanTimesOut, vars, nodeVars

\* Every step keeps the types of the rest.
LEMMA RestStaysTyped ==
    ASSUME RestTyped, [Next]_vars
    PROVE  RestTyped'
<1>1. CASE Loop
  BY <1>1 DEF Loop, Begin, Dial, Welcome, ReadError, ReadEof, Wake, RestartAgent, hostVars, RestTyped, Links, Stages
<1>2. CASE EnrollCommand
  BY <1>2 DEF EnrollCommand, PostEnroll, WriteIdentity, RewriteConf, hostVars, RestTyped
<1>3. CASE Handler \/ FrameArrives
  BY <1>3 DEF Handler, Authenticate, HandlerRaises, UpdateLastSeen, Register, FrameArrives, nodeVars,
    hostVars, RestTyped, Links, Stages
<1>4. CASE Orphan \/ Operator \/ Expire \/ JumpFindsHalfOpen \/ Staleness
  BY <1>4 DEF Orphan, OrphanGoesOn, OrphanTimesOut, Operator, RevokeAgent, RotateTunnelSecret, Expire,
    JumpFindsHalfOpen, Staleness, nodeVars, hostVars, RestTyped, Stages
<1>5. CASE Recovery
  BY <1>5 DEF Recovery, ServerStarts, DatabaseStarts, nodeVars, RestTyped
<1>6. CASE Reset \/ SilentLoss \/ NodeCrash \/ ServerStops \/ DatabaseStops
  <2>1. faults' \in 0..MaxFaults
    BY <1>6, FaultsAssumption DEF Reset, SilentLoss, NodeCrash, ServerStops, DatabaseStops, Fault, RestTyped
  <2>2. QED
    BY <1>6, <2>1 DEF Reset, SilentLoss, NodeCrash, Abandoned, ServerStops, DatabaseStops, Dropped, nodeVars,
      hostVars, RestTyped, Links, Stages
<1>7. CASE UNCHANGED vars
  BY <1>7 DEF vars, nodeVars, hostVars, RestTyped
<1>8. QED
  BY <1>1, <1>2, <1>3, <1>4, <1>5, <1>6, <1>7 DEF Next

\* Every step keeps the two flags Boolean.
LEMMA FlagsStayTyped ==
    ASSUME token \in BOOLEAN, fresh \in BOOLEAN, [Next]_vars
    PROVE  token' \in BOOLEAN /\ fresh' \in BOOLEAN
<1>1. token' = token \/ token' = FALSE
  BY DEF Next, Loop, Begin, Dial, ReadError, ReadEof, Wake, RestartAgent, EnrollCommand, PostEnroll,
    WriteIdentity, RewriteConf, Handler, Authenticate, UpdateLastSeen, Register, Operator, RevokeAgent,
    RotateTunnelSecret, Expire, Recovery, ServerStarts, DatabaseStarts, FrameArrives, JumpFindsHalfOpen,
    Staleness, Orphan, OrphanGoesOn, OrphanTimesOut, Reset, SilentLoss, NodeCrash, ServerStops,
    DatabaseStops, vars, nodeVars
<1>2. fresh' = fresh \/ fresh' = FALSE \/ fresh' = Refreshed
  BY DEF Next, Loop, Begin, Dial, ReadError, ReadEof, Wake, RestartAgent, EnrollCommand, PostEnroll,
    WriteIdentity, RewriteConf, Handler, Authenticate, UpdateLastSeen, Register, Operator, RevokeAgent,
    RotateTunnelSecret, Expire, Recovery, ServerStarts, DatabaseStarts, FrameArrives, JumpFindsHalfOpen,
    Staleness, Orphan, OrphanGoesOn, OrphanTimesOut, Reset, SilentLoss, NodeCrash, ServerStops,
    DatabaseStops, vars
<1>3. Refreshed \in BOOLEAN
  BY Zenon DEF Refreshed
<1>4. QED
  BY Zenon, <1>1, <1>2, <1>3

\* The agent counts its attempts within max_reconnect_attempts and below the overflow, and no
\* sleep exceeds the configured maximum (_run_tunnel, next_reconnect_delay).
THEOREM BackoffIsBounded == Spec => []TypeOK
<1>1. TypeOK <=> RunTyped /\ RestTyped /\ token \in BOOLEAN /\ fresh \in BOOLEAN
  BY DEF TypeOK, RunTyped, RestTyped
<1>2. Init => TypeOK
  <2> SUFFICES ASSUME Init PROVE TypeOK
    OBVIOUS
  <2>1. RunTyped
    BY DelayAssumption, OverflowAssumption, LimitsAssumption DEF Init, RunTyped
  <2>2. RestTyped
    BY FaultsAssumption DEF Init, RestTyped, Links
  <2>3. token \in BOOLEAN /\ fresh \in BOOLEAN
    BY Zenon DEF Init
  <2>4. QED
    BY <1>1, <2>1, <2>2, <2>3
<1>3. TypeOK /\ [Next]_vars => TypeOK'
  <2> SUFFICES ASSUME TypeOK, [Next]_vars PROVE TypeOK'
    OBVIOUS
  <2>1. RunTyped' /\ RestTyped' /\ token' \in BOOLEAN /\ fresh' \in BOOLEAN
    BY <1>1, RunStaysTyped, RestStaysTyped, FlagsStayTyped
  <2>2. QED
    BY <2>1 DEF TypeOK, RunTyped, RestTyped
<1>4. QED
  BY <1>2, <1>3, PTL DEF Spec
=============================================================================
