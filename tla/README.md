# VibeConnect in TLA+

VibeConnect lets a user reach a node that only makes outgoing connections. An
agent on the node keeps one TLS tunnel to the server; the server terminates the
user's SSH connection, decides which node the user may reach, opens an SSH
connection to the node's sshd through the tunnel, and records the terminal in a
replay file. This directory specifies the parts of the server and of the agent
in which several things happen at once or something may fail half-way, checks
them with TLC on small instances, and proves with TLAPS, for every size, all of
their invariants, the action properties and the refinements.

All paths below are relative to the repository's root unless they name a module
here.

## 1. The system

| Component | State it keeps | Operations | Talks to |
|---|---|---|---|
| Tunnel broker (`src/server/tunnel.py`) | `ActiveTunnelRegistry._active`, `ServerTunnelBroker._connections` and `_channel_agents`, one `TunnelChannelRegistry`, heartbeat and set of adapters per connection | `handle_stream` per accepted connection; `open_session`, `send_data`, `close_session` for the jump code; `_drop_connection` | agents over TLS, `agents` table, jump code |
| Tunnel data path (`src/server/tunnel.py`, `src/agent/tunnel.py`) | `BrokerTunnelStream`, `_BrokerTunnelTransport`; the agent's dictionary of channels and their forwarder tasks | write tasks, read loops, agent dispatch, `_forward_local_to_tunnel`, `_close_channel` | AsyncSSH, the node's sshd |
| Jump session (`src/server/jump.py`, `src/server/ssh.py`, `src/vibeconnect_common/replay.py`) | the `sessions` row, the replay recorder, `JumpPtyBridge`, five kinds of tasks | `start_jump`, output pump, input tasks, waiter, `connection_lost`, `_pump_done` | database, audit, replay file, broker |
| Login and authorization (`src/server/ssh.py`, `auth.py`, `main.py`) | the identity of a connection; what a request has read | `validate_public_key`, `start_exec`, the checks of `start_jump` | authorized-keys file, `agents` table, operator |
| Enrollment (`src/server/enrollment.py`, `src/agent/enrollment.py`) | `enrollment_tokens`, `agents`, the rate limiter, `agent.conf`, `identity.json` | `POST /enroll`, the agent's `enroll` command | operator commands |
| Operator commands (`src/server/admin.py`) | rows of the two tables | create-agent, expire-token, revoke-agent, rotate-tunnel-secret, update-node-host-key | everything above, through the database |
| Agent reconnect loop (`src/agent/main.py`) | the attempt counter, `agent.conf`, `identity.json` | start, dial, back off, give up; the enroll command beside it | the broker's slot, the row in `agents`, systemd |
| Start, migrations, shutdown (`src/server/main.py`, `src/vibeconnect_common/db.py`) | `schema_migrations`, four ports, the pool | checking the configuration, `run_migrations`, opening and closing listeners | files, other server processes |
| Frame codec (`src/vibeconnect_common/tunnel.py`, both `_read_one_frame`) | how far a reader is within a frame | encode, read prefix, header and payload, decode | the connection |
| Configuration (`src/vibeconnect_common/config.py`), health (`src/server/health.py`) | a snapshot taken at start | validation, `/ready` | starts of server and agent |
| CA rotation, replay retention, cryptography, audit writer, `connect` | see section 7 | | |

What makes it hard:

- **Awaits.** The server is one asyncio thread, but every database query, write
  and handshake is a point where other tasks run. State read before an await
  (the connection found by `close_session`, the frame read before
  `update_last_seen`, the host key read before the jump target) may be stale
  after it.
- **Cancellation.** `connection_lost` cancels the tasks of a session wherever
  they are suspended, after a statement has taken effect and before its reply.
- **Statements without a transaction.** Enrollment and the operator's commands
  are sequences of statements that each commit alone, so requests, commands and
  crashes fall in between.
- **Two ends.** A session is closed on the server and at the node by different
  programs, and data in flight crosses the close. A connection may be dead for
  one end only.
- **Several processes.** Every server start migrates, so two of them race for
  the schema and for the ports. On a node, `enroll` and `run` share two files.
- **Checked, then used.** A configuration is checked before the migrations and
  its files are read after them; credentials are compared once, at the start of a
  tunnel that may last for months.
- **Limits on both sides.** The server's frame limit is configured, the agent's
  is fixed, and a stream may end in the middle of a frame.

## 2. Modules

| Module | Models | State and actions against the code |
|---|---|---|
| `Broker` | all tunnel handlers of the server and the calls into the broker | `phase[c]` is the await at which the handler of connection `c` is suspended; an action is the code up to the next await. One variable per dictionary of the code. The peer may send any frame. |
| `SessionDirectory` | abstract: what the broker promises | a slot per agent, the sessions reachable through it, names never reused, a tunnel that goes takes its sessions with it in one step |
| `Tunnel` | one tunnel with *our* agent at the other end | both wires as sequences of frames; data frames carry their position in the byte stream; `drain()` blocks above `HighWater` frames; `awaits` is the channel whose sshd the agent's one loop is waiting for |
| `JumpSession` | one session, all its tasks | effect and reply of a statement, the audit's INSERT included, are two steps, so that a cancellation or a lost connection can separate them; `fin` is the one execution of the closing code |
| `SessionRow` | abstract: the life of a `sessions` row | created once, ended once, closed only with a published replay |
| `Authorization` | one SSH connection, its keys and its exec requests, and the operator | a request reads the database in three statements, an action each |
| `Enrollment` | one node name: tokens, requests, limiter, the node's files | one action per SQL statement or file write |
| `Reconnect` | the life of one agent: `run`, `enroll` and their two files, against the slot and the row the server keeps | `link` is the connection as the server's handler sees it, an action per await of `handle_stream`; `orphan` is a handler whose peer is gone and that has not noticed; `barred` is why the row's credentials are no longer the agent's; delays in half seconds, so that the extremes of the jitter are integers |
| `FrameCodec` | one direction of one connection in bytes | the stream is a sequence of prefixes, headers and payloads, each of which may be cut; an action per `readexactly` |
| `FrameFifo` | abstract: what a framed stream promises | accepted frames are handed on whole and in order, the first other one ends it |
| `Bootstrap` | several servers and migrate commands on one database and one host, under the service manager | the configuration is checked in one step, each listener reads its files as it takes its port; a migration is a transaction; `starts` counts towards systemd's limit |
| `MC*` | instances | model values, symmetry sets and constant functions only |
| `BrokerProofs`, `TunnelProofs`, `JumpProofs`, `AuthorizationProofs`, `EnrollmentProofs`, `ReconnectProofs`, `FrameCodecProofs`, `BootstrapProofs` | theorems about the module of the same name (`JumpProofs`: `JumpSession`) | one lemma per action, or per group of actions that touch the same state |

A definition named `X_Something` directly before `X` is `X` with a plausible
mistake in it; it is used to see that the property of that mistake's run fails.

How they fit together: `Broker` is open to any peer and is refined to
`SessionDirectory`; `Tunnel` closes the loop with the real agent for one tunnel
and takes registration as done; both take a frame as one message, which is what
`FrameCodec` shows of the bytes (`RefinesFifo`). `Reconnect` keeps of the broker
the slot and the handler's awaits, of enrollment the two files, and of the agent
the loop: it is where authentication, enrollment and revocation meet. `JumpSession` takes authorization as one step
(`Authorized` or `Denied`) and the broker as a node connection that opens or
fails; `Authorization` ends where the node connection is made. These seams are where
the code's modules meet, too: each is one call or one row.

Not modelled from source but from how the source uses them ("external"): the
network, AsyncSSH's calls into its transport and server, sshd, PostgreSQL's
locking of concurrent DDL, the clock and the service manager.

## 3. Runs

Bounds are named in the modules (`Max...`) and given in the `.cfg` files.

### Tunnel broker

- **broker_safety** (`MCBroker`): two agents, two
  connections, two channels, room for one session per agent. Two connections
  are what it takes for one to be a duplicate of the other, or for a new tunnel
  to follow an old one whose close is still in `drain`; two channels, for one
  to be opened while another is being closed.
  `ServingIsRegistered`: no agent has two tunnels.
  `RoutesLead`: no `KeyError` in `_connections[agent_id]`. `NoOrphanStream`: no
  reader waits on a stream nobody can feed. `IntruderHarmless`: a refused
  duplicate, whose `finally` runs like any other, harms nothing.
  `RefinesDirectory`.
- **broker_time** (`MCBroker`): a clock that runs for two heartbeat intervals of
  one tick, which is when a tunnel becomes stale; one agent, two connections, one
  session. `StaleFailsClosed` holds although a refused duplicate refreshes
  `agents.last_seen`; `LossTearsDown`.
- **broker_revoked** (violated): `RevokedTunnelEnds`.

### Tunnel data path

- **tunnel** (`MCTunnel`): two sessions on one tunnel, one to which two data
  frames are written and one that sends two back, and no room to buffer on the way; sshd may refuse or
  reset. `BytesInOrder`, `AgentNeverConfused`, `OnlyCrossingKills`,
  `NoStrayConnection`, `AgentBackpressure`, `CloseReachesNode`. An sshd need not read,
  and while the agent's loop waits for it no frame of any session is dispatched:
  `CloseReachesNode` asks that the loop comes back again and again, and TLC refutes it
  without that. A second frame is needed for order, a second session for what one session's end does to the
  other, and a high-water mark of zero makes every write one that may block.
- **tunnel_heartbeat** (violated): `HeartbeatRevives`.

### Jump session

- **jump** (`MCJumpSession`): every fault (database, audit sink, replay storage,
  tunnel, node) at any point, two inputs and two chunks of output, so that one
  can be buffered and one sent while a fault strikes. A statement, the audit's too, may
  fail before or after it took effect. `NothingUnrecorded`,
  `AuditTruthful`, `ReplayMatchesRow`, `RefinesRow`; and that a session ends:
  `ExitPersists`, `HangupOnOpenBridgePersists`, `ReplayFailureEnds`.
- **jump_hangup** (violated): `HangupPersists`, without any fault.

### Login and authorization

- **authorization** (`MCAuthorization`): two users, two keys of which the client
  holds one, two nodes with different labels, two requests, two changes by the
  operator (two are needed to move a pin and move it back, or to revoke one node
  and edit the file). `IdentityIsSigned`, `OnlyGranted`, `RevocationHeeded`,
  `PinUnmoved`.

### Enrollment

- **enrollment** (`MCEnrollment`): two tokens, so that one is reissued while the
  other is in use; two requests at a time and four in all, so that the limiter is
  reached; crashes of server and node. `BurntIsCounted`, `SingleUse`,
  `IdentityIsEnrolled`, `TrailLeadsHome`, `GuessesBounded`.

### Agent

- **reconnect** (`Reconnect`): a cap that is reached after three doublings, no
  limit or one of three attempts, three faults: enough for an outage of the
  database, a loss that only the agent sees, and a node that loses power between
  its two files, in one behaviour. `OverflowAt` is 5 instead of 1024: all that
  matters is that the cap and the limit are reached before it. The operator
  revokes and rotates, and the certificate runs out, at any point.
  `AgentReturns`: once faults cease an enrolled agent is connected.
  `RefusedBacksOff`: an agent that is refused never mistakes that for the end of
  a tunnel that worked, after which it would dial at once, for ever; except with a
  certificate that has run out, where the mistake is possible (`Welcome`): under TLS
  1.3 the agent's handshake is done before the server has looked at the certificate.
  `DeadCredentialsStayDead`: after a revocation, a rotation or the expiry no
  tunnel comes up again but the one that was past the check.
  `RevokedGoesStale`: that one does not keep the node eligible for jumps.

### Frames

- **frames** (`FrameCodec`): two frames either way, one after which the stream
  must be in step for the other; payload sizes on both sides of every limit, the
  empty one included, and frames with each of the flaws the readers look for.
  The limits are the real ones. `RefinesFifo`, `OwnFramesAccepted`,
  `CleanEndIsWhole`, `ReaderKeepsUp`.

### Start and shutdown

- **bootstrap** (`MCBootstrap`): an old and a new server and a migrate command,
  and two faults among kills, interrupts and files that go bad, at any point:
  a file may be fine when it is checked and gone when it is read. Three of the
  `Flaws` come up (`Spoilable`): one that the checks find, one that the first listener
  meets and one that the last does; the proofs have them all. The new server runs on
  Python 3.12 or later (`Waits`), the old one before it. systemd gives up
  after two quick starts instead of its default of five (`Burst`): what matters is that
  it does, at any point. `SchemaIsRecorded`, `ServiceIsReady`, `SomeServes`, and no
  deadlock. `SomeServes` is conditional, and TLC refutes it without either condition:
  a server of the newest release must not be left down, and nobody must hang in
  `wait_closed`.

Deadlock checking is off where the system may stop: connections, tokens,
requests and operator commands are finite in number.

## 4. Fairness

- asyncio runs every task that is ready, so a handler, a task or a done callback
  that is not waiting for anything is weakly fair. Database queries are assumed
  to return, with a result or with an error.
- `Broker`: a `drain` to a peer that does not read may block for ever, so
  `ErrorSent` is fair only once the transport is lost; `ConnectionLost` is
  strongly fair, because a dead transport has finitely many bytes left and reads
  from it cannot succeed for ever. The code sets no keepalive: `LossTearsDown`
  starts from a loss that the kernel has noticed (`lost`).
- `JumpSession`: the waiter, the closing tasks and the callbacks are weakly fair;
  the user and the node process owe nobody anything; a channel closed by the
  server is reported lost by AsyncSSH.
- `Tunnel`: the server's loop (`HandleStream`), the agent's (`DispatchLoop`) while it
  does not wait for an sshd, its forwarders, and `Interval` (time passes); AsyncSSH
  and sshd are not fair, so the wait in `drain()` or `wait_closed()` need not end
  (`AwaitReturns`), unless the connection breaks (`AwaitRaises`).
- `Reconnect`: the agent's loop, which includes the restart by systemd
  (`Restart=always` in `deploy/systemd/vibeconnect-agent.service`), the handler,
  also one whose peer is gone (`OrphanGoesOn`, `OrphanTimesOut`),
  the return of server and database, and the passing of time (`Staleness`). Users
  need not jump, nobody need enroll.
- `FrameCodec`: the reader, whenever its bytes are there. Nobody need write. That is
  of `_read_one_frame` alone: what its caller does between two frames may block, and
  is in `Tunnel`.
- `Bootstrap`: a started process goes on; systemd starts a server that failed again,
  or gives up on it (`Restart`: the server's unit has `Restart=on-failure` and
  the default start limit); the operator mends a file that keeps it from starting
  (`Mend`). Nobody need start what is down (`Start`), be it because systemd gave up, or
  because SIGINT or SIGTERM ended it, which is no failure.

## 5. Where code and documents disagree

Three disagreements have a run that TLC refutes; `PROJECT.json` quotes the lines.

| Run | The document says | The code does |
|---|---|---|
| broker_revoked | SPEC.md: an active tunnel of a revoked agent is disconnected | only the row changes; nobody calls `ActiveTunnelRegistry.revoke` |
| tunnel_heartbeat | SPEC.md: heartbeat every 30 s | neither side sends one; the agent only echoes. A tunnel without sessions goes stale, and then refuses the very jump that would revive it |
| jump_hangup | docstring: terminal state is persisted when the channel closes | not while the jump is being started: the start is cancelled and the row stays open |

Others were met while modelling. The models contain the behaviour, and the
properties that hold name it as their exception or stop short of it:

- SPEC.md:268 wants readers to pause when writes are blocked. The server's
  transport starts a task per write and never pauses AsyncSSH
  (`TransportWrite` has no guard); `AgentBackpressure` is of the agent only.
- SPEC.md:460 wants a failed replay to end in a failed row and an event. It does
  not when the bridge was already closed or the recorder's own `close` failed;
  what holds is `ReplayFailureEnds`.
- `fail_session` is said to persist a denied jump (`src/server/jump.py:206`).
  It is called for `JumpError` only: after other exceptions the row stays open
  (`StartRaises`).
- SPEC.md:164 lists `node_authorization_denied` as a minimum event. `start_exec`
  refuses a node that is not visible before the code that would audit it, and a
  host key mismatch is silent too (`Verdict`).
- SPEC.md:137 wants a token disabled and its successor inserted in one
  transaction. They are two statements (`DisablePrior`, `InsertToken`), and
  `IssueFails` between them leaves the node without a token.
- docs/api-reference.md:109 has rotation frames carry the new secret to the
  agent. `rotate-tunnel-secret` stores the hash of a secret that reaches nobody
  (`RotateTunnelSecret`), so the agent is locked out at its next connection; it
  cannot be enrolled anew under its name either, because the row is still there.
  `DeadCredentialsStayDead` is as true as it is unwelcome here.
- docs/api-reference.md:66 has `/ready` answer 200 when database, replay storage
  and tunnel are ready. The answer is fixed at start: two of the three are the
  constant `True` (`AnswersReady`), and a server that hangs in its `finally`
  clause, the tunnel listener closed, still says 200; hence the exception in
  `ServiceIsReady`.
- `tunnel.frame_max_bytes` may be set to 16 MiB, and SPEC.md lets it; the agent
  refuses more than 1 MiB whatever the server is set to. That is the exception in
  `OwnFramesAccepted`.
- A node that stops between writing `identity.json` and removing the token from
  `agent.conf` has a good identity, and `run` refuses to start with the token
  that is left (`TokenRemains`), for ever: the exception in `AgentReturns`.
- A frame with an unknown type, or without a request id, ends the agent's
  process: `decode_frame` raises a `ValueError` that `_run_tunnel` does not catch
  (`Decode`). One with a broken header is an `AgentTunnelError` and is retried.
- `agent_cert_lifetime_days` is loaded and never used, and nothing renews a
  certificate (`Expire`).
- SPEC.md:247 lets the server replace a tunnel it has marked stale. It marks
  none, so an agent whose old connection is half open is refused until the server
  restarts or a jump writes to that connection: the exception in `AgentReturns`.
- SPEC.md:277 starts backoff at one second. After a clean end, as when the
  server's database is down, the agent dials again at once (`Return`). A certificate
  that has run out may look like a clean end, too: then the agent dials in a loop
  without a pause, the exception in `RefusedBacksOff`.
- `max_reconnect_attempts` of 0 is unlimited, but `2**attempt` overflows a float
  at attempt 1024 and ends the process (`Retry`); systemd starts it again.

- One sshd that stops reading holds up the agent's dispatch of every session, for as
  long as it likes (`AgentDelivers`, `CloseChannel`): the premise of `CloseReachesNode`.
- A jump that fails before it has a bridge, and whose audit INSERT commits but loses
  its reply, has two `SESSION_FAILED` events: `_pump_done` closes it once more. Hence
  the two in `AuditTruthful`. A file error in `fail`, or while the replay's directory
  is made, leaves the row open (`ReplayFailRaises`, `ReplayStarts`).
- The server's unit has systemd's default start limit. A new release that starts while
  the old one has the ports fails at once, and again; after five times it stays down.
  If the old one ends now, it refuses the schema that the new one has migrated, and
  nobody serves: the premise of `SomeServes`.
- pyproject.toml allows Python 3.10 and 3.11. There `wait_closed` does not wait for
  connections, and the pool is closed under live tunnels (`Closed`): the last part of
  `ServiceIsReady` is of Python 3.12 and later.
- Two processes that create `schema_migrations` at the same time may collide although
  the statement says IF NOT EXISTS; one of them then fails (`ReadApplied`).

Section 6.2 of SPEC.md also describes a mapping of groups to roles that nothing
in the server calls. `docs/SERVERDEPLOY.md` says that groups are matched with
labels directly, and that is what the code and `Authorization` do.

## 6. What is proved

Every invariant that a passing run checks, the three action properties
(`IntruderHarmless`, `StaleFailsClosed`, `DeadCredentialsStayDead`) and the three
refinements are theorems, for any sets of agents, connections, channels, tokens,
requests, users, nodes and processes. The conjunctions named `...Inv` below are at
the end of the modules, in named parts, each part with a comment; TLC checked each
of them on the instances of section 3 before it was proved.

The theorems assume of the constants what the code gives: limits and bounds are
natural numbers (positive where a limit of zero is refused); `None`, `NoAgent`,
`NoConn`, `NoFrame` and `"none"` stand for a Python `None` and are not a member of
the set they are missing from; the requests of a server are finitely many;
`MaxDelay` is at most 1800 seconds, the bound of `validate_agent_config`, below
which the cap is reached before the exponent that the model stops computing;
and the 64 KiB an agent reads at once (`Chunk`) fit into its own limit and into the
least that a server may be configured with.

**BrokerProofs.** `RoutesLead` alone is not inductive: it says
that a route leads to an open channel, and what a returning handler removes is
what is in `adapters`, so `BrokerInv` needs `ChannelSets` (adapters and open
channels are the same set) and `RoutesExact` (the routes are exactly the open
channels of current tunnels, so that nothing is left behind either).
`ChannelHome` says that a channel belongs to one connection, which is what lets a
close that was suspended on an old connection do no harm on a new one.
`AgentKnown` types what a handler holds between awaits, `AttemptNone` and
`CloseReason` carry `NoOrphanStream` through the two ways a channel is given up.
From it follow `TypeCorrect` (`TypeOK`), `OneTunnel` (`RegistryAgrees` and
`ServingIsRegistered`), `RoutesAlwaysLead`, `NoStreamOrphaned`,
`IntruderIsHarmless`, `StaleNeverServes` (`OpenSession` is the only step that
begins a stream) and `BrokerRefines`: the initial state maps to an initial
state of `SessionDirectory`, and each step to a step of it or to a stutter.

**TunnelProofs.** The properties are about what is delivered; the invariant has to
be about what is under way. `SessionLife` orders what the server does with a
session; `FramesInTurn` says that on the wire a session's OPEN_SESSION is before,
and its CLOSE_SESSION after, every other frame of it, and that data is only under
way for a channel that the agent has or will have; `NothingMissing` adds, while
neither end is gone, that the frame which must come is there. That is what makes
the agent's dispatch safe (`AgentIsNeverConfused`) and what finds, for each
connection to sshd, the frame that will close it (`ConnectionsAreOwned`).
`Carries` states that the data frames of a session on a wire are exactly the
positions from what was delivered to what was sent, in order; `UpInOrder` and
`DownInOrder` say so of both directions and `BytesArriveInOrder` follows. Two lemmas
(`CarriesAppended`, `CarriesShifted`) say what a write and a read do to it.
`KnownChannels` is the agent's half: what it has of a session comes from
`open_session`, so a frame of the agent that the server rejects is of a retired
channel (`OnlyCrossingDataKills`). `BackpressureHolds` counts the frames of one
session on the wire, which a read can only lower.

**JumpProofs.** `StartPhases` says what exists at each await of `_start_exec`,
`StartedHas` what exists afterwards. `ClosingSettles` is the core: whoever closes
has settled the replay before it asks for the row, so the row's status and the
replay's state were chosen together, and only the execution that got the row
audits. `FailsOnce` is needed because `_fail_started_jump` closes without a
bridge: it may run twice, and the second time it finds one audit event at most. `InputCounted` bounds the
input in flight. From `JumpInv`: `ReplayIsMandatory`, `AuditIsTruthful`,
`ReplayFollowsRow` and, step by step, `JumpRefinesRow`.

**AuthorizationProofs.** `LoginFixed` says that from the login on the identity is
that of the signing key, with the groups of that moment, although a queried key sets the identity
too; `RequestGranted` carries the grant from the first read to the row,
`ReadsAgree` ties the later reads to one pin and to a node not revoked, and `RowIsLast`
says that a request which has its row reads nothing any more, so that nothing the
operator does later changes what its row was based on. From it follow
`IdentityAlwaysSigned`, `SessionsAreGranted`, `RevocationIsHeeded`, `PinNeverMoves`.

**EnrollmentProofs.** `EnrollmentInv` adds to the properties: `FreshToken` (a
token is not in the table before its INSERT), `HeldIsUsed` (whatever a request
has got out of the table is used), `InsertedIsRow`, `NodeIsConf` and
`AnswerIsRow` (the request that will answer the node carries the token of
`agent.conf`, and what the node was told is the row). `IdentityIsEnrolled`, for
instance, speaks of two files and a table that are written by three programs;
only `AnswerIsRow` ties what the node is about to write to the row. From it
follow `TokensAreSingleUse`, `IdentityIsAlwaysEnrolled` and `TrailAlwaysLeadsHome`.
`BurntTokensAreCounted` says that no token is lost between two statements without a
failure on the limiter's account. `GuessesAreBounded` has an invariant of its own,
`LimiterInv`: the guesses made and the requests that are past `is_limited` and have
yet to guess are, together, fewer than the limit and the number of requests. The
limiter is asked before an await and told after it; counting the two together is what makes
the bound inductive.

**BootstrapProofs.** `MigrationsInOrder`: a process at a migration has all earlier
ones committed, and no two transactions have the same migration open (the lock
PostgreSQL takes). `PortsByPlace` says which ports a process has at each point of
its start and of its `finally` clause, `ServerIsPrepared` that it gets there
only with a pool and a schema, of which it has seen nothing that it does not ship, and
`ClientsHeld` that a connection has a listener which accepts or waits. From them `MigrationsAreRecorded` and
`PortsAreServed`.

**FrameCodecProofs.** `CleanEndIsWhole` and `RefinesFifo` need to know which frame
each part on the wire belongs to. `WireInStep` says that the parts can be numbered
by their frames so that they go on, without a gap, from where the reader is
(`ReaderInStep`) to the last frame written; a cut ends the numbering early, and
`CutIsNoticed` says where. `OwnFramesFit` carries the writer's check to the reader. From
`CodecInv`: `EncodedIsAccepted`, `CleanEndsAreWhole`, `CodecRefinesFifo`.

**ReconnectProofs.** `VoidCredentialsStayVoid`: `Barred` (the credentials are void
and no connection is past the check) is stable, because only `Authenticate` gets a
connection further and no step takes a reason away. `BackoffIsBounded`: the type
invariant, whose content is that no sleep exceeds the configured maximum, jitter included,
and that `attempt` exceeds neither the limit nor the overflow.

**Whether the proofs mean something.** Every leaf was also tried with `FALSE` as
its goal: the only ones that go through are those of cases that really are
impossible. That is how an early version of `AuthorizationProofs` was found to prove
nothing: this version of tlapm translates `[f EXCEPT ![r].a = x, ![r].b = y]` to
contradictory facts for the SMT solver. The modules write `[f EXCEPT ![r] =
[@ EXCEPT !.a = x, !.b = y]]` instead, which is sound, and so should whatever is
added.

Only model-checked, because fairness and `ENABLED` are outside the prover:
`LossTearsDown`, `ExitPersists`, `HangupOnOpenBridgePersists`, `ReplayFailureEnds`,
`CloseReachesNode`, `RefusedBacksOff`, `AgentReturns`, `RevokedGoesStale`,
`SomeServes` and `ReaderKeepsUp`. The three properties of section 5 are refuted by
TLC and nothing is proved of them.

## 7. Not modelled

- CA rotation (`admin.py`): `start_ca_rotation` and `complete_ca_rotation` are
  reachable from no command, and the rows they write are read by nothing else.
- Replay retention (`replay.py`): `prune_replays` is called by nothing, and the
  session store it takes has no implementation. A model would have to invent
  what it runs against.
- `AgentCertificateRenewer`, the frames that rotate a tunnel secret,
  `TunnelBackpressure`, `MissedHeartbeatTracker`, `TunnelStreamAdapter`,
  `AsyncSshJumpSessionLifecycle.terminate`, the broker's `resize_pty`, the LDAP
  and Azure AD functions: not called at run time.
- Cryptography and certificates: a key or a secret is a value that is compared.
- Audit scrubbing: a pure function of one event. That the writer refuses more
  than 16 KiB is one of the ways the audit sink fails in `JumpSession`.
- The parsing of configuration files, modes and owners of files: an unusable file
  is one of a few kinds (`Flaws` in `Bootstrap`).
- The metrics, which are constants, and the `connect` command, which builds an
  ssh command line and runs it.
- The rate limiter's window: all attempts fall into one.

## 8. Plan

Done, in this order: broker and its proofs, jump session, data path, enrollment
and its proofs, authorization, reconnect loop, start and shutdown; then the frame
codec, the life of an agent across enrollment, authentication and revocation
(`Reconnect`), and the configuration of a start (`Bootstrap`). What is left of the
code has no caller or no state (section 7).

Then the proofs: enrollment's remaining properties, the jump session,
authorization, start and shutdown, the codec, the credentials of the reconnect
loop, and the data path, which needed the most: an invariant on the sequences of
frames in flight.

Next: the safety halves of the liveness properties, as theorems (what the leads-to
of `LossTearsDown` and `CloseReachesNode` never loses on its way).
