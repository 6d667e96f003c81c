----------------------------- MODULE Bootstrap -----------------------------
(***************************************************************************)
(* Starting and stopping the server: the checks of its configuration       *)
(* (vibeconnect_common/config.py), the migrations every start runs         *)
(* (vibeconnect_common/db.py), the listeners it opens, the health snapshot *)
(* it takes on the way (server/health.py) and the order it closes them in  *)
(* (server/main.py: _run_server_start, _run_server_runtime), with several  *)
(* servers, perhaps of different releases, and `migrate` commands on one   *)
(* host and one database, each of which may be killed at any point, with   *)
(* files that go bad after they were checked, under the service manager    *)
(* that starts a failed server again, but not without limit                *)
(* (deploy/systemd/vibeconnect-server.service).                            *)
(*                                                                         *)
(* A migration runs in a transaction of its own.  PostgreSQL makes a       *)
(* second session that creates the same tables wait for the first          *)
(* transaction, and fails it if that one commits.                          *)
(***************************************************************************)
EXTENDS Integers, Sequences, FiniteSets, FiniteSetsExt

CONSTANTS
    Servers,    \* server processes
    Migrators,  \* migrate commands
    Release,    \* how many migrations each process ships
    Waits,      \* the servers on Python 3.12 or later, whose wait_closed waits
    Burst,      \* StartLimitBurst, systemd's default: 5 starts within 10 s
    Spoilable,  \* which of the Flaws may come up
    MaxFaults   \* bound: kills, interrupts and files that go bad

Processes == Servers \cup Migrators

ASSUME ReleaseAssumption == Release \in [Processes -> Nat \ {0}]
ASSUME WaitsAssumption == Waits \subseteq Servers
ASSUME BurstAssumption == Burst \in Nat \ {0}
ASSUME FaultsAssumption == MaxFaults \in Nat
ASSUME KindAssumption == Servers \cap Migrators = {} /\ "none" \notin Processes

VARIABLES
    applied,  \* versions committed to schema_migrations
    schema,   \* migrations whose statements are committed
    table,    \* there is a schema_migrations table
    pc,       \* where each process is
    seen,     \* the versions _fetch_applied_versions returned to it
    tx,       \* the migration in its open transaction, or 0
    pool,     \* its connection pool is open
    bound,    \* the process each port belongs to, or "none"
    clients,  \* the listeners of a process with live connections, if it waits for them
    flaws,    \* what is wrong with the files a start needs
    snapshot, \* the servers whose HealthSnapshot says replay_ready
    starts,   \* starts of each server in the service manager's present interval
    leaving,  \* the servers that were interrupted
    faults    \* faults so far

databaseVars == <<applied, schema, table>>
migrationVars == <<seen, tx>>
listenerVars == <<pool, bound, clients, snapshot>>
serviceVars == <<starts, leaving>>
hostVars == <<flaws, faults>>
vars == <<databaseVars, pc, migrationVars, listenerVars, serviceVars, hostVars>>

-----------------------------------------------------------------------------
\* The listeners in the order _run_server_runtime opens them, and the order its
\* finally clause closes them in.
Opening == <<"tunnel", "enrollment", "metrics", "ssh">>
Closing == <<"tunnel", "ssh", "enrollment", "metrics">>
Ports == {Opening[i] : i \in 1..4}

Down == [at |-> "down", step |-> 0]
At(p, at) == pc[p].at = at
Goto(p, at, step) == pc' = [pc EXCEPT ![p] = [at |-> at, step |-> step]]

Init ==
    /\ applied = {} /\ schema = {} /\ table = FALSE
    /\ pc = [p \in Processes |-> Down]
    /\ seen = [p \in Processes |-> {}] /\ tx = [p \in Processes |-> 0]
    /\ pool = [p \in Processes |-> FALSE]
    /\ bound = [port \in Ports |-> "none"]
    /\ clients = [p \in Processes |-> {}]
    /\ flaws = {} /\ faults = 0
    /\ snapshot = {}
    /\ starts = [p \in Servers |-> 0] /\ leaving = {}

\* The finally clause from step i on: it closes what was opened, then the pool.
Unwind(p, i) ==
    LET held == {j \in i..Len(Closing) : bound[Closing[j]] = p}
    IN  IF held = {} THEN Goto(p, "pool", 0) ELSE Goto(p, "close", Min(held))

\* The process ends, and with it what it knew of the schema.
Forget(p) == seen' = [seen EXCEPT ![p] = {}]

\* A process that cannot go on: a server runs its finally clause, a command exits.
Fail(p) ==
    IF p \in Servers THEN Unwind(p, 1) /\ UNCHANGED seen ELSE Goto(p, "down", 0) /\ Forget(p)

-----------------------------------------------------------------------------
(* Configuration.                                                          *)

\* What may be wrong with config.yaml and the files it names: the agents' CA and the
\* tunnel's bundle, the server's certificate and key, the replay files, the host key.
Flaws == {"config", "no CA", "bad CA", "TLS", "no replay key", "no replay directory",
          "host key"}

\* What load_server_config and validate_server_config find: of a file they only ask
\* that it is there.
Validated == {"config", "no CA", "no replay key", "no replay directory"}

\* Those two, and _load_runtime_settings, which reads config.yaml once more for the
\* server section: of the paths there it only asks that they are given.
Accepted == flaws \cap Validated = {}

\* What is read on the way to a listener.
Reads(port) ==
    CASE port = "tunnel"     -> {"no CA", "bad CA", "TLS"}
      [] port = "enrollment" -> {"no CA", "TLS"}
      [] port = "metrics"    -> {"no replay key"}
      [] port = "ssh"        -> {"host key"}

\* A file disappears, or its content or mode goes wrong: one at a time.
Spoil(flaw) ==
    /\ flaw \in Spoilable /\ faults < MaxFaults /\ flaws = {}
    /\ faults' = faults + 1
    /\ flaws' = {flaw}
    /\ UNCHANGED <<databaseVars, pc, migrationVars, listenerVars, serviceVars>>

Mend ==
    /\ flaws # {} /\ flaws' = {}
    /\ UNCHANGED <<databaseVars, pc, migrationVars, listenerVars, serviceVars, faults>>

\* _run_server_start: a configuration that is refused ends the process before there
\* is anything to unwind; otherwise the pool is opened.
Configure(p) ==
    /\ At(p, "configure")
    /\ IF Accepted
       THEN Goto(p, "read", 0) /\ pool' = [pool EXCEPT ![p] = TRUE]
       ELSE Goto(p, "failed", 0) /\ UNCHANGED pool
    /\ UNCHANGED <<databaseVars, migrationVars, bound, clients, snapshot, serviceVars, hostVars>>

-----------------------------------------------------------------------------
(* The service manager and the operator.                                   *)

\* The operator, or the boot, starts the process; a command was given the database and
\* connects to it at once.
Start(p) ==
    /\ At(p, "down")
    /\ Goto(p, IF p \in Servers THEN "configure" ELSE "read", 0)
    /\ starts' = IF p \in Servers THEN [starts EXCEPT ![p] = 1] ELSE starts
    /\ UNCHANGED <<databaseVars, migrationVars, listenerVars, leaving, hostVars>>

\* systemd's Restart=on-failure starts a server that failed again, after 100 ms: in the same
\* interval or in a new one.  When the starts of an interval are used up, the unit stays down.
Restart(p) ==
    /\ p \in Servers /\ At(p, "failed")
    /\ \/ starts[p] < Burst /\ starts' = [starts EXCEPT ![p] = @ + 1] /\ Goto(p, "configure", 0)
       \/ starts' = [starts EXCEPT ![p] = 1] /\ Goto(p, "configure", 0)
       \/ starts[p] = Burst /\ starts' = [starts EXCEPT ![p] = 0] /\ Goto(p, "down", 0)
    /\ UNCHANGED <<databaseVars, migrationVars, listenerVars, leaving, hostVars>>

-----------------------------------------------------------------------------
(* Migrations.                                                             *)

Expected(p) == 1..Release[p]

\* Mutant: there must be something left to apply.
ValidApplied_Pending(p) == applied \subseteq Expected(p) /\ applied # Expected(p)

\* _validate_applied_versions: what is applied is an initial part of what this
\* release ships.
ValidApplied(p) ==
    Cardinality(applied) <= Release[p] /\ applied = 1..Cardinality(applied)

\* run_migrations makes sure there is a schema_migrations table, reads it and goes on to the
\* first migration that is not there.  Of two that create the table at the same time,
\* PostgreSQL may fail the later with a unique violation.
ReadApplied(p) ==
    /\ At(p, "read")
    /\ \/ /\ ValidApplied(p)
          /\ seen' = [seen EXCEPT ![p] = applied] /\ Goto(p, "migrate", Cardinality(applied) + 1)
       \/ /\ ~ValidApplied(p) \/ (~table /\ \E q \in Processes \ {p} : At(q, "read"))
          /\ Fail(p)
    /\ table' = TRUE
    /\ UNCHANGED <<applied, schema, tx, listenerVars, serviceVars, hostVars>>

\* The migrations are done: a server opens its listeners, a command exits.
Migrated(p) ==
    /\ At(p, "migrate") /\ pc[p].step > Release[p]
    /\ IF p \in Servers THEN Goto(p, "open", 1) /\ UNCHANGED seen
       ELSE Goto(p, "down", 0) /\ Forget(p)
    /\ UNCHANGED <<databaseVars, tx, listenerVars, serviceVars, hostVars>>

\* Mutant: the statements run outside the transaction.
Execute_AutoCommit(p) ==
    LET v == pc[p].step IN
    /\ At(p, "migrate") /\ v \in Expected(p) /\ tx[p] = 0
    /\ v \notin schema
    /\ tx' = [tx EXCEPT ![p] = v] /\ schema' = schema \cup {v}
    /\ UNCHANGED <<applied, table, pc, seen, listenerVars, serviceVars, hostVars>>

\* BEGIN and the migration's statements, which wait for any other open
\* transaction that creates the same tables, and fail if the tables are there.
Execute(p) ==
    LET v == pc[p].step IN
    /\ At(p, "migrate") /\ v \in Expected(p) /\ tx[p] = 0
    /\ \A q \in Processes : tx[q] # v
    /\ IF v \in schema
       THEN Fail(p) /\ UNCHANGED tx
       ELSE tx' = [tx EXCEPT ![p] = v] /\ UNCHANGED <<pc, seen>>
    /\ UNCHANGED <<databaseVars, listenerVars, serviceVars, hostVars>>

\* INSERT INTO schema_migrations and COMMIT.
Commit(p) ==
    /\ tx[p] # 0
    /\ applied' = applied \cup {tx[p]} /\ schema' = schema \cup {tx[p]}
    /\ tx' = [tx EXCEPT ![p] = 0]
    /\ Goto(p, "migrate", pc[p].step + 1)
    /\ UNCHANGED <<table, seen, listenerVars, serviceVars, hostVars>>

-----------------------------------------------------------------------------
(* Listeners.                                                              *)

\* The next listener takes its port; a file that cannot be read, or a port that is
\* taken, raises.  The health snapshot is taken just before the metrics listener.
Listen(p) ==
    LET port == Opening[pc[p].step] IN
    /\ At(p, "open")
    /\ IF flaws \cap Reads(port) = {} /\ bound[port] = "none"
       THEN /\ bound' = [bound EXCEPT ![port] = p]
            /\ snapshot' = IF port = "metrics" /\ "no replay directory" \notin flaws
                           THEN snapshot \cup {p} ELSE snapshot
            /\ IF pc[p].step = Len(Opening) THEN Goto(p, "serving", 0)
               ELSE Goto(p, "open", pc[p].step + 1)
            /\ UNCHANGED seen
       ELSE Fail(p) /\ UNCHANGED <<bound, snapshot>>
    /\ UNCHANGED <<databaseVars, tx, pool, clients, serviceVars, hostVars>>

\* What GET /ready answers: the snapshot's database and tunnel are always ready.
AnswersReady(p) == bound["metrics"] = p /\ p \in snapshot

\* Interrupted (SIGINT): the wait for an event that never comes is cancelled.
Interrupt(p) ==
    /\ At(p, "serving") /\ faults < MaxFaults
    /\ faults' = faults + 1 /\ leaving' = leaving \cup {p}
    /\ Unwind(p, 1)
    /\ UNCHANGED <<databaseVars, migrationVars, listenerVars, starts, flaws>>

\* Agents and users come, while the listener accepts, and go.  Nothing a server does depends
\* on those it does not wait for.
ClientConnects(port) ==
    /\ port \in {"tunnel", "ssh"} /\ bound[port] \in Waits
    /\ clients' = [clients EXCEPT ![bound[port]] = @ \cup {port}]
    /\ UNCHANGED <<databaseVars, pc, migrationVars, pool, bound, snapshot, serviceVars, hostVars>>

ClientLeaves(p, port) ==
    /\ port \in clients[p]
    /\ clients' = [clients EXCEPT ![p] = @ \ {port}]
    /\ UNCHANGED <<databaseVars, pc, migrationVars, pool, bound, snapshot, serviceVars, hostVars>>

\* Mutant: the pool is closed with the first listener.
Close_PoolFirst(p) ==
    /\ At(p, "close")
    /\ bound' = [bound EXCEPT ![Closing[pc[p].step]] = "none"]
    /\ pool' = [pool EXCEPT ![p] = FALSE]
    /\ Goto(p, "wait", pc[p].step)
    /\ UNCHANGED <<databaseVars, migrationVars, clients, snapshot, serviceVars, hostVars>>

\* One step of the finally clause: stop listening.
Close(p) ==
    /\ At(p, "close")
    /\ bound' = [bound EXCEPT ![Closing[pc[p].step]] = "none"]
    /\ Goto(p, "wait", pc[p].step)
    /\ UNCHANGED <<databaseVars, migrationVars, pool, clients, snapshot, serviceVars, hostVars>>

\* wait_closed: from Python 3.12 on it waits for the listener's connections too; before,
\* it returns at once.
Closed(p) ==
    /\ At(p, "wait")
    /\ p \in Waits => Closing[pc[p].step] \notin clients[p]
    /\ Unwind(p, pc[p].step + 1)
    /\ UNCHANGED <<databaseVars, migrationVars, listenerVars, serviceVars, hostVars>>

\* The last step of the finally clause; the exception then ends the process, with the
\* connections it still has.  SIGINT is a clean end to the service manager.
ClosePool(p) ==
    /\ At(p, "pool")
    /\ pool' = [pool EXCEPT ![p] = FALSE] /\ snapshot' = snapshot \ {p}
    /\ clients' = [clients EXCEPT ![p] = {}]
    /\ Goto(p, IF p \in leaving THEN "down" ELSE "failed", 0) /\ leaving' = leaving \ {p}
    /\ Forget(p)
    /\ UNCHANGED <<databaseVars, tx, bound, starts, hostVars>>

\* The process is killed, for the service manager a failure, or stopped (SIGTERM), a
\* clean end: its transaction is rolled back and its ports are free.
Kill(p) ==
    /\ pc[p].at \notin {"down", "failed"} /\ faults < MaxFaults
    /\ faults' = faults + 1
    /\ (p \in Servers /\ Goto(p, "failed", 0)) \/ Goto(p, "down", 0)
    /\ tx' = [tx EXCEPT ![p] = 0] /\ Forget(p)
    /\ pool' = [pool EXCEPT ![p] = FALSE]
    /\ bound' = [port \in Ports |-> IF bound[port] = p THEN "none" ELSE bound[port]]
    /\ clients' = [clients EXCEPT ![p] = {}]
    /\ snapshot' = snapshot \ {p} /\ leaving' = leaving \ {p}
    /\ UNCHANGED <<databaseVars, starts, flaws>>

-----------------------------------------------------------------------------
Run(p) ==
    \/ Restart(p) \/ Configure(p) \/ ReadApplied(p) \/ Migrated(p) \/ Execute(p)
    \/ Commit(p) \/ Listen(p) \/ Close(p) \/ Closed(p) \/ ClosePool(p)

Next ==
    \/ \E p \in Processes : Start(p) \/ Run(p) \/ Kill(p)
    \/ \E p \in Servers : Interrupt(p)
    \/ \E flaw \in Flaws : Spoil(flaw)
    \/ Mend
    \/ \E port \in Ports : ClientConnects(port) \/ \E p \in Servers : ClientLeaves(p, port)

Spec == Init /\ [][Next]_vars

\* A process that was started runs, the service manager does what the unit says, and the
\* operator mends what is broken; nobody need start what is down.
FairSpec ==
    /\ Spec
    /\ WF_vars(Mend)
    /\ \A p \in Processes : WF_vars(Run(p))

-----------------------------------------------------------------------------
(* Properties.                                                             *)

\* The migrations recorded are the ones whose statements are in the database, and
\* they are an initial part of the sequence: for any number of processes, killed
\* at any point (run_migrations).
SchemaIsRecorded ==
    /\ applied = schema
    /\ applied = 1..Cardinality(applied)

\* A listener that accepts belongs to a server whose pool is open and whose
\* migrations are all applied, from the first port opened to the last one closed, and
\* which found no migration of a later release when it started.  A server that calls
\* itself ready takes agents and enrollments, until its finally clause runs.  And from
\* Python 3.12 on no connection of an agent or a user outlives the pool its handler
\* works with (_run_server_runtime, _validate_applied_versions).
ServiceIsReady ==
    /\ \A port \in Ports : bound[port] # "none" =>
           /\ pool[bound[port]] /\ Expected(bound[port]) \subseteq applied
           /\ seen[bound[port]] \subseteq Expected(bound[port])
    /\ \A p \in Servers : AnswersReady(p) /\ pc[p].at \notin {"close", "wait"} =>
           bound["tunnel"] = p /\ bound["enrollment"] = p
    /\ \A p \in Waits : clients[p] # {} => pool[p]

\* The servers of the latest release.
Newest == {p \in Servers : \A q \in Processes : Release[q] <= Release[p]}

\* In its finally clause, waiting for connections that nobody need end.
Hangs(p) == At(p, "wait") /\ p \in Waits /\ Closing[pc[p].step] \in clients[p]

\* However starts collide, a server comes to serve again and again, unless one hangs in
\* its finally clause: provided a server of the latest release is not left down for good,
\* by the operator or by the service manager, which gives up after five quick failures.
\* (An older release alone is not enough: it refuses the schema of the newer.)
SomeServes ==
    (\E p \in Newest : <>[](~At(p, "down"))) =>
        []<>(\E p \in Servers : At(p, "serving") \/ Hangs(p))

\* The inductive invariant, in named parts.

Places == {"down", "failed", "configure", "read", "migrate", "open", "serving", "close", "wait",
           "pool"}

\* The type invariant.
TypeOK ==
    /\ applied \in SUBSET Nat /\ schema \in SUBSET Nat /\ table \in BOOLEAN
    /\ pc \in [Processes -> [at : Places, step : Nat]]
    /\ seen \in [Processes -> SUBSET Nat] /\ tx \in [Processes -> Nat]
    /\ pool \in [Processes -> BOOLEAN] /\ clients \in [Processes -> SUBSET Ports]
    /\ bound \in [Ports -> Processes \cup {"none"}]
    /\ flaws \in SUBSET Flaws /\ snapshot \in SUBSET Processes /\ faults \in 0..MaxFaults
    /\ starts \in [Servers -> 0..Burst] /\ leaving \in SUBSET Servers

\* A process at a migration has all before it behind it; a transaction that is open has the
\* migration of its process, which nobody else has open and nobody has committed.
MigrationsInOrder ==
    /\ SchemaIsRecorded /\ IsFiniteSet(applied)
    /\ \A p \in Processes :
         /\ seen[p] \subseteq applied
         /\ At(p, "migrate") => pc[p].step > 0 /\ 1..(pc[p].step - 1) \subseteq applied
         /\ tx[p] # 0 => /\ At(p, "migrate") /\ tx[p] = pc[p].step
                         /\ tx[p] \in Expected(p) \ applied
                         /\ \A q \in Processes : tx[q] = tx[p] => q = p

\* Which ports a process has: in the order they are opened, all of them while it serves, and
\* those that its finally clause has yet to close.
PortsByPlace ==
    \A p \in Processes :
        /\ pc[p].at \in {"open", "close", "wait"} => pc[p].step \in 1..4
        /\ At(p, "open") => \A i \in 1..4 : bound[Opening[i]] = p <=> i < pc[p].step
        /\ At(p, "serving") => \A i \in 1..4 : bound[Opening[i]] = p
        /\ At(p, "close") => /\ bound[Closing[pc[p].step]] = p
                            /\ \A i \in 1..4 : i < pc[p].step => bound[Closing[i]] # p
        /\ At(p, "wait") => \A i \in 1..4 : i <= pc[p].step => bound[Closing[i]] # p
        /\ pc[p].at \notin {"open", "serving", "close", "wait"} =>
             \A i \in 1..4 : bound[Opening[i]] # p

\* Only a server whose pool is open, with its migrations behind it, comes to its listeners.
ServerIsPrepared ==
    \A p \in Processes :
        /\ pc[p].at \notin {"down", "failed", "read", "migrate"} => p \in Servers
        /\ p \in Servers /\ pc[p].at \notin {"down", "failed", "configure"} => pool[p]
        /\ pc[p].at \in {"open", "serving"} => Expected(p) \subseteq applied
        /\ pc[p].at \in {"migrate", "open", "serving", "close", "wait"} => seen[p] \subseteq Expected(p)
        /\ (\E i \in 1..4 : bound[Opening[i]] = p) => Expected(p) \subseteq applied

\* From Python 3.12 on a connection has its listener, which accepts or waits for it to end.
ClientsHeld ==
    \A p \in Waits : \A i \in 1..4 :
        Closing[i] \in clients[p] => bound[Closing[i]] = p \/ (At(p, "wait") /\ pc[p].step = i)

\* Their conjunction.
BootstrapInv ==
    /\ TypeOK
    /\ MigrationsInOrder
    /\ PortsByPlace
    /\ ServerIsPrepared
    /\ ClientsHeld
=============================================================================
