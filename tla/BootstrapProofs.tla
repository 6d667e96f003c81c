-------------------------- MODULE BootstrapProofs --------------------------
(***************************************************************************)
(* Starting and stopping is safe for any number of servers and migrate     *)
(* commands, of any releases, and any number of faults: the schema is what *)
(* schema_migrations says, and a port that accepts belongs to a server     *)
(* that is ready for it.  One lemma per action, one step per part of       *)
(* BootstrapInv that the action can disturb.                               *)
(***************************************************************************)
EXTENDS Bootstrap, FiniteSetTheorems, TLAPS

\* The four ports in the two orders.
LEMMA PortNames ==
    /\ Opening[1] = "tunnel" /\ Opening[2] = "enrollment" /\ Opening[3] = "metrics" /\ Opening[4] = "ssh"
    /\ Closing[1] = "tunnel" /\ Closing[2] = "ssh" /\ Closing[3] = "enrollment" /\ Closing[4] = "metrics"
    /\ Len(Opening) = 4 /\ Len(Closing) = 4
    /\ Ports = {"tunnel", "enrollment", "metrics", "ssh"}
    /\ 1..4 = {1, 2, 3, 4}
    /\ \A i \in 1..4 : Opening[i] \in Ports /\ Closing[i] \in Ports
<1>1. /\ Opening[1] = "tunnel" /\ Opening[2] = "enrollment" /\ Opening[3] = "metrics" /\ Opening[4] = "ssh"
      /\ Closing[1] = "tunnel" /\ Closing[2] = "ssh" /\ Closing[3] = "enrollment" /\ Closing[4] = "metrics"
      /\ Len(Opening) = 4 /\ Len(Closing) = 4
  BY DEF Opening, Closing
<1>2. 1..4 = {1, 2, 3, 4}
  OBVIOUS
<1>3. Ports = {"tunnel", "enrollment", "metrics", "ssh"}
  BY <1>1 DEF Ports
<1>4. QED
  BY <1>1, <1>3

\* Both orders name every port.
LEMMA NoneHeld ==
    ASSUME NEW p
    PROVE  (\A i \in 1..4 : bound[Closing[i]] # p) <=> (\A i \in 1..4 : bound[Opening[i]] # p)
BY PortNames

\* The finally clause from step i on: it comes to the next listener that is still held, or
\* to the pool when none is.
LEMMA UnwindGoes ==
    ASSUME NEW p, NEW i \in 1..5, Unwind(p, i),
           \A j \in 1..4 : j < i => bound[Closing[j]] # p
    PROVE  \/ Goto(p, "pool", 0) /\ \A j \in 1..4 : bound[Closing[j]] # p
           \/ \E k \in 1..4 : /\ Goto(p, "close", k) /\ bound[Closing[k]] = p
                             /\ \A j \in 1..4 : j < k => bound[Closing[j]] # p
<1> DEFINE held == {j \in i..Len(Closing) : bound[Closing[j]] = p}
<1>1. CASE held = {}
  <2>1. Goto(p, "pool", 0)
    BY <1>1 DEF Unwind
  <2>2. QED
    BY <1>1, <2>1, PortNames
<1>2. CASE held # {}
  <2>1. Goto(p, "close", Min(held))
    BY <1>2 DEF Unwind
  <2>2. held \subseteq 1..4
    BY PortNames
  <2>3. \E x \in held : \A y \in held : x =< y
    BY <1>2, <2>2
  <2>4. Min(held) \in held /\ \A y \in held : Min(held) =< y
    BY <2>3 DEF Min
  <2>5. \A j \in 1..4 : j < Min(held) => bound[Closing[j]] # p
    BY <2>4
  <2>6. QED
    BY <2>1, <2>2, <2>4
<1>3. QED
  BY <1>1, <1>2

\* A process without a transaction that moves to another place leaves the migrations in
\* order; it comes to a migration only with all before it applied.
LEMMA MigrationsStay ==
    ASSUME TypeOK, MigrationsInOrder, NEW p \in Processes, NEW a \in Places, NEW k \in Nat,
           tx[p] = 0, Goto(p, a, k), UNCHANGED <<applied, schema, tx>>,
           a = "migrate" => k > 0 /\ 1..(k - 1) \subseteq applied,
           \A q \in Processes : seen'[q] \subseteq seen[q] \cup applied
    PROVE  MigrationsInOrder'
<1>1. \A q \in Processes : pc'[q] = IF q = p THEN [at |-> a, step |-> k] ELSE pc[q]
  BY DEF TypeOK, Goto
<1>2. (SchemaIsRecorded /\ IsFiniteSet(applied))'
  BY DEF MigrationsInOrder, SchemaIsRecorded
<1>3. applied' = applied /\ tx' = tx
  OBVIOUS
<1>4. ASSUME NEW q \in Processes
      PROVE  /\ seen'[q] \subseteq applied'
             /\ At(q, "migrate")' => pc'[q].step > 0 /\ 1..(pc'[q].step - 1) \subseteq applied'
  BY <1>1, <1>3 DEF MigrationsInOrder, At
<1>5. ASSUME NEW q \in Processes, tx'[q] # 0
      PROVE  /\ At(q, "migrate")' /\ tx'[q] = pc'[q].step
             /\ tx'[q] \in Expected(q) \ applied'
             /\ \A r \in Processes : tx'[r] = tx'[q] => r = q
  BY <1>1, <1>3, <1>5 DEF MigrationsInOrder, At
<1>6. QED
  BY <1>2, <1>4, <1>5 DEF MigrationsInOrder

\* A process that is not waiting for the end of its connections and moves to another place
\* leaves every connection with its listener.
LEMMA ClientsStay ==
    ASSUME TypeOK, ClientsHeld, NEW p \in Processes, NEW a, NEW k,
           ~At(p, "wait"), Goto(p, a, k), UNCHANGED <<clients, bound>>
    PROVE  ClientsHeld'
<1>1. \A q \in Waits : q \in Processes
  BY WaitsAssumption DEF Processes
<1>2. \A q \in Waits : q # p => pc'[q] = pc[q]
  BY <1>1 DEF TypeOK, Goto
<1>3. QED
  BY <1>1, <1>2 DEF ClientsHeld, At

\* A server that runs its finally clause, or a command that fails, leaves the database and
\* every other process as they are.
LEMMA LeavesOrderly ==
    ASSUME BootstrapInv, NEW p \in Processes, tx[p] = 0,
           UNCHANGED <<applied, schema, tx, pool, bound, clients>>,
           p \in Waits => \A j \in 1..4 : Closing[j] \in clients[p] => bound[Closing[j]] = p,
           \/ Fail(p) /\ (p \in Servers => pool[p])
           \/ p \in Servers /\ pool[p] /\ UNCHANGED seen /\ \E i \in 1..5 :
                Unwind(p, i) /\ \A j \in 1..4 : j < i => bound[Closing[j]] # p
    PROVE  /\ pc' \in [Processes -> [at : Places, step : Nat]] /\ seen' \in [Processes -> SUBSET Nat]
           /\ MigrationsInOrder' /\ PortsByPlace' /\ ServerIsPrepared' /\ ClientsHeld'
<1>0. seen' \in [Processes -> SUBSET Nat] /\ \A q \in Processes : seen'[q] \subseteq seen[q]
  BY DEF Fail, Forget, BootstrapInv, TypeOK
<1>1. \/ Goto(p, "down", 0) /\ p \notin Servers
      \/ Goto(p, "pool", 0) /\ p \in Servers /\ pool[p] /\ \A j \in 1..4 : bound[Closing[j]] # p
      \/ /\ p \in Servers /\ pool[p]
         /\ \E k \in 1..4 : /\ Goto(p, "close", k) /\ bound[Closing[k]] = p
                           /\ \A j \in 1..4 : j < k => bound[Closing[j]] # p
  <2>1. \A j \in 1..4 : ~(j < 1)
    OBVIOUS
  <2>2. QED
    BY UnwindGoes DEF Fail
<1>2. PICK a \in {"down", "pool", "close"}, k \in 0..4 :
        /\ pc' = [pc EXCEPT ![p] = [at |-> a, step |-> k]]
        /\ a = "down" => p \notin Servers
        /\ a # "down" => p \in Servers /\ pool[p]
        /\ a = "pool" => \A j \in 1..4 : bound[Closing[j]] # p
        /\ a = "close" => /\ k \in 1..4 /\ bound[Closing[k]] = p
                          /\ \A j \in 1..4 : j < k => bound[Closing[j]] # p
  BY <1>1 DEF Goto
<1>3. pc' \in [Processes -> [at : Places, step : Nat]]
  BY <1>2 DEF BootstrapInv, TypeOK, Places
<1>4. MigrationsInOrder'
  BY <1>0, <1>2 DEF BootstrapInv, MigrationsInOrder, At, SchemaIsRecorded
<1>5. PortsByPlace'
  <2>1. a = "down" => \A i \in 1..4 : bound[Opening[i]] # p
    BY <1>2 DEF BootstrapInv, PortsByPlace, ServerIsPrepared
  <2>2. a = "pool" => \A i \in 1..4 : bound[Opening[i]] # p
    BY <1>2, NoneHeld
  <2>3. QED
    BY <1>2, <2>1, <2>2 DEF BootstrapInv, PortsByPlace, At
<1>6. ServerIsPrepared'
  <2>1. \A q \in Processes : pc'[q] = IF q = p THEN [at |-> a, step |-> k] ELSE pc[q]
    BY <1>2 DEF BootstrapInv, TypeOK
  <2>2. a = "close" => seen[p] \subseteq Expected(p)
    <3>1. a = "close" => ~\A i \in 1..4 : bound[Opening[i]] # p
      BY <1>2, NoneHeld
    <3>2. a = "close" => pc[p].at \in {"open", "serving", "close", "wait"}
      BY <3>1 DEF BootstrapInv, PortsByPlace
    <3>3. QED
      BY <3>2 DEF BootstrapInv, ServerIsPrepared
  <2>3. QED
    BY <1>0, <1>2, <2>1, <2>2 DEF BootstrapInv, ServerIsPrepared
<1>7. ClientsHeld'
  <2>1. \A q \in Waits : q \in Processes
    BY WaitsAssumption DEF Processes
  <2>2. \A q \in Waits : q # p => pc'[q] = pc[q]
    BY <1>2, <2>1 DEF BootstrapInv, TypeOK
  <2>3. QED
    BY <2>1, <2>2 DEF BootstrapInv, ClientsHeld, At
<1>8. QED
  BY <1>0, <1>3, <1>4, <1>5, <1>6, <1>7

\* A file goes bad.
LEMMA SpoilKeeps ==
    ASSUME BootstrapInv, NEW flaw \in Flaws, Spoil(flaw)
    PROVE  BootstrapInv'
<1>1. TypeOK'
  BY FaultsAssumption DEF BootstrapInv, TypeOK, Spoil, databaseVars, migrationVars, listenerVars,
     serviceVars
<1>2. QED
  BY <1>1
  DEF BootstrapInv, MigrationsInOrder, PortsByPlace, ServerIsPrepared, ClientsHeld, Spoil, databaseVars,
      migrationVars, listenerVars, SchemaIsRecorded, At

\* It is mended.
LEMMA MendKeeps ==
    ASSUME BootstrapInv, Mend
    PROVE  BootstrapInv'
<1>1. TypeOK'
  BY DEF BootstrapInv, TypeOK, Mend, databaseVars, migrationVars, listenerVars,
     serviceVars
<1>2. QED
  BY <1>1
  DEF BootstrapInv, MigrationsInOrder, PortsByPlace, ServerIsPrepared, ClientsHeld, Mend, databaseVars,
      migrationVars, listenerVars, SchemaIsRecorded, At

\* The configuration is accepted and the pool opened, or the process ends.
LEMMA ConfigureKeeps ==
    ASSUME BootstrapInv, NEW p \in Processes, Configure(p)
    PROVE  BootstrapInv'
<1>1. TypeOK'
  <2>1. pc' \in [Processes -> [at : Places, step : Nat]]
    <3>1. PICK a \in {"read", "failed"} : Goto(p, a, 0)
      BY DEF Configure
    <3>2. QED
      BY <3>1 DEF BootstrapInv, TypeOK, Places, Goto
  <2>2. pool' \in [Processes -> BOOLEAN]
    BY Zenon DEF BootstrapInv, TypeOK, Configure
  <2>3. QED
    BY <2>1, <2>2 DEF BootstrapInv, TypeOK, Configure, databaseVars, migrationVars, serviceVars, hostVars
<1>2. MigrationsInOrder'
  <2>1. tx[p] = 0
    BY DEF BootstrapInv, MigrationsInOrder, Configure, At
  <2>2. PICK a \in {"read", "failed"} : Goto(p, a, 0)
    BY DEF Configure
  <2>3. QED
    BY <2>1, MigrationsStay DEF BootstrapInv, Places, Configure, databaseVars, migrationVars
<1>3. PortsByPlace'
  BY DEF BootstrapInv, TypeOK, At, PortsByPlace, Configure, Goto
<1>4. ServerIsPrepared'
  <2>1. PICK a \in {"read", "failed"} : Goto(p, a, 0) /\ (a = "read" => pool' = [pool EXCEPT ![p] = TRUE])
                                       /\ (a = "failed" => pool' = pool)
    BY DEF Configure
  <2>2. \A q \in Processes : pc'[q] = IF q = p THEN [at |-> a, step |-> 0] ELSE pc[q]
    BY <2>1 DEF BootstrapInv, TypeOK, Goto
  <2>3. \A q \in Processes : pool[q] => pool'[q]
    BY Zenon, <2>1 DEF BootstrapInv, TypeOK
  <2>4. a = "read" => pool'[p]
    BY Zenon, <2>1 DEF BootstrapInv, TypeOK
  <2>5. p \in Servers
    BY DEF BootstrapInv, ServerIsPrepared, Configure, At
  <2>6. applied' = applied /\ bound' = bound /\ seen' = seen
    BY DEF Configure, databaseVars, migrationVars
  <2>7. QED
    BY <2>2, <2>3, <2>4, <2>6 DEF BootstrapInv, ServerIsPrepared
<1>5. ClientsHeld'
  BY ClientsStay DEF BootstrapInv, Configure, At
<1>6. QED
  BY <1>1, <1>2, <1>3, <1>4, <1>5 DEF BootstrapInv

\* A process is started.
LEMMA StartKeeps ==
    ASSUME BootstrapInv, NEW p \in Processes, Start(p)
    PROVE  BootstrapInv'
<1>1. TypeOK'
  BY BurstAssumption
  DEF BootstrapInv, Places, TypeOK, Start, Goto, databaseVars, migrationVars, listenerVars, hostVars
<1>2. MigrationsInOrder'
  BY DEF BootstrapInv, At, SchemaIsRecorded, MigrationsInOrder, Start, Goto, databaseVars,
         migrationVars
<1>3. PortsByPlace'
  BY DEF BootstrapInv, At, PortsByPlace, Start, Goto, listenerVars
<1>4. ServerIsPrepared'
  BY DEF BootstrapInv, ServerIsPrepared, Start, Goto, databaseVars, migrationVars, listenerVars
<1>5. ClientsHeld'
  BY ClientsStay DEF BootstrapInv, Start, At, listenerVars
<1>6. QED
  BY <1>1, <1>2, <1>3, <1>4, <1>5 DEF BootstrapInv

\* The service manager starts a server that failed again, or gives up.
LEMMA RestartKeeps ==
    ASSUME BootstrapInv, NEW p \in Processes, Restart(p)
    PROVE  BootstrapInv'
<1>1. PICK a \in {"configure", "down"} : Goto(p, a, 0)
  BY DEF Restart
<1>2. tx[p] = 0 /\ p \in Servers /\ At(p, "failed")
  BY DEF BootstrapInv, MigrationsInOrder, Restart, At
<1>3. TypeOK'
  <2>1. starts' \in [Servers -> 0..Burst]
    BY BurstAssumption DEF BootstrapInv, TypeOK, Restart
  <2>2. QED
    BY <1>1, <2>1
    DEF BootstrapInv, Places, TypeOK, Restart, Goto, databaseVars, migrationVars, listenerVars, hostVars
<1>4. MigrationsInOrder'
  BY <1>1, <1>2, MigrationsStay DEF BootstrapInv, Places, Restart, databaseVars, migrationVars
<1>5. PortsByPlace'
  BY <1>1, <1>2 DEF BootstrapInv, TypeOK, At, PortsByPlace, Restart, Goto, listenerVars
<1>6. ServerIsPrepared'
  BY <1>1, <1>2
  DEF BootstrapInv, TypeOK, ServerIsPrepared, Restart, Goto, databaseVars, migrationVars, listenerVars
<1>7. ClientsHeld'
  BY <1>1, <1>2, ClientsStay DEF BootstrapInv, Restart, At, listenerVars
<1>8. QED
  BY <1>3, <1>4, <1>5, <1>6, <1>7 DEF BootstrapInv

\* The migrations are behind a process.
LEMMA MigratedKeeps ==
    ASSUME BootstrapInv, NEW p \in Processes, Migrated(p)
    PROVE  BootstrapInv'
<1>1. TypeOK'
  BY DEF BootstrapInv, Places, TypeOK, Migrated, Goto, Forget, databaseVars, listenerVars,
         serviceVars, hostVars
<1>2. MigrationsInOrder'
  <2>1. tx[p] = 0
    <3>1. pc[p].step \in Nat /\ pc[p].step > Release[p] /\ Release[p] \in Nat
      BY ReleaseAssumption DEF BootstrapInv, TypeOK, Migrated
    <3>2. tx[p] # 0 => pc[p].step \in 1..Release[p]
      BY DEF BootstrapInv, MigrationsInOrder, Expected
    <3>3. QED
      BY <3>1, <3>2
  <2>2. PICK a \in {"open", "down"}, k \in {0, 1} : Goto(p, a, k)
    BY DEF Migrated
  <2>3. seen' \in [Processes -> SUBSET Nat] /\ \A q \in Processes : seen'[q] \subseteq seen[q]
    BY DEF BootstrapInv, TypeOK, Migrated, Forget
  <2>4. QED
    BY <2>1, <2>2, <2>3, MigrationsStay DEF BootstrapInv, Places, Migrated, databaseVars
<1>3. PortsByPlace'
  BY DEF BootstrapInv, TypeOK, At, PortsByPlace, Migrated, Goto, listenerVars
<1>4. ServerIsPrepared'
  <2>1. Expected(p) \subseteq applied
    <3>1. pc[p].step \in Nat /\ pc[p].step > Release[p] /\ Release[p] \in Nat
      BY ReleaseAssumption DEF BootstrapInv, TypeOK, Migrated
    <3>2. 1..(pc[p].step - 1) \subseteq applied
      BY DEF BootstrapInv, MigrationsInOrder, Migrated
    <3>3. QED
      BY <3>1, <3>2 DEF Expected
  <2>2. PICK a \in {"open", "down"}, k \in {0, 1} : Goto(p, a, k) /\ (a = "open" => p \in Servers)
    BY DEF Migrated
  <2>3. \A q \in Processes : pc'[q] = IF q = p THEN [at |-> a, step |-> k] ELSE pc[q]
    BY <2>2 DEF BootstrapInv, TypeOK, Goto
  <2>4. \A q \in Processes : seen'[q] \subseteq seen[q]
    BY DEF BootstrapInv, TypeOK, Migrated, Forget
  <2>5. QED
    BY <2>1, <2>2, <2>3, <2>4
    DEF BootstrapInv, ServerIsPrepared, Migrated, At, databaseVars, listenerVars
<1>5. ClientsHeld'
  BY ClientsStay DEF BootstrapInv, Migrated, At, listenerVars
<1>6. QED
  BY <1>1, <1>2, <1>3, <1>4, <1>5 DEF BootstrapInv

\* A migration and its record are committed together.
LEMMA CommitKeeps ==
    ASSUME BootstrapInv, NEW p \in Processes, Commit(p)
    PROVE  BootstrapInv'
<1>1. TypeOK'
  <2>1. pc[p] \in [at : Places, step : Nat] /\ tx[p] \in Nat
    BY DEF BootstrapInv, TypeOK
  <2>2. pc' \in [Processes -> [at : Places, step : Nat]]
    <3>1. [at |-> "migrate", step |-> pc[p].step + 1] \in [at : Places, step : Nat]
      BY <2>1 DEF Places
    <3>2. QED
      BY <3>1 DEF BootstrapInv, TypeOK, Commit, Goto
  <2>3. applied' \in SUBSET Nat /\ schema' \in SUBSET Nat /\ tx' \in [Processes -> Nat]
    BY DEF BootstrapInv, TypeOK, Commit
  <2>4. QED
    BY <2>2, <2>3 DEF BootstrapInv, TypeOK, Commit, listenerVars, serviceVars, hostVars
<1>2. MigrationsInOrder'
  <2> DEFINE n == Cardinality(applied)
  <2>1. /\ tx[p] = pc[p].step /\ pc[p].step \in Nat /\ pc[p].step > 0 /\ 1..(pc[p].step - 1) \subseteq 1..n
        /\ tx[p] \notin 1..n /\ applied = 1..n /\ n \in Nat
    BY FS_CardinalityType DEF BootstrapInv, TypeOK, MigrationsInOrder, SchemaIsRecorded, Commit
  <2>2. tx[p] = n + 1
    <3>1. pc[p].step > n
      BY <2>1
    <3>2. pc[p].step - 1 > 0 => pc[p].step - 1 \in 1..(pc[p].step - 1)
      BY <2>1
    <3>3. QED
      BY <2>1, <3>2
  <2>3. applied' = 1..(n + 1) /\ schema' = applied'
    BY <2>1, <2>2 DEF BootstrapInv, MigrationsInOrder, SchemaIsRecorded, Commit
  <2>4. IsFiniteSet(applied') /\ Cardinality(applied') = n + 1
    <3>1. n \in Nat /\ n + 1 \in Int /\ 1 \in Int
      BY <2>1
    <3>2. IsFiniteSet(1..(n + 1)) /\ Cardinality(1..(n + 1)) = IF 1 > n + 1 THEN 0 ELSE (n + 1) - 1 + 1
      BY <3>1, FS_Interval
    <3>3. QED
      BY <2>3, <3>1, <3>2
  <2>5. (SchemaIsRecorded /\ IsFiniteSet(applied))'
    BY <2>3, <2>4 DEF SchemaIsRecorded
  <2>6. \A q \in Processes : /\ tx'[q] = IF q = p THEN 0 ELSE tx[q]
                             /\ pc'[q] = IF q = p THEN [at |-> "migrate", step |-> pc[p].step + 1] ELSE pc[q]
                             /\ seen'[q] = seen[q]
    BY DEF BootstrapInv, TypeOK, Commit, Goto
  <2>7. applied \subseteq applied' /\ applied' \subseteq applied \cup {tx[p]}
    BY DEF Commit
  <2>8. 1..pc[p].step \subseteq applied'
    BY <2>1, <2>2, <2>3
  <2>9. ASSUME NEW q \in Processes
        PROVE  /\ seen'[q] \subseteq applied'
               /\ At(q, "migrate")' => pc'[q].step > 0 /\ 1..(pc'[q].step - 1) \subseteq applied'
    <3>1. CASE q = p
      <4>1. pc'[q].step = pc[p].step + 1 /\ (pc[p].step + 1) - 1 = pc[p].step /\ pc[p].step + 1 > 0
        BY <2>1, <2>6, <3>1
      <4>2. QED
        BY <2>6, <2>7, <2>8, <4>1 DEF BootstrapInv, MigrationsInOrder
    <3>2. CASE q # p
      BY <2>6, <2>7, <3>2 DEF BootstrapInv, MigrationsInOrder, At
    <3>3. QED
      BY <3>1, <3>2
  <2>10. ASSUME NEW q \in Processes, tx'[q] # 0
         PROVE  /\ At(q, "migrate")' /\ tx'[q] = pc'[q].step
                /\ tx'[q] \in Expected(q) \ applied'
                /\ \A r \in Processes : tx'[r] = tx'[q] => r = q
    BY <2>6, <2>7, <2>10 DEF BootstrapInv, MigrationsInOrder, At
  <2>11. QED
    BY <2>5, <2>9, <2>10 DEF MigrationsInOrder
<1>3. PortsByPlace'
  <2>1. At(p, "migrate")
    BY DEF BootstrapInv, MigrationsInOrder, Commit
  <2>2. \A q \in Processes : pc'[q] = IF q = p THEN [at |-> "migrate", step |-> pc[p].step + 1] ELSE pc[q]
    BY DEF BootstrapInv, TypeOK, Commit, Goto
  <2>3. QED
    BY <2>1, <2>2 DEF BootstrapInv, PortsByPlace, At, Commit, listenerVars
<1>4. ServerIsPrepared'
  <2>1. At(p, "migrate") /\ applied \subseteq applied'
    BY DEF BootstrapInv, MigrationsInOrder, Commit
  <2>2. \A q \in Processes : pc'[q] = IF q = p THEN [at |-> "migrate", step |-> pc[p].step + 1] ELSE pc[q]
    BY DEF BootstrapInv, TypeOK, Commit, Goto
  <2>3. QED
    BY <2>1, <2>2 DEF BootstrapInv, ServerIsPrepared, At, Commit, listenerVars
<1>5. ClientsHeld'
  <2>1. ~At(p, "wait")
    BY DEF BootstrapInv, MigrationsInOrder, Commit, At
  <2>2. QED
    BY <2>1, ClientsStay DEF BootstrapInv, Commit, listenerVars
<1>6. QED
  BY <1>1, <1>2, <1>3, <1>4, <1>5 DEF BootstrapInv

\* A client connects.
LEMMA ClientConnectsKeeps ==
    ASSUME BootstrapInv, NEW port \in Ports, ClientConnects(port)
    PROVE  BootstrapInv'
<1>1. TypeOK'
  BY DEF BootstrapInv, TypeOK, ClientConnects, databaseVars, migrationVars, serviceVars, hostVars
<1>2. ClientsHeld'
  <2>1. Waits \subseteq Processes
    BY WaitsAssumption DEF Processes
  <2>2. QED
    BY <2>1, PortNames DEF BootstrapInv, TypeOK, ClientsHeld, ClientConnects, At
<1>3. QED
  BY <1>1, <1>2
  DEF BootstrapInv, MigrationsInOrder, PortsByPlace, ServerIsPrepared, ClientConnects,
      databaseVars, migrationVars, SchemaIsRecorded, At

\* A client leaves.
LEMMA ClientLeavesKeeps ==
    ASSUME BootstrapInv, NEW p \in Servers, NEW port \in Ports, ClientLeaves(p, port)
    PROVE  BootstrapInv'
<1>1. TypeOK'
  BY DEF BootstrapInv, TypeOK, ClientLeaves, databaseVars, migrationVars, serviceVars, hostVars
<1>2. ClientsHeld'
  <2>1. Waits \subseteq Processes
    BY WaitsAssumption DEF Processes
  <2>2. QED
    BY <2>1, PortNames DEF BootstrapInv, TypeOK, ClientsHeld, ClientLeaves, At
<1>3. QED
  BY <1>1, <1>2
  DEF BootstrapInv, MigrationsInOrder, PortsByPlace, ServerIsPrepared, ClientLeaves, databaseVars,
      migrationVars, SchemaIsRecorded, At

\* A listener is closed.
LEMMA CloseKeeps ==
    ASSUME BootstrapInv, NEW p \in Processes, Close(p)
    PROVE  BootstrapInv'
<1>1. TypeOK'
  BY DEF BootstrapInv, Places, TypeOK, Close, Goto, databaseVars, migrationVars,
         serviceVars, hostVars
<1>2. MigrationsInOrder'
  BY DEF BootstrapInv, At, SchemaIsRecorded, MigrationsInOrder, Close, Goto, databaseVars,
         migrationVars
<1>3. PortsByPlace'
  <2> DEFINE k == pc[p].step
  <2>1. k \in 1..4 /\ Closing[k] \in Ports /\ \A i \in 1..4 : i < k => bound[Closing[i]] # p
    BY PortNames DEF BootstrapInv, PortsByPlace, Close, At
  <2>2. bound[Closing[k]] = p
    BY DEF BootstrapInv, PortsByPlace, Close
  <2>3. \A i \in 1..4 : i =< k => bound'[Closing[i]] # p
    BY <2>1, KindAssumption DEF BootstrapInv, TypeOK, Close
  <2>4. \A q \in Processes \ {p} : \A port \in Ports : bound'[port] = q <=> bound[port] = q
    BY <2>2, KindAssumption DEF Close
  <2>5. QED
    BY <2>3, <2>4 DEF BootstrapInv, TypeOK, PortsByPlace, At, Close, Goto
<1>4. ServerIsPrepared'
  BY KindAssumption DEF BootstrapInv, At, ServerIsPrepared, Close, Goto, databaseVars, migrationVars
<1>5. ClientsHeld'
  <2>1. pc[p].step \in 1..4 /\ bound[Closing[pc[p].step]] = p /\ At(p, "close")
    BY DEF BootstrapInv, PortsByPlace, Close, At
  <2>2. \A q \in Processes : pc'[q] = IF q = p THEN [at |-> "wait", step |-> pc[p].step] ELSE pc[q]
    BY DEF BootstrapInv, TypeOK, Close, Goto
  <2>3. \A i \in 1..4 : bound'[Closing[i]] = IF i = pc[p].step THEN "none" ELSE bound[Closing[i]]
    BY <2>1, PortNames DEF BootstrapInv, TypeOK, Close
  <2>4. Waits \subseteq Processes /\ clients' = clients
    BY WaitsAssumption DEF Processes, Close
  <2>5. QED
    BY <2>1, <2>2, <2>3, <2>4 DEF BootstrapInv, ClientsHeld, At
<1>6. QED
  BY <1>1, <1>2, <1>3, <1>4, <1>5 DEF BootstrapInv

\* The pool is closed last.
LEMMA ClosePoolKeeps ==
    ASSUME BootstrapInv, NEW p \in Processes, ClosePool(p)
    PROVE  BootstrapInv'
<1>1. PICK a \in {"down", "failed"} : Goto(p, a, 0)
  BY DEF ClosePool
<1>2. /\ At(p, "pool") /\ tx[p] = 0 /\ pool' = [pool EXCEPT ![p] = FALSE] /\ clients' = [clients EXCEPT ![p] = {}]
      /\ UNCHANGED <<applied, schema, table, tx, bound, starts, flaws, faults>>
  BY DEF BootstrapInv, MigrationsInOrder, At, ClosePool, databaseVars, hostVars
<1>3. seen' \in [Processes -> SUBSET Nat] /\ \A q \in Processes : seen'[q] \subseteq seen[q]
  BY DEF BootstrapInv, TypeOK, ClosePool, Forget
<1>4. \A q \in Processes : pc'[q] = IF q = p THEN [at |-> a, step |-> 0] ELSE pc[q]
  BY <1>1 DEF BootstrapInv, TypeOK, Goto
<1>5. TypeOK'
  <2>1. pc' \in [Processes -> [at : Places, step : Nat]]
    BY <1>1 DEF BootstrapInv, Places, TypeOK, Goto
  <2>2. clients' \in [Processes -> SUBSET Ports]
    BY <1>2 DEF BootstrapInv, TypeOK
  <2>3. pool' \in [Processes -> BOOLEAN]
    BY Zenon, <1>2 DEF BootstrapInv, TypeOK
  <2>4. QED
    BY <1>2, <1>3, <2>1, <2>2, <2>3 DEF BootstrapInv, TypeOK, ClosePool
<1>6. MigrationsInOrder'
  BY <1>1, <1>2, <1>3, MigrationsStay DEF BootstrapInv, Places
<1>7. PortsByPlace'
  BY <1>2, <1>4 DEF BootstrapInv, At, PortsByPlace
<1>8. ServerIsPrepared'
  BY <1>2, <1>3, <1>4 DEF BootstrapInv, TypeOK, ServerIsPrepared
<1>9. ClientsHeld'
  BY <1>2, <1>4, WaitsAssumption DEF BootstrapInv, TypeOK, ClientsHeld, Processes, At
<1>10. QED
  BY <1>5, <1>6, <1>7, <1>8, <1>9 DEF BootstrapInv

\* A process is killed.
LEMMA KillKeeps ==
    ASSUME BootstrapInv, NEW p \in Processes, Kill(p)
    PROVE  BootstrapInv'
<1>1. PICK a \in {"down", "failed"} : Goto(p, a, 0) /\ (a = "failed" => p \in Servers)
  BY DEF Kill
<1>2. \A q \in Processes : pc'[q] = IF q = p THEN [at |-> a, step |-> 0] ELSE pc[q]
  BY <1>1 DEF BootstrapInv, TypeOK, Goto
<1>3. seen' \in [Processes -> SUBSET Nat] /\ \A q \in Processes : seen'[q] \subseteq seen[q]
  BY DEF BootstrapInv, TypeOK, Kill, Forget
<1>4. TypeOK'
  <2>1. pc' \in [Processes -> [at : Places, step : Nat]]
    BY <1>1 DEF BootstrapInv, Places, TypeOK, Goto
  <2>2. /\ tx' \in [Processes -> Nat] /\ clients' \in [Processes -> SUBSET Ports]
        /\ bound' \in [Ports -> Processes \cup {"none"}] /\ faults' \in 0..MaxFaults
    BY FaultsAssumption DEF BootstrapInv, TypeOK, Kill
  <2>3. pool' \in [Processes -> BOOLEAN]
    BY Zenon DEF BootstrapInv, TypeOK, Kill
  <2>4. QED
    BY <1>3, <2>1, <2>2, <2>3 DEF BootstrapInv, TypeOK, Kill, databaseVars
<1>5. MigrationsInOrder'
  BY <1>2, <1>3 DEF BootstrapInv, TypeOK, At, SchemaIsRecorded, MigrationsInOrder, Kill, databaseVars
<1>6. \A port \in Ports : bound'[port] # p /\ \A q \in Processes \ {p} : bound'[port] = q <=> bound[port] = q
  <2>1. \A port \in Ports : bound'[port] = IF bound[port] = p THEN "none" ELSE bound[port]
    BY DEF Kill
  <2>2. QED
    BY <2>1, KindAssumption
<1>7. \A i \in 1..4 : Opening[i] \in Ports /\ Closing[i] \in Ports
  BY PortNames
<1>8. PortsByPlace'
  BY <1>2, <1>6, <1>7 DEF BootstrapInv, PortsByPlace, At
<1>9. ServerIsPrepared'
  <2>1. \A q \in Processes : q # p => pool'[q] = pool[q]
    BY Zenon DEF BootstrapInv, TypeOK, Kill
  <2>2. applied' = applied
    BY DEF Kill, databaseVars
  <2>3. QED
    BY <1>1, <1>2, <1>3, <1>6, <1>7, <2>1, <2>2 DEF BootstrapInv, ServerIsPrepared
<1>10. ClientsHeld'
  <2>1. \A q \in Processes : clients'[q] = IF q = p THEN {} ELSE clients[q]
    BY DEF BootstrapInv, TypeOK, Kill
  <2>2. Waits \subseteq Processes
    BY WaitsAssumption DEF Processes
  <2>3. QED
    BY <1>2, <1>6, <1>7, <2>1, <2>2 DEF BootstrapInv, ClientsHeld, At
<1>11. QED
  BY <1>4, <1>5, <1>8, <1>9, <1>10 DEF BootstrapInv

\* The applied migrations are read, and refused when they are not an initial part.
LEMMA ReadAppliedKeeps ==
    ASSUME BootstrapInv, NEW p \in Processes, ReadApplied(p)
    PROVE  BootstrapInv'
<1>1. tx[p] = 0 /\ (p \in Servers => pool[p]) /\ At(p, "read")
  BY DEF BootstrapInv, MigrationsInOrder, ServerIsPrepared, ReadApplied, At
<1>2. CASE /\ ValidApplied(p)
           /\ seen' = [seen EXCEPT ![p] = applied] /\ Goto(p, "migrate", Cardinality(applied) + 1)
  <2> DEFINE n == Cardinality(applied)
  <2>1. n \in Nat /\ applied = 1..n /\ n <= Release[p]
    BY <1>2, FS_CardinalityType DEF BootstrapInv, MigrationsInOrder, ValidApplied
  <2> HIDE DEF n
  <2>2. n + 1 \in Nat /\ n + 1 > 0 /\ 1..((n + 1) - 1) \subseteq applied
    BY <2>1
  <2>3. \A q \in Processes : pc'[q] = IF q = p THEN [at |-> "migrate", step |-> n + 1] ELSE pc[q]
    BY <1>2 DEF BootstrapInv, TypeOK, Goto, n
  <2>4. seen' \in [Processes -> SUBSET Nat] /\ \A q \in Processes : seen'[q] = IF q = p THEN applied ELSE seen[q]
    BY <1>2 DEF BootstrapInv, TypeOK
  <2>5. TypeOK'
    <3>1. pc' \in [Processes -> [at : Places, step : Nat]]
      BY <1>2, <2>2 DEF BootstrapInv, TypeOK, Places, Goto, n
    <3>2. QED
      BY <2>4, <3>1 DEF BootstrapInv, TypeOK, ReadApplied, listenerVars, serviceVars, hostVars
  <2>6. MigrationsInOrder'
    BY <1>1, <1>2, <2>2, <2>4, MigrationsStay DEF BootstrapInv, Places, ReadApplied, n
  <2>7. PortsByPlace'
    BY <1>1, <2>3 DEF BootstrapInv, PortsByPlace, At, ReadApplied, listenerVars
  <2>8. ServerIsPrepared'
    <3>1. applied \subseteq Expected(p)
      BY <2>1, ReleaseAssumption DEF Expected
    <3>2. applied' = applied /\ pool' = pool /\ bound' = bound
      BY DEF ReadApplied, listenerVars
    <3>3. QED
      BY <1>1, <2>3, <2>4, <3>1, <3>2 DEF BootstrapInv, ServerIsPrepared, At
  <2>9. ClientsHeld'
    BY <1>1, <1>2, ClientsStay DEF BootstrapInv, ReadApplied, At, listenerVars
  <2>10. QED
    BY <2>5, <2>6, <2>7, <2>8, <2>9 DEF BootstrapInv
<1>3. CASE Fail(p)
  <2>1. p \in Waits => \A j \in 1..4 : Closing[j] \in clients[p] => bound[Closing[j]] = p
    BY <1>1 DEF BootstrapInv, ClientsHeld, At
  <2>2. /\ pc' \in [Processes -> [at : Places, step : Nat]] /\ seen' \in [Processes -> SUBSET Nat]
        /\ MigrationsInOrder' /\ PortsByPlace' /\ ServerIsPrepared' /\ ClientsHeld'
    BY <1>1, <1>3, <2>1, LeavesOrderly DEF ReadApplied, listenerVars
  <2>3. QED
    BY <2>2 DEF BootstrapInv, TypeOK, ReadApplied, listenerVars, serviceVars, hostVars
<1>4. QED
  BY <1>2, <1>3 DEF ReadApplied

\* The statements of a migration run, or fail on the tables another process committed.
LEMMA ExecuteKeeps ==
    ASSUME BootstrapInv, NEW p \in Processes, Execute(p)
    PROVE  BootstrapInv'
<1> DEFINE v == pc[p].step
<1>1. tx[p] = 0 /\ (p \in Servers => pool[p]) /\ At(p, "migrate") /\ v \in Expected(p) /\ v \in Nat
  BY DEF BootstrapInv, TypeOK, ServerIsPrepared, Execute, At
<1>2. CASE v \in schema
  <2>1. Fail(p) /\ UNCHANGED <<databaseVars, tx, listenerVars, serviceVars, hostVars>>
    BY <1>2 DEF Execute
  <2>2. p \in Waits => \A j \in 1..4 : Closing[j] \in clients[p] => bound[Closing[j]] = p
    BY <1>1 DEF BootstrapInv, ClientsHeld, At
  <2>3. /\ pc' \in [Processes -> [at : Places, step : Nat]] /\ seen' \in [Processes -> SUBSET Nat]
        /\ MigrationsInOrder' /\ PortsByPlace' /\ ServerIsPrepared' /\ ClientsHeld'
    BY <1>1, <2>1, <2>2, LeavesOrderly DEF databaseVars, listenerVars
  <2>4. QED
    BY <2>1, <2>3 DEF BootstrapInv, TypeOK, databaseVars, listenerVars, serviceVars, hostVars
<1>3. CASE v \notin schema
  <2>1. tx' = [tx EXCEPT ![p] = v] /\ UNCHANGED <<databaseVars, pc, seen, listenerVars, serviceVars, hostVars>>
    BY <1>3 DEF Execute
  <2>2. TypeOK'
    BY <2>1 DEF BootstrapInv, TypeOK, databaseVars, listenerVars, serviceVars, hostVars
  <2>3. MigrationsInOrder'
    <3>1. \A q \in Processes : tx'[q] = IF q = p THEN v ELSE tx[q]
      BY <2>1 DEF BootstrapInv, TypeOK
    <3>2. v \notin applied /\ \A q \in Processes : tx[q] # v
      BY <1>3 DEF BootstrapInv, MigrationsInOrder, SchemaIsRecorded, Execute
    <3>3. QED
      BY <1>1, <2>1, <3>2 DEF BootstrapInv, MigrationsInOrder, SchemaIsRecorded, At, databaseVars
  <2>4. PortsByPlace' /\ ServerIsPrepared' /\ ClientsHeld'
    BY <2>1 DEF BootstrapInv, PortsByPlace, ServerIsPrepared, ClientsHeld, At, databaseVars, listenerVars
  <2>5. QED
    BY <2>2, <2>3, <2>4 DEF BootstrapInv
<1>4. QED
  BY <1>2, <1>3

\* A server that serves is interrupted.
LEMMA InterruptKeeps ==
    ASSUME BootstrapInv, NEW p \in Servers, Interrupt(p)
    PROVE  BootstrapInv'
<1>1. p \in Processes /\ tx[p] = 0 /\ pool[p]
  BY DEF Processes, BootstrapInv, MigrationsInOrder, ServerIsPrepared, Interrupt, At
<1>2. \E i \in 1..5 : Unwind(p, i) /\ \A j \in 1..4 : j < i => bound[Closing[j]] # p
  <2>1. Unwind(p, 1) /\ \A j \in 1..4 : ~(j < 1)
    BY DEF Interrupt
  <2>2. QED
    BY <2>1
<1>3. p \in Waits => \A j \in 1..4 : Closing[j] \in clients[p] => bound[Closing[j]] = p
  BY DEF BootstrapInv, ClientsHeld, Interrupt, At
<1>4. /\ pc' \in [Processes -> [at : Places, step : Nat]]
      /\ MigrationsInOrder' /\ PortsByPlace' /\ ServerIsPrepared' /\ ClientsHeld'
  BY <1>1, <1>2, <1>3, LeavesOrderly DEF Interrupt, databaseVars, migrationVars, listenerVars
<1>5. faults' \in 0..MaxFaults
  BY FaultsAssumption DEF BootstrapInv, TypeOK, Interrupt
<1>6. QED
  BY <1>4, <1>5 DEF BootstrapInv, TypeOK, Interrupt, databaseVars, migrationVars, listenerVars

\* The listener's connections are gone, and the finally clause goes on.
LEMMA ClosedKeeps ==
    ASSUME BootstrapInv, NEW p \in Processes, Closed(p)
    PROVE  BootstrapInv'
<1>1. tx[p] = 0 /\ p \in Servers /\ pool[p]
  BY DEF BootstrapInv, MigrationsInOrder, ServerIsPrepared, Closed, At
<1>2. \E i \in 1..5 : Unwind(p, i) /\ \A j \in 1..4 : j < i => bound[Closing[j]] # p
  <2>1. Unwind(p, pc[p].step + 1) /\ pc[p].step \in 1..4
    BY DEF BootstrapInv, PortsByPlace, Closed, At
  <2>2. \A j \in 1..4 : j < pc[p].step + 1 => bound[Closing[j]] # p
    BY <2>1 DEF BootstrapInv, PortsByPlace, Closed
  <2>3. QED
    BY <2>1, <2>2
<1>3. p \in Waits => \A j \in 1..4 : Closing[j] \in clients[p] => bound[Closing[j]] = p
  BY DEF BootstrapInv, ClientsHeld, Closed
<1>4. /\ pc' \in [Processes -> [at : Places, step : Nat]]
      /\ MigrationsInOrder' /\ PortsByPlace' /\ ServerIsPrepared' /\ ClientsHeld'
  BY <1>1, <1>2, <1>3, LeavesOrderly DEF Closed, databaseVars, migrationVars, listenerVars
<1>5. QED
  BY <1>4
  DEF BootstrapInv, TypeOK, Closed, databaseVars, migrationVars, listenerVars, serviceVars, hostVars

\* The next listener takes its port, or the start fails.
LEMMA ListenKeeps ==
    ASSUME BootstrapInv, NEW p \in Processes, Listen(p)
    PROVE  BootstrapInv'
<1> DEFINE k == pc[p].step
           port == Opening[k]
<1>1. /\ tx[p] = 0 /\ p \in Servers /\ pool[p] /\ k \in 1..4 /\ port \in Ports
      /\ Expected(p) \subseteq applied /\ seen[p] \subseteq Expected(p) /\ At(p, "open")
  BY PortNames DEF BootstrapInv, MigrationsInOrder, PortsByPlace, ServerIsPrepared, Listen, At
<1>2. CASE flaws \cap Reads(port) = {} /\ bound[port] = "none"
  <2>1. /\ bound' = [bound EXCEPT ![port] = p] /\ snapshot' \subseteq snapshot \cup {p}
        /\ \/ k = 4 /\ Goto(p, "serving", 0)
           \/ k < 4 /\ Goto(p, "open", k + 1)
        /\ UNCHANGED <<databaseVars, migrationVars, pool, clients, serviceVars, hostVars>>
    <3>1. bound' = [bound EXCEPT ![port] = p] /\ snapshot' \subseteq snapshot \cup {p}
      BY <1>2 DEF Listen
    <3>2. IF k = 4 THEN Goto(p, "serving", 0) ELSE Goto(p, "open", k + 1)
      BY <1>2, PortNames DEF Listen
    <3>3. k = 4 \/ k < 4
      BY <1>1
    <3>4. QED
      BY <1>2, <3>1, <3>2, <3>3 DEF Listen, migrationVars
  <2>2. PICK a \in {"serving", "open"}, n \in 0..4 :
          Goto(p, a, n) /\ (a = "serving" => k = 4) /\ (a = "open" => n = k + 1)
    BY <1>1, <2>1
  <2>3. TypeOK'
    <3>1. snapshot' \in SUBSET Processes
      BY <2>1 DEF BootstrapInv, TypeOK
    <3>2. pc' \in [Processes -> [at : Places, step : Nat]]
      BY <2>2 DEF BootstrapInv, TypeOK, Places, Goto
    <3>3. QED
      BY <2>1, <3>1, <3>2 DEF BootstrapInv, TypeOK, databaseVars, migrationVars, serviceVars, hostVars
  <2>4. MigrationsInOrder'
    BY <1>1, <2>1, <2>2, MigrationsStay DEF BootstrapInv, Places, databaseVars, migrationVars
  <2>5. \A q \in Processes : pc'[q] = IF q = p THEN [at |-> a, step |-> n] ELSE pc[q]
    BY <2>2 DEF BootstrapInv, TypeOK, Goto
  <2>6. PortsByPlace'
    <3>1. \A q \in Processes \ {p} : \A x \in Ports : bound'[x] = q <=> bound[x] = q
      BY <1>2, <2>1, KindAssumption
    <3>2. \A i \in 1..4 : bound'[Opening[i]] = p <=> i < k + 1
      <4>1. \A i \in 1..4 : bound[Opening[i]] = p <=> i < k
        BY DEF BootstrapInv, PortsByPlace, Listen
      <4>2. \A i \in 1..4 : Opening[i] = port <=> i = k
        BY <1>1, PortNames
      <4>3. \A x \in Ports : bound'[x] = IF x = port THEN p ELSE bound[x]
        BY <2>1 DEF BootstrapInv, TypeOK
      <4>4. QED
        BY <1>1, <4>1, <4>3, PortNames
    <3>3. ASSUME NEW i \in 1..4
          PROVE  Opening[i] \in Ports /\ Closing[i] \in Ports
      BY PortNames
    <3>4. QED
      BY <1>1, <2>2, <2>5, <3>1, <3>2, <3>3 DEF BootstrapInv, PortsByPlace, At
  <2>7. ServerIsPrepared'
    <3>1. \A x \in Ports : bound'[x] \in {bound[x], p}
      BY <2>1
    <3>2. QED
      BY <1>1, <2>1, <2>5, <3>1, PortNames DEF BootstrapInv, ServerIsPrepared, databaseVars, migrationVars
  <2>8. ClientsHeld'
    <3>1. Waits \subseteq Processes /\ clients' = clients
      BY <2>1, WaitsAssumption DEF Processes
    <3>2. \A q \in Processes : \A x \in Ports : bound[x] = q => bound'[x] = q
      BY <1>2, <2>1, KindAssumption DEF BootstrapInv, TypeOK
    <3>3. \A q \in Processes : At(q, "wait") => At(q, "wait")' /\ pc'[q].step = pc[q].step
      BY <1>1, <2>5 DEF At
    <3>4. QED
      BY <3>1, <3>2, <3>3, PortNames DEF BootstrapInv, ClientsHeld
  <2>9. QED
    BY <2>3, <2>4, <2>6, <2>7, <2>8 DEF BootstrapInv
<1>3. CASE ~(flaws \cap Reads(port) = {} /\ bound[port] = "none")
  <2>1. Fail(p) /\ UNCHANGED <<databaseVars, tx, pool, bound, snapshot, clients, serviceVars, hostVars>>
    BY <1>3 DEF Listen
  <2>2. p \in Waits => \A j \in 1..4 : Closing[j] \in clients[p] => bound[Closing[j]] = p
    BY <1>1 DEF BootstrapInv, ClientsHeld, At
  <2>3. /\ pc' \in [Processes -> [at : Places, step : Nat]] /\ seen' \in [Processes -> SUBSET Nat]
        /\ MigrationsInOrder' /\ PortsByPlace' /\ ServerIsPrepared' /\ ClientsHeld'
    BY <1>1, <2>1, <2>2, LeavesOrderly DEF databaseVars
  <2>4. QED
    BY <2>1, <2>3 DEF BootstrapInv, TypeOK, databaseVars, serviceVars, hostVars
<1>4. QED
  BY <1>2, <1>3

-----------------------------------------------------------------------------
\* Every step keeps the invariant.
LEMMA NextKeeps ==
    ASSUME BootstrapInv, [Next]_vars
    PROVE  BootstrapInv'
<1>1. CASE UNCHANGED vars
  BY <1>1
  DEF vars, databaseVars, migrationVars, listenerVars, serviceVars, hostVars, BootstrapInv, TypeOK,
      MigrationsInOrder, PortsByPlace, ServerIsPrepared, ClientsHeld, SchemaIsRecorded, At
<1>2. CASE \E p \in Processes : Start(p) \/ Run(p) \/ Kill(p)
  BY <1>2, StartKeeps, RestartKeeps, ConfigureKeeps, ReadAppliedKeeps, MigratedKeeps, ExecuteKeeps,
    CommitKeeps, ListenKeeps, CloseKeeps, ClosedKeeps, ClosePoolKeeps, KillKeeps DEF Run
<1>3. CASE \E p \in Servers : Interrupt(p)
  BY <1>3, InterruptKeeps
<1>4. CASE (\E flaw \in Flaws : Spoil(flaw)) \/ Mend
  BY <1>4, SpoilKeeps, MendKeeps
<1>5. CASE \E port \in Ports : ClientConnects(port) \/ \E p \in Servers : ClientLeaves(p, port)
  BY <1>5, ClientConnectsKeeps, ClientLeavesKeeps
<1>6. QED
  BY <1>1, <1>2, <1>3, <1>4, <1>5 DEF Next

\* BootstrapInv holds in every state, whatever processes are started, interrupted and killed.
THEOREM BootstrapInvariant == Spec => []BootstrapInv
<1>1. Init => BootstrapInv
  <2> SUFFICES ASSUME Init PROVE BootstrapInv
    OBVIOUS
  <2>1. TypeOK
    <3>1. Down \in [at : Places, step : Nat]
      BY DEF Down, Places
    <3>2. 0 \in 0..MaxFaults /\ 0 \in 0..Burst
      BY FaultsAssumption, BurstAssumption
    <3>3. pool \in [Processes -> BOOLEAN] /\ table \in BOOLEAN
      BY Zenon DEF Init
    <3>4. QED
      BY <3>1, <3>2, <3>3 DEF Init, TypeOK
  <2>2. MigrationsInOrder
    <3>1. Cardinality({}) = 0 /\ IsFiniteSet({}) /\ 1..0 = {}
      BY FS_EmptySet
    <3>2. QED
      BY <3>1 DEF Init, MigrationsInOrder, SchemaIsRecorded, At, Down
  <2>3. PortsByPlace /\ ServerIsPrepared /\ ClientsHeld
    BY PortNames, KindAssumption, WaitsAssumption
    DEF Init, PortsByPlace, ServerIsPrepared, ClientsHeld, Processes, At, Down
  <2>4. QED
    BY <2>1, <2>2, <2>3 DEF BootstrapInv
<1>2. BootstrapInv /\ [Next]_vars => BootstrapInv'
  BY NextKeeps
<1>3. QED
  BY <1>1, <1>2, PTL DEF Spec

\* schema_migrations tells the truth: what it lists is what the database has, an initial part
\* of the sequence, though several processes migrate at once and any may be killed between
\* the statements and the record (run_migrations).
THEOREM MigrationsAreRecorded == Spec => []SchemaIsRecorded
<1>1. BootstrapInv => SchemaIsRecorded
  BY DEF BootstrapInv, MigrationsInOrder
<1>2. QED
  BY <1>1, BootstrapInvariant, PTL

\* A port that accepts belongs to a server with an open pool and all its migrations, which found
\* none of a later release; a server that answers ready takes agents and enrollments; and from
\* Python 3.12 on no connection outlives the pool (_run_server_runtime).
THEOREM PortsAreServed == Spec => []ServiceIsReady
<1>1. BootstrapInv => ServiceIsReady
  <2> SUFFICES ASSUME BootstrapInv PROVE ServiceIsReady
    OBVIOUS
  <2>1. ASSUME NEW port \in Ports, bound[port] # "none"
        PROVE  /\ pool[bound[port]] /\ Expected(bound[port]) \subseteq applied
               /\ seen[bound[port]] \subseteq Expected(bound[port])
    <3> DEFINE q == bound[port]
    <3>1. q \in Processes /\ \E i \in 1..4 : bound[Opening[i]] = q
      BY <2>1, PortNames DEF BootstrapInv, TypeOK
    <3>2. pc[q].at \in {"open", "serving", "close", "wait"}
      BY <3>1 DEF BootstrapInv, PortsByPlace
    <3>3. QED
      BY <3>1, <3>2 DEF BootstrapInv, ServerIsPrepared
  <2>2. ASSUME NEW p \in Servers, AnswersReady(p), pc[p].at \notin {"close", "wait"}
        PROVE  bound["tunnel"] = p /\ bound["enrollment"] = p
    <3>1. p \in Processes /\ bound[Opening[3]] = p
      BY <2>2, PortNames DEF AnswersReady, Processes
    <3>2. pc[p].at \in {"open", "serving"}
      BY <2>2, <3>1 DEF BootstrapInv, PortsByPlace
    <3>3. \A i \in 1..3 : bound[Opening[i]] = p
      BY <3>1, <3>2 DEF BootstrapInv, PortsByPlace, At
    <3>4. QED
      BY <3>3, PortNames
  <2>3. ASSUME NEW p \in Waits, clients[p] # {}
        PROVE  pool[p]
    <3>1. p \in Servers /\ p \in Processes
      BY WaitsAssumption DEF Processes
    <3>2. PICK i \in 1..4 : Closing[i] \in clients[p]
      BY <2>3, <3>1, PortNames DEF BootstrapInv, TypeOK
    <3>3. At(p, "wait") \/ ~\A j \in 1..4 : bound[Opening[j]] # p
      BY <3>2, NoneHeld DEF BootstrapInv, ClientsHeld
    <3>4. pc[p].at \in {"open", "serving", "close", "wait"}
      BY <3>1, <3>3 DEF BootstrapInv, PortsByPlace, At
    <3>5. QED
      BY <3>1, <3>4 DEF BootstrapInv, ServerIsPrepared
  <2>4. QED
    BY <2>1, <2>2, <2>3 DEF ServiceIsReady
<1>2. QED
  BY <1>1, BootstrapInvariant, PTL
=============================================================================
