------------------------------ MODULE Warehouse ------------------------------
(***************************************************************************)
(* WarehouseLab around its Postgres.  A pipeline is one invocation of      *)
(* run_pipeline.sh (wait, load, dbt build) or of the Dagster job (load,    *)
(* dbt build).  Nothing keeps two of them apart but the locks their        *)
(* statements take: the load is one transaction over the three raw tables  *)
(* (generator/load.py), and dbt builds each mart in a transaction of its   *)
(* own, up to four at a time.                                              *)
(*                                                                         *)
(* A transaction is named <<pipeline, "load">> or <<pipeline, mart>>; it   *)
(* acquires the locks of its script one after the other and keeps them to  *)
(* its end; got says how many it has.  A mart's SELECT fixes its snapshot  *)
(* before it locks the raw tables, and Postgres' TRUNCATE does not spare   *)
(* older snapshots: a table truncated in between reads as empty.           *)
(***************************************************************************)
EXTENDS Marts, Sequences

CONSTANTS
  Pipelines,      \* the invocations, named
  Models,         \* the marts that are built, of MartNames
  Data,           \* what generate_events returns; the seed is fixed
  GoldenDate,     \* golden_date
  WaitAttempts,   \* WAIT_ATTEMPTS
  MaxFaults       \* bound on outages and failing statements

MartNames == {"fct_daily_active_users", "fct_revenue_by_day", "dim_users"}

ASSUME PipelinesAssumption == IsFiniteSet(Pipelines)
ASSUME ModelsAssumption == Models \subseteq MartNames
ASSUME WarehouseAssumption == WaitAttempts \in Nat /\ MaxFaults \in Nat

Loads == Pipelines \X {"load"}
Builds == Pipelines \X Models
Transactions == Loads \cup Builds

VARIABLES
  up,           \* Postgres accepts connections
  created,      \* durable: the raw schema is there
  raw,          \* durable: the raw tables
  marts,        \* durable: the marts built so far, by name
  pc,           \* where each pipeline is
  attempts,     \* i of wait_for_postgres.sh
  node,         \* dbt's view of each mart of each pipeline
  got,          \* how many locks of its script a transaction has
  stale,        \* the builds whose snapshot is older than a committed load
  seen,         \* what a build has found in the raw tables it locked
  overlapped,   \* history: the pipelines that did not run alone
  faults

databaseVars == <<up, created, raw, marts>>
pipelineVars == <<pc, attempts, node>>
lockVars == <<got, stale, seen>>
vars == <<databaseVars, pipelineVars, lockVars, overlapped, faults>>

Ended == {"success", "failed"}
Active(p) == pc[p] \notin Ended \cup {"idle"}

WarehouseTypeOK ==
  /\ {up, created} \subseteq BOOLEAN
  /\ DOMAIN marts \subseteq Models
  /\ pc \in [Pipelines -> {"idle", "wait", "connect", "load", "staging", "build"} \cup Ended]
  /\ attempts \in [Pipelines -> 0 .. WaitAttempts]
  /\ node \in [Builds -> {"todo", "build", "test", "done", "failed"}]
  /\ got \in [Transactions -> 0 .. 6]
  /\ stale \subseteq Builds
  /\ DOMAIN seen = Builds
  /\ overlapped \subseteq Pipelines
  /\ faults \in 0 .. MaxFaults

-----------------------------------------------------------------------------
(* What is built and tested *)

MartOf(mart, tables) ==
  CASE mart = "fct_daily_active_users" -> fct_daily_active_users(tables.events)
    [] mart = "fct_revenue_by_day"     -> fct_revenue_by_day(tables.orders)
    [] mart = "dim_users"              -> dim_users(tables.users, tables.events, tables.orders)

\* The vars of dbt_project.yml, baked from a run of the generator.
Golden == derive_golden(Data, GoldenDate)

\* The tests of a mart that data can fail.
TestsPass(mart) ==
  CASE mart = "fct_daily_active_users" -> assert_dau_golden(marts[mart], Golden)
    [] mart = "fct_revenue_by_day"     -> assert_revenue_golden(marts[mart], Golden)
    [] mart = "dim_users"              -> DOMAIN marts[mart] \subseteq {u.user_id : u \in raw.users}

-----------------------------------------------------------------------------
(* Locks *)

\* Mutant of LoadScript: raw.users is emptied by a DELETE.
LoadScriptUsersDeleted ==
  << <<"create", "raw">>, <<"share", "events">>, <<"share", "orders">>,
     <<"exclusive", "events">>, <<"exclusive", "orders">>, <<"share", "users">> >>

\* CREATE SCHEMA, two CREATE INDEX (which lock the table even if the index is
\* there), and TRUNCATE raw.events, raw.orders, raw.users.
LoadScript ==
  << <<"create", "raw">>, <<"share", "events">>, <<"share", "orders">>,
     <<"exclusive", "events">>, <<"exclusive", "orders">>, <<"exclusive", "users">> >>

Script(t) ==
  CASE t[2] = "load"                   -> LoadScript
    [] t[2] = "fct_daily_active_users" -> << <<"read", "events">> >>
    [] t[2] = "fct_revenue_by_day"     -> << <<"read", "orders">> >>
    [] t[2] = "dim_users"              ->
         << <<"read", "users">>, <<"read", "events">>, <<"read", "orders">> >>

Open(t) == IF t[2] = "load" THEN pc[t[1]] = "load" ELSE node[t] = "build"

Held(t) == IF Open(t) THEN {Script(t)[i] : i \in 1 .. got[t]} ELSE {}

Waits(t) == Open(t) /\ got[t] < Len(Script(t))

Wanted(t) == Script(t)[got[t] + 1]

\* Of two locks of one table, one is exclusive; or both create the schema.
Conflict(a, b) ==
  /\ a[2] = b[2]
  /\ a[1] \in {"exclusive", "create"} \/ b[1] \in {"exclusive", "create"}

BlockedBy(t, u) ==
  /\ t # u /\ Open(u)
  /\ \E i \in 1 .. got[u] : Conflict(Script(u)[i], Wanted(t))

Grantable(t) == Waits(t) /\ \A u \in Transactions : ~BlockedBy(t, u)

\* What a transaction leaves when it commits, is rolled back, or dies.
Release(ts) ==
  /\ got' = [t \in Transactions |-> IF t \in ts THEN 0 ELSE got[t]]
  /\ seen' = [t \in Builds |-> IF t \in ts THEN NoData ELSE seen[t]]

-----------------------------------------------------------------------------

NoMarts == [m \in {} |-> NoData]

\* The volume is new, or an earlier run has left its tables.
Init ==
  /\ up = TRUE
  /\ \/ created = FALSE /\ raw = NoData /\ marts = NoMarts
     \/ created = TRUE /\ raw = Data /\ marts = [m \in Models |-> MartOf(m, Data)]
  /\ pc = [p \in Pipelines |-> "idle"]
  /\ attempts = [p \in Pipelines |-> 0]
  /\ node = [t \in Builds |-> "todo"]
  /\ got = [t \in Transactions |-> 0]
  /\ stale = {}
  /\ seen = [t \in Builds |-> NoData]
  /\ overlapped = {}
  /\ faults = 0

Goto(p, place) == pc' = [pc EXCEPT ![p] = place]

Begin(p, place) ==
  /\ pc[p] = "idle"
  /\ Goto(p, place)
  /\ LET others == {q \in Pipelines : Active(q)} IN
       overlapped' = overlapped \cup others \cup (IF others = {} THEN {} ELSE {p})
  /\ UNCHANGED <<databaseVars, attempts, node, lockVars, faults>>

StartPipeline(p) == Begin(p, "wait")

\* materialize_all: seed_raw does not wait.
StartJob(p) == Begin(p, "connect")

\* Mutant of WaitForPostgres: i is not incremented.
WaitForPostgresForever(p) ==
  /\ pc[p] = "wait"
  /\ IF attempts[p] < WaitAttempts
       THEN IF up THEN Goto(p, "connect") ELSE UNCHANGED pc
       ELSE Goto(p, "failed")
  /\ UNCHANGED <<databaseVars, attempts, node, lockVars, overlapped, faults>>

WaitForPostgres(p) ==
  /\ pc[p] = "wait"
  /\ IF attempts[p] < WaitAttempts
       THEN IF up THEN Goto(p, "connect") /\ UNCHANGED attempts
                  ELSE attempts' = [attempts EXCEPT ![p] = @ + 1] /\ UNCHANGED pc
       ELSE Goto(p, "failed") /\ UNCHANGED attempts
  /\ UNCHANGED <<databaseVars, node, lockVars, overlapped, faults>>

-----------------------------------------------------------------------------
(* The load *)

\* A first load goes through CREATE SCHEMA; a later one finds it done.
Connect(p) ==
  /\ pc[p] = "connect"
  /\ IF up THEN Goto(p, "load") ELSE Goto(p, "failed")
  /\ got' = [got EXCEPT ![<<p, "load">>] = IF up /\ created THEN 1 ELSE 0]
  /\ UNCHANGED <<databaseVars, attempts, node, stale, seen, overlapped, faults>>

LockForLoad(p) ==
  LET t == <<p, "load">> IN
    /\ Grantable(t)
    /\ ~(got[t] = 0 /\ created)
    /\ got' = [got EXCEPT ![t] = @ + 1]
    /\ UNCHANGED <<databaseVars, pipelineVars, stale, seen, overlapped, faults>>

\* Another load has created the schema since this one found it missing: the
\* creation that waited for it to commit fails on the duplicate key.
CreationLost(p) ==
  /\ pc[p] = "load" /\ got[<<p, "load">>] = 0 /\ created
  /\ Goto(p, "failed")
  /\ UNCHANGED <<databaseVars, attempts, node, lockVars, overlapped, faults>>

\* Mutant of CommitLoad: _insert_orders is not called.
CommitLoadWithoutOrders(p) ==
  /\ pc[p] = "load" /\ got[<<p, "load">>] = Len(LoadScript)
  /\ raw' = [Data EXCEPT !.orders = {}]
  /\ created' = TRUE
  /\ Goto(p, "staging")
  /\ Release({<<p, "load">>})
  /\ stale' = stale \cup {t \in Builds : Open(t)}
  /\ UNCHANGED <<up, marts, attempts, node, overlapped, faults>>

CommitLoad(p) ==
  /\ pc[p] = "load" /\ got[<<p, "load">>] = Len(LoadScript)
  /\ raw' = Data
  /\ created' = TRUE
  /\ Goto(p, "staging")
  /\ Release({<<p, "load">>})
  /\ stale' = stale \cup {t \in Builds : Open(t)}
  /\ UNCHANGED <<up, marts, attempts, node, overlapped, faults>>

-----------------------------------------------------------------------------
(* dbt build *)

\* The views of the staging schema, and the tests of the sources and of
\* staging, which hold for every whole load; they read all raw tables.
BuildStaging(p) ==
  /\ pc[p] = "staging"
  /\ up => \A t \in Transactions : \A lock \in Held(t) : lock[1] # "exclusive"
  /\ IF up THEN Goto(p, "build") ELSE Goto(p, "failed")
  /\ UNCHANGED <<databaseVars, attempts, node, lockVars, overlapped, faults>>

SetNode(t, status) == node' = [node EXCEPT ![t] = status]

\* The snapshot is taken here.
BeginBuild(t) ==
  /\ pc[t[1]] = "build" /\ node[t] = "todo" /\ up
  /\ SetNode(t, "build")
  /\ stale' = stale \ {t}
  /\ UNCHANGED <<databaseVars, pc, attempts, got, seen, overlapped, faults>>

LockForBuild(t) ==
  /\ Grantable(t)
  /\ LET table == Wanted(t)[2] IN
       seen' = [seen EXCEPT ![t][table] = IF t \in stale THEN {} ELSE raw[table]]
  /\ got' = [got EXCEPT ![t] = @ + 1]
  /\ UNCHANGED <<databaseVars, pipelineVars, stale, overlapped, faults>>

CommitBuild(t) ==
  /\ node[t] = "build" /\ ~Waits(t)
  /\ marts' = [m \in DOMAIN marts \cup {t[2]} |->
                 IF m = t[2] THEN MartOf(m, seen[t]) ELSE marts[m]]
  /\ SetNode(t, "test")
  /\ Release({t})
  /\ stale' = stale \ {t}
  /\ UNCHANGED <<up, created, raw, pc, attempts, overlapped, faults>>

\* A failed test marks the node; the tests of dim_users look at raw.users too.
TestMart(t) ==
  /\ node[t] = "test" /\ up
  /\ t[2] = "dim_users" =>
       \A u \in Transactions : <<"exclusive", "users">> \notin Held(u)
  /\ SetNode(t, IF TestsPass(t[2]) THEN "done" ELSE "failed")
  /\ UNCHANGED <<databaseVars, pc, attempts, lockVars, overlapped, faults>>

\* Without a connection a node fails; the others are tried all the same.
NodeUnreachable(t) ==
  /\ pc[t[1]] = "build" /\ node[t] \in {"todo", "test"} /\ ~up
  /\ SetNode(t, "failed")
  /\ UNCHANGED <<databaseVars, pc, attempts, lockVars, overlapped, faults>>

\* dbt's exit status, and with `set -e' the pipeline's.
FinishBuild(p) ==
  /\ pc[p] = "build"
  /\ \A m \in Models : node[<<p, m>>] \in {"done", "failed"}
  /\ Goto(p, IF \A m \in Models : node[<<p, m>>] = "done" THEN "success" ELSE "failed")
  /\ UNCHANGED <<databaseVars, attempts, node, lockVars, overlapped, faults>>

-----------------------------------------------------------------------------
(* Postgres: deadlocks and failures *)

\* The transactions are rolled back: a load ends its pipeline, a build fails
\* its node.
Abort(ts) ==
  /\ pc' = [p \in Pipelines |-> IF <<p, "load">> \in ts THEN "failed" ELSE pc[p]]
  /\ node' = [t \in Builds |-> IF t \in ts THEN "failed" ELSE node[t]]
  /\ Release(ts)
  /\ stale' = stale \ ts

\* Some transactions wait for each other: one of them is the victim.
DeadlockDetected ==
  /\ \E ts \in SUBSET {t \in Transactions : Waits(t)} :
       /\ ts # {}
       /\ \A t \in ts : \E u \in ts : BlockedBy(t, u)
       /\ \E victim \in ts :
            /\ \E t \in ts : BlockedBy(t, victim)
            /\ Abort({victim})
  /\ UNCHANGED <<databaseVars, attempts, overlapped, faults>>

Fault ==
  /\ faults < MaxFaults
  /\ faults' = faults + 1

\* A statement fails, a process is killed, or the temporary names of two dbt
\* builds of the same mart clash.
TransactionFails ==
  /\ Fault
  /\ \E t \in Transactions : Open(t) /\ Abort({t})
  /\ UNCHANGED <<databaseVars, attempts, overlapped>>

Outage ==
  /\ Fault
  /\ up
  /\ up' = FALSE
  /\ Abort({t \in Transactions : Open(t)})
  /\ UNCHANGED <<created, raw, marts, attempts, overlapped>>

PostgresStarts ==
  /\ ~up
  /\ up' = TRUE
  /\ UNCHANGED <<created, raw, marts, pipelineVars, lockVars, overlapped, faults>>

-----------------------------------------------------------------------------

BuildStep(t) ==
  BeginBuild(t) \/ LockForBuild(t) \/ CommitBuild(t) \/ TestMart(t) \/ NodeUnreachable(t)

Step(p) ==
  \/ WaitForPostgres(p)
  \/ Connect(p) \/ LockForLoad(p) \/ CreationLost(p) \/ CommitLoad(p)
  \/ BuildStaging(p) \/ FinishBuild(p)
  \/ \E m \in Models : BuildStep(<<p, m>>)

Next ==
  \/ \E p \in Pipelines : StartPipeline(p) \/ StartJob(p) \/ Step(p)
  \/ DeadlockDetected
  \/ TransactionFails \/ Outage \/ PostgresStarts

Spec == Init /\ [][Next]_vars

\* A started pipeline goes on, and Postgres looks for deadlocks.  Whether a
\* Postgres that is down comes back is left open.
FairSpec ==
  /\ Spec
  /\ \A p \in Pipelines : WF_vars(Step(p))
  /\ WF_vars(DeadlockDetected)

-----------------------------------------------------------------------------
(* Safety *)

\* Whatever pipelines overlap and fail, the raw tables are a whole load or
\* empty, and each mart was built from a whole load or from empty tables:
\* never from some tables of one and some of another, although dim_users reads
\* three of them and dbt knows nothing of the load.
MartsOfWholeLoads ==
  /\ raw \in {NoData, Data}
  /\ \A m \in DOMAIN marts : marts[m] \in {MartOf(m, NoData), MartOf(m, Data)}

\* What the last line of run_pipeline.sh says when it is reached.
Populated(table) == \A m \in Models : m \in DOMAIN table /\ table[m] = MartOf(m, Data)

Succeeds(p) == pc[p] # "success" /\ pc'[p] = "success"

\* A pipeline that ran alone and succeeds leaves all marts populated.
AloneMeansPopulated ==
  [][\A p \in Pipelines \ overlapped : Succeeds(p) => Populated(marts')]_vars

\* The loads that deadlock with each other or with a build, and the creations
\* that are lost, never take all pipelines with them: unless something else
\* fails, one succeeds (and its golden tests accept what it built).
SomePipelineSucceeds ==
  (\A p \in Pipelines : pc[p] \in Ended) /\ faults = 0 =>
    \E p \in Pipelines : pc[p] = "success"

-----------------------------------------------------------------------------
(* Liveness *)

\* A pipeline always ends, whether or not Postgres ever comes (back): it waits
\* a bounded time, and no lock it waits for is held forever.
EveryPipelineEnds == \A p \in Pipelines : Active(p) ~> pc[p] \in Ended

-----------------------------------------------------------------------------
(* What the documentation says and the code does not do *)

\* run_pipeline.sh:36, "SUCCESS: marts populated and all dbt tests passed".  A
\* load that commits between a build's snapshot and its lock makes the mart
\* empty, and the golden tests pass when their row is missing.
SuccessMeansPopulated ==
  [][\A p \in Pipelines : Succeeds(p) => Populated(marts')]_vars

=============================================================================
