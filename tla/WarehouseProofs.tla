--------------------------- MODULE WarehouseProofs ---------------------------
(***************************************************************************)
(* Proofs about WarehouseLab.  First its pipelines, for every set of them, *)
(* every choice of marts, every dataset and every number of faults; then   *)
(* the generator and the marts of what it writes, for every number of      *)
(* users and days and every random stream.                                 *)
(***************************************************************************)
EXTENDS Warehouse, Generator, FiniteSums

-----------------------------------------------------------------------------
(* The invariant *)

\* The tables that a load fills and the marts read.
RawTables == {"users", "events", "orders"}

\* Only an open transaction has locks, and it has the first of its script.
LocksOfOpen ==
  \A t \in Transactions :
    /\ got[t] <= Len(Script(t))
    /\ ~Open(t) => got[t] = 0

\* A load and a build never have conflicting locks at a time.
LoadsExcludeBuilds ==
  \A l \in Loads, t \in Builds :
    \A i \in 1 .. got[l], j \in 1 .. got[t] : ~Conflict(Script(l)[i], Script(t)[j])

\* Only an open build has an old snapshot.
StaleOpen == \A t \in stale : node[t] = "build"

\* What a build has found in the tables it has locked is what is there now, or
\* nothing in any of them: no load commits once it has locked the first one.
SeenAtOnce ==
  \A t \in Builds :
    /\ DOMAIN seen[t] = RawTables
    /\ \A i \in 1 .. got[t] :
         seen[t][Script(t)[i][2]] = IF t \in stale THEN {} ELSE raw[Script(t)[i][2]]

\* The inductive invariant behind MartsOfWholeLoads.
WholeInv ==
  /\ WarehouseTypeOK
  /\ LocksOfOpen
  /\ LoadsExcludeBuilds
  /\ StaleOpen
  /\ SeenAtOnce
  /\ MartsOfWholeLoads

\* dbt has touched a mart only in a pipeline that reached the build.
NodesFollow ==
  \A t \in Builds :
    /\ node[t] # "todo" => pc[t[1]] \in {"build"} \cup Ended
    /\ node[t] = "build" => pc[t[1]] = "build"

\* A pipeline that runs alone goes from a load of its own to the marts.
AloneInv ==
  \A p \in Pipelines \ overlapped :
    Active(p) =>
      /\ \A q \in Pipelines \ {p} : ~Active(q)
      /\ pc[p] \in {"staging", "build"} => raw = Data
      /\ \A m \in Models :
           /\ <<p, m>> \notin stale
           /\ node[<<p, m>>] \in {"test", "done"} =>
                m \in DOMAIN marts /\ marts[m] = MartOf(m, Data)

\* The inductive invariant behind AloneMeansPopulated.
PipelineInv == WholeInv /\ NodesFollow /\ AloneInv

\* After a load the raw tables are the data, and a tested mart is there.
TestsFindData ==
  /\ \A p \in Pipelines : pc[p] \in {"staging", "build"} => raw = Data
  /\ \A t \in Builds : node[t] = "test" => raw = Data /\ t[2] \in DOMAIN marts

\* A pipeline has failed, or will: one of its nodes has, or another load has
\* created the schema that it found missing.
Doomed(p) ==
  \/ pc[p] = "failed"
  \/ \E m \in Models : node[<<p, m>>] = "failed"
  \/ pc[p] = "load" /\ got[<<p, "load">>] = 0 /\ created

\* Without faults Postgres is up, of the builds only one of dim_users can be
\* the victim of a deadlock, and some pipeline is still to succeed, or has.
OneLeft ==
  faults = 0 =>
    /\ up
    /\ \A p \in Pipelines : attempts[p] = 0
    /\ \A t \in Builds : node[t] = "failed" => t[2] = "dim_users"
    /\ \E p \in Pipelines : ~Doomed(p)

\* The inductive invariant behind SomePipelineSucceeds.
RescueInv == PipelineInv /\ TestsFindData /\ OneLeft

-----------------------------------------------------------------------------
(* The scripts *)

\* What a load is, and what it locks.
LEMMA LoadFacts ==
  /\ Len(LoadScript) = 6
  /\ \A t \in Loads :
       /\ t[1] \in Pipelines /\ t = <<t[1], "load">>
       /\ t \in Transactions /\ t \notin Builds
       /\ Script(t) = LoadScript
       /\ Open(t) <=> pc[t[1]] = "load"
       /\ Open(t)' <=> pc'[t[1]] = "load"
<1>1. Len(LoadScript) = 6
  BY DEF LoadScript
<1>2. "load" \notin Models
  BY ModelsAssumption DEF MartNames
<1>3. ASSUME NEW t \in Loads
      PROVE  /\ t[1] \in Pipelines /\ t[2] = "load" /\ t = <<t[1], "load">>
             /\ t \in Transactions /\ t \notin Builds
  BY <1>2 DEF Loads, Transactions, Builds
<1>4. ASSUME NEW t \in Loads
      PROVE  /\ Script(t) = LoadScript
             /\ Open(t) <=> pc[t[1]] = "load"
             /\ Open(t)' <=> pc'[t[1]] = "load"
  BY <1>3 DEF Script, Open
<1> QED
  BY <1>1, <1>3, <1>4

\* What a build is, and what it locks.
LEMMA BuildFacts ==
  \A t \in Builds :
    /\ t[1] \in Pipelines /\ t[2] \in Models /\ t = <<t[1], t[2]>>
    /\ t \in Transactions /\ t \notin Loads
    /\ Open(t) <=> node[t] = "build"
    /\ Open(t)' <=> node'[t] = "build"
    /\ Len(Script(t)) \in 1 .. 3
    /\ \A i \in 1 .. Len(Script(t)) : Script(t)[i][1] = "read" /\ Script(t)[i][2] \in RawTables
<1> SUFFICES ASSUME NEW t \in Builds
             PROVE  /\ t[1] \in Pipelines /\ t[2] \in Models /\ t = <<t[1], t[2]>>
                    /\ t \in Transactions /\ t \notin Loads
                    /\ Open(t) <=> node[t] = "build"
                    /\ Open(t)' <=> node'[t] = "build"
                    /\ Len(Script(t)) \in 1 .. 3
                    /\ \A i \in 1 .. Len(Script(t)) :
                         Script(t)[i][1] = "read" /\ Script(t)[i][2] \in RawTables
  OBVIOUS
<1>1. /\ t[1] \in Pipelines /\ t[2] \in Models /\ t = <<t[1], t[2]>>
      /\ t[2] \in MartNames /\ t[2] # "load"
  <2>1. t[1] \in Pipelines /\ t[2] \in Models /\ t = <<t[1], t[2]>>
    BY DEF Builds
  <2>2. t[2] \in MartNames
    BY <2>1, ModelsAssumption
  <2>3. t[2] # "load"
    BY <2>2 DEF MartNames
  <2> QED
    BY <2>1, <2>2, <2>3
<1>2. t \in Transactions /\ t \notin Loads
  BY <1>1 DEF Transactions, Loads
<1>3. /\ Open(t) <=> node[t] = "build"
      /\ Open(t)' <=> node'[t] = "build"
  BY <1>1 DEF Open
<1>4. /\ Len(Script(t)) \in 1 .. 3
      /\ \A i \in 1 .. Len(Script(t)) : Script(t)[i][1] = "read" /\ Script(t)[i][2] \in RawTables
  <2>1. CASE t[2] = "fct_daily_active_users"
    BY <2>1 DEF Script, RawTables
  <2>2. CASE t[2] = "fct_revenue_by_day"
    BY <2>2 DEF Script, RawTables
  <2>3. CASE t[2] = "dim_users"
    <3>1. Script(t) = << <<"read", "users">>, <<"read", "events">>, <<"read", "orders">> >>
      BY <2>3 DEF Script
    <3> QED
      BY <3>1 DEF RawTables
  <2> QED
    BY <1>1, <2>1, <2>2, <2>3 DEF MartNames
<1> QED
  BY <1>1, <1>2, <1>3, <1>4

\* A load that has all its locks leaves none to a build.
LEMMA CommitExcludes ==
  ASSUME WholeInv, NEW l \in Loads, got[l] = 6, NEW t \in Builds
  PROVE  got[t] = 0
<1>1. got[t] \in 0 .. 6 /\ got[t] <= Len(Script(t))
  BY BuildFacts DEF WholeInv, WarehouseTypeOK, LocksOfOpen
<1> SUFFICES ASSUME got[t] >= 1 PROVE FALSE
  BY <1>1
<1>2. Script(t)[1][1] = "read" /\ Script(t)[1][2] \in RawTables
  BY <1>1, BuildFacts
<1>3. \A i \in 1 .. 6 : ~Conflict(LoadScript[i], Script(t)[1])
  BY <1>1, LoadFacts DEF WholeInv, LoadsExcludeBuilds
<1>4. /\ LoadScript[4] = <<"exclusive", "events">> /\ LoadScript[5] = <<"exclusive", "orders">>
      /\ LoadScript[6] = <<"exclusive", "users">>
  BY DEF LoadScript
<1>5. /\ Script(t)[1][2] # "events" /\ Script(t)[1][2] # "orders" /\ Script(t)[1][2] # "users"
  BY <1>3, <1>4 DEF Conflict
<1> QED
  BY <1>2, <1>5 DEF RawTables

\* A build that has all its locks computes its mart from what it saw at once.
LEMMA BuildsFromWhole ==
  ASSUME WholeInv, NEW t \in Builds, got[t] = Len(Script(t))
  PROVE  MartOf(t[2], seen[t]) = MartOf(t[2], IF t \in stale THEN NoData ELSE raw)
<1> DEFINE base == IF t \in stale THEN NoData ELSE raw
<1>1. \A i \in 1 .. Len(Script(t)) :
        seen[t][Script(t)[i][2]] = IF t \in stale THEN {} ELSE raw[Script(t)[i][2]]
  BY DEF WholeInv, SeenAtOnce
<1>2. NoData.users = {} /\ NoData.events = {} /\ NoData.orders = {}
  BY DEF NoData
<1>3. t[2] \in MartNames /\ t[2] # "load"
  BY BuildFacts, ModelsAssumption DEF MartNames
<1> HIDE DEF base
<1> SUFFICES MartOf(t[2], seen[t]) = MartOf(t[2], base)
  BY DEF base
<1>4. CASE t[2] = "fct_daily_active_users"
  <2>1. Len(Script(t)) = 1 /\ Script(t)[1][2] = "events"
    BY <1>4 DEF Script
  <2>2. seen[t].events = base.events
    BY <1>1, <1>2, <2>1 DEF base
  <2>3. \A x : MartOf("fct_daily_active_users", x) = fct_daily_active_users(x.events)
    BY DEF MartOf
  <2> QED
    BY <1>4, <2>2, <2>3
<1>5. CASE t[2] = "fct_revenue_by_day"
  <2>1. Len(Script(t)) = 1 /\ Script(t)[1][2] = "orders"
    BY <1>5 DEF Script
  <2>2. seen[t].orders = base.orders
    BY <1>1, <1>2, <2>1 DEF base
  <2>3. \A x : MartOf("fct_revenue_by_day", x) = fct_revenue_by_day(x.orders)
    BY DEF MartOf
  <2> QED
    BY <1>5, <2>2, <2>3
<1>6. CASE t[2] = "dim_users"
  <2>1. Script(t) = << <<"read", "users">>, <<"read", "events">>, <<"read", "orders">> >>
    BY <1>6 DEF Script
  <2>2. /\ Len(Script(t)) = 3 /\ Script(t)[1][2] = "users"
        /\ Script(t)[2][2] = "events" /\ Script(t)[3][2] = "orders"
    BY <2>1
  <2>3. /\ seen[t].users = base.users /\ seen[t].events = base.events
        /\ seen[t].orders = base.orders
    BY <1>1, <1>2, <2>2, SMTT(30) DEF base
  <2>4. \A x : MartOf("dim_users", x) = dim_users(x.users, x.events, x.orders)
    BY DEF MartOf
  <2> QED
    BY <1>6, <2>3, <2>4
<1> QED
  BY <1>3, <1>4, <1>5, <1>6 DEF MartNames

-----------------------------------------------------------------------------
(* Types *)

\* A rollback, of whatever transactions.
LEMMA AbortType ==
  ASSUME WarehouseTypeOK, NEW ts \in SUBSET Transactions, Abort(ts)
  PROVE  /\ pc' \in [Pipelines -> {"idle", "wait", "connect", "load", "staging", "build"} \cup Ended]
         /\ node' \in [Builds -> {"todo", "build", "test", "done", "failed"}]
         /\ got' \in [Transactions -> 0 .. 6]
         /\ stale' \subseteq Builds
         /\ DOMAIN seen' = Builds
<1>1. pc' \in [Pipelines -> {"idle", "wait", "connect", "load", "staging", "build"} \cup Ended]
  BY DEF Abort, WarehouseTypeOK, Ended
<1>2. node' \in [Builds -> {"todo", "build", "test", "done", "failed"}]
  BY DEF Abort, WarehouseTypeOK
<1>3. got' \in [Transactions -> 0 .. 6] /\ DOMAIN seen' = Builds
  BY DEF Abort, Release, WarehouseTypeOK
<1>4. stale' \subseteq Builds
  BY DEF Abort, WarehouseTypeOK
<1> QED
  BY <1>1, <1>2, <1>3, <1>4

\* The steps of a pipeline outside dbt build.
LEMMA PipelineStepType ==
  ASSUME WarehouseTypeOK, NEW p \in Pipelines,
         \/ StartPipeline(p) \/ StartJob(p) \/ WaitForPostgres(p) \/ Connect(p)
         \/ LockForLoad(p) \/ CreationLost(p) \/ CommitLoad(p)
         \/ BuildStaging(p) \/ FinishBuild(p)
  PROVE  WarehouseTypeOK'
<1> DEFINE l == <<p, "load">>
<1>0. l \in Loads /\ l \in Transactions
  BY DEF Loads, Transactions
<1>1. CASE StartPipeline(p) \/ StartJob(p)
  BY <1>1 DEF StartPipeline, StartJob, Begin, Goto, WarehouseTypeOK, databaseVars, lockVars
<1>2. CASE WaitForPostgres(p)
  <2>1. attempts' \in [Pipelines -> 0 .. WaitAttempts]
    BY <1>2, WarehouseAssumption DEF WaitForPostgres, WarehouseTypeOK
  <2>2. pc' \in [Pipelines -> {"idle", "wait", "connect", "load", "staging", "build"} \cup Ended]
    BY <1>2 DEF WaitForPostgres, Goto, WarehouseTypeOK, Ended
  <2> QED
    BY <1>2, <2>1, <2>2 DEF WaitForPostgres, WarehouseTypeOK, databaseVars, lockVars
<1>3. CASE Connect(p)
  <2>1. got' \in [Transactions -> 0 .. 6]
    BY <1>0, <1>3 DEF Connect, WarehouseTypeOK
  <2>2. pc' \in [Pipelines -> {"idle", "wait", "connect", "load", "staging", "build"} \cup Ended]
    BY <1>3 DEF Connect, Goto, WarehouseTypeOK, Ended
  <2> QED
    BY <1>3, <2>1, <2>2 DEF Connect, WarehouseTypeOK, databaseVars
<1>4. CASE LockForLoad(p)
  <2>1. got[l] < 6
    BY <1>0, <1>4, LoadFacts DEF LockForLoad, Grantable, Waits
  <2>2. got' \in [Transactions -> 0 .. 6]
    BY <1>0, <1>4, <2>1 DEF LockForLoad, WarehouseTypeOK
  <2> QED
    BY <1>4, <2>2 DEF LockForLoad, WarehouseTypeOK, databaseVars, pipelineVars
<1>5. CASE CreationLost(p)
  BY <1>5 DEF CreationLost, Goto, WarehouseTypeOK, databaseVars, lockVars, Ended
<1>6. CASE CommitLoad(p)
  <2>1. pc' \in [Pipelines -> {"idle", "wait", "connect", "load", "staging", "build"} \cup Ended]
    BY <1>6 DEF CommitLoad, Goto, WarehouseTypeOK
  <2>2. got' \in [Transactions -> 0 .. 6] /\ DOMAIN seen' = Builds
    BY <1>6 DEF CommitLoad, Release, WarehouseTypeOK
  <2>3. stale' \subseteq Builds
    BY <1>6 DEF CommitLoad, WarehouseTypeOK
  <2> QED
    BY <1>6, <2>1, <2>2, <2>3 DEF CommitLoad, WarehouseTypeOK
<1>7. CASE BuildStaging(p)
  BY <1>7 DEF BuildStaging, Goto, WarehouseTypeOK, databaseVars, lockVars, Ended
<1>8. CASE FinishBuild(p)
  BY <1>8 DEF FinishBuild, Goto, WarehouseTypeOK, databaseVars, lockVars, Ended
<1> QED
  BY <1>1, <1>2, <1>3, <1>4, <1>5, <1>6, <1>7, <1>8

\* The steps of dbt build for one mart.
LEMMA BuildStepType ==
  ASSUME WarehouseTypeOK, NEW t \in Builds, BuildStep(t)
  PROVE  WarehouseTypeOK'
<1>0. t \in Transactions /\ t[2] \in Models /\ Len(Script(t)) \in 1 .. 3
  BY BuildFacts
<1>1. CASE BeginBuild(t)
  BY <1>1 DEF BeginBuild, SetNode, WarehouseTypeOK, databaseVars
<1>2. CASE LockForBuild(t)
  <2>1. got[t] < 3
    <3>1. got[t] \in 0 .. 6
      BY <1>0 DEF WarehouseTypeOK
    <3>2. got[t] < Len(Script(t))
      BY <1>2 DEF LockForBuild, Grantable, Waits
    <3>3. PICK n \in 1 .. 3 : n = Len(Script(t))
      BY <1>0
    <3> QED
      BY <3>1, <3>2, <3>3
  <2>2. got' \in [Transactions -> 0 .. 6]
    BY <1>0, <1>2, <2>1 DEF LockForBuild, WarehouseTypeOK
  <2>3. DOMAIN seen' = Builds
    BY <1>2 DEF LockForBuild, WarehouseTypeOK
  <2> QED
    BY <1>2, <2>2, <2>3 DEF LockForBuild, WarehouseTypeOK, databaseVars, pipelineVars
<1>3. CASE CommitBuild(t)
  <2>1. node' \in [Builds -> {"todo", "build", "test", "done", "failed"}]
    BY <1>3 DEF CommitBuild, SetNode, WarehouseTypeOK
  <2>2. got' \in [Transactions -> 0 .. 6] /\ DOMAIN seen' = Builds
    BY <1>3 DEF CommitBuild, Release, WarehouseTypeOK
  <2>3. stale' \subseteq Builds
    BY <1>3 DEF CommitBuild, WarehouseTypeOK
  <2>4. DOMAIN marts' \subseteq Models
    BY <1>0, <1>3 DEF CommitBuild, WarehouseTypeOK
  <2> QED
    BY <1>3, <2>1, <2>2, <2>3, <2>4 DEF CommitBuild, WarehouseTypeOK
<1>4. CASE TestMart(t)
  <2>1. node' \in [Builds -> {"todo", "build", "test", "done", "failed"}]
    BY <1>4 DEF TestMart, SetNode, WarehouseTypeOK
  <2> QED
    BY <1>4, <2>1 DEF TestMart, WarehouseTypeOK, databaseVars, lockVars
<1>5. CASE NodeUnreachable(t)
  BY <1>5 DEF NodeUnreachable, SetNode, WarehouseTypeOK, databaseVars, lockVars
<1> QED
  BY <1>1, <1>2, <1>3, <1>4, <1>5 DEF BuildStep

\* The steps of Postgres.
LEMMA PostgresType ==
  ASSUME WarehouseTypeOK,
         DeadlockDetected \/ TransactionFails \/ Outage \/ PostgresStarts \/ UNCHANGED vars
  PROVE  WarehouseTypeOK'
<1>1. CASE DeadlockDetected
  <2>1. PICK victim \in Transactions : Abort({victim})
    BY <1>1 DEF DeadlockDetected
  <2> QED
    BY <1>1, <2>1, AbortType DEF DeadlockDetected, WarehouseTypeOK, databaseVars
<1>2. CASE TransactionFails
  <2>1. PICK t \in Transactions : Abort({t})
    BY <1>2 DEF TransactionFails
  <2>2. faults' \in 0 .. MaxFaults
    BY <1>2, WarehouseAssumption DEF TransactionFails, Fault, WarehouseTypeOK
  <2> QED
    BY <1>2, <2>1, <2>2, AbortType DEF TransactionFails, WarehouseTypeOK, databaseVars
<1>3. CASE Outage
  <2>1. PICK ts \in SUBSET Transactions : Abort(ts)
    BY <1>3 DEF Outage
  <2>2. faults' \in 0 .. MaxFaults
    BY <1>3, WarehouseAssumption DEF Outage, Fault, WarehouseTypeOK
  <2>3. {up', created'} \subseteq BOOLEAN
    BY <1>3 DEF Outage, WarehouseTypeOK
  <2> QED
    BY <1>3, <2>1, <2>2, <2>3, AbortType DEF Outage, WarehouseTypeOK
<1>4. CASE PostgresStarts
  BY <1>4 DEF PostgresStarts, WarehouseTypeOK, pipelineVars, lockVars
<1>5. CASE UNCHANGED vars
  BY <1>5 DEF vars, WarehouseTypeOK, databaseVars, pipelineVars, lockVars
<1> QED
  BY <1>1, <1>2, <1>3, <1>4, <1>5

-----------------------------------------------------------------------------
(* Locks, snapshots and whole loads *)

\* What keeps the invariant whatever else happens: transactions end and give
\* back their locks, others stay open, and the raw tables stay.
LEMMA WholeKept ==
  ASSUME WholeInv, WarehouseTypeOK', MartsOfWholeLoads', raw' = raw,
         NEW ts \in SUBSET Transactions,
         stale' = stale \ ts,
         \A t \in Transactions : got'[t] = IF t \in ts THEN 0 ELSE got[t],
         \A t \in Builds : seen'[t] = seen[t] \/ (t \in ts /\ seen'[t] = NoData),
         \A t \in Transactions \ ts : Open(t)' \/ ~Open(t) \/ got[t] = 0,
         \A t \in stale \ ts : node'[t] = node[t]
  PROVE  WholeInv'
<1>0. /\ Loads \subseteq Transactions /\ Builds \subseteq Transactions /\ stale \subseteq Builds
      /\ \A t \in Transactions : got[t] \in 0 .. 6 /\ Len(Script(t)) >= 0
  BY LoadFacts, BuildFacts DEF WholeInv, WarehouseTypeOK, Transactions
<1>1. LocksOfOpen'
  <2>1. \A t \in Transactions : got'[t] <= Len(Script(t)) /\ (~Open(t)' => got'[t] = 0)
    BY <1>0 DEF WholeInv, LocksOfOpen
  <2> QED
    BY <2>1 DEF LocksOfOpen
<1>2. LoadsExcludeBuilds'
  <2>1. \A l \in Loads, t \in Builds :
          \A i \in 1 .. got'[l], j \in 1 .. got'[t] : ~Conflict(Script(l)[i], Script(t)[j])
    <3> SUFFICES ASSUME NEW l \in Loads, NEW t \in Builds,
                        NEW i \in 1 .. got'[l], NEW j \in 1 .. got'[t]
                 PROVE  ~Conflict(Script(l)[i], Script(t)[j])
      OBVIOUS
    <3>1. l \in Transactions /\ t \in Transactions
      BY <1>0
    <3>2. (got'[l] = 0 \/ got'[l] = got[l]) /\ (got'[t] = 0 \/ got'[t] = got[t])
      BY <3>1
    <3>3. i \in 1 .. got[l] /\ j \in 1 .. got[t]
      BY <1>0, <3>1, <3>2
    <3> QED
      BY <3>3 DEF WholeInv, LoadsExcludeBuilds
  <2> QED
    BY <2>1 DEF LoadsExcludeBuilds
<1>3. StaleOpen'
  BY DEF WholeInv, StaleOpen
<1>4. SeenAtOnce'
  <2>1. ASSUME NEW t \in Builds
        PROVE  /\ DOMAIN seen'[t] = RawTables
               /\ \A i \in 1 .. got'[t] :
                    seen'[t][Script(t)[i][2]]
                      = IF t \in stale' THEN {} ELSE raw'[Script(t)[i][2]]
    <3>1. CASE t \in ts
      <4>1. got'[t] = 0
        BY <1>0, <3>1
      <4>2. DOMAIN NoData = RawTables
        BY DEF NoData, RawTables
      <4> QED
        BY <4>1, <4>2 DEF WholeInv, SeenAtOnce
    <3>2. CASE t \notin ts
      <4>1. got'[t] = got[t] /\ seen'[t] = seen[t] /\ (t \in stale' <=> t \in stale)
        BY <1>0, <3>2
      <4> QED
        BY <4>1 DEF WholeInv, SeenAtOnce
    <3> QED
      BY <3>1, <3>2
  <2> QED
    BY <2>1 DEF SeenAtOnce
<1> QED
  BY <1>1, <1>2, <1>3, <1>4 DEF WholeInv

\* A rollback of open transactions.
LEMMA AbortKeeps ==
  ASSUME WholeInv, WarehouseTypeOK', UNCHANGED <<raw, marts>>,
         NEW ts \in SUBSET Transactions, Abort(ts)
  PROVE  WholeInv'
<1>1. MartsOfWholeLoads'
  BY DEF WholeInv, MartsOfWholeLoads
<1>2. /\ \A t \in Transactions : got'[t] = IF t \in ts THEN 0 ELSE got[t]
      /\ \A t \in Builds : seen'[t] = seen[t] \/ (t \in ts /\ seen'[t] = NoData)
  BY DEF Abort, Release
<1>3. ASSUME NEW t \in Transactions \ ts
      PROVE  Open(t)' \/ ~Open(t)
  <2>1. CASE t \in Loads
    <3>1. t[1] \in Pipelines /\ t = <<t[1], "load">> /\ (Open(t) <=> pc[t[1]] = "load")
          /\ (Open(t)' <=> pc'[t[1]] = "load")
      BY <2>1, LoadFacts
    <3>2. pc'[t[1]] = pc[t[1]]
      BY <1>3, <3>1 DEF Abort
    <3> QED
      BY <3>1, <3>2
  <2>2. CASE t \in Builds
    BY <1>3, <2>2, BuildFacts DEF Abort
  <2> QED
    BY <2>1, <2>2 DEF Transactions
<1>4. \A t \in stale \ ts : node'[t] = node[t]
  BY DEF Abort, WholeInv, WarehouseTypeOK
<1>5. stale' = stale \ ts /\ raw' = raw
  BY DEF Abort
<1> QED
  BY <1>1, <1>2, <1>3, <1>4, <1>5, WholeKept

\* The steps that touch neither locks nor tables.
LEMMA QuietKeeps ==
  ASSUME WholeInv, WarehouseTypeOK', UNCHANGED <<raw, marts, lockVars>>,
         \A t \in Transactions : Open(t)' \/ ~Open(t) \/ got[t] = 0,
         \A t \in stale : node'[t] = node[t]
  PROVE  WholeInv'
<1>1. MartsOfWholeLoads'
  BY DEF WholeInv, MartsOfWholeLoads
<1>2. stale' = stale \ {} /\ got' = got /\ seen' = seen /\ {} \in SUBSET Transactions
  BY DEF lockVars
<1> QED
  BY <1>1, <1>2, WholeKept

\* The steps of a pipeline that lock nothing: its start, the wait, a creation
\* that is lost, and staging.
LEMMA PipelineQuietKeeps ==
  ASSUME WholeInv, WarehouseTypeOK', NEW p \in Pipelines,
         \/ StartPipeline(p) \/ StartJob(p) \/ WaitForPostgres(p)
         \/ CreationLost(p) \/ BuildStaging(p) \/ FinishBuild(p)
  PROVE  WholeInv'
<1>1. UNCHANGED <<raw, marts, lockVars, node>>
  BY DEF StartPipeline, StartJob, Begin, WaitForPostgres, CreationLost, BuildStaging,
         FinishBuild, databaseVars
<1>2. /\ \A q \in Pipelines \ {p} : pc'[q] = pc[q]
      /\ pc[p] = "load" => got[<<p, "load">>] = 0
  BY DEF StartPipeline, StartJob, Begin, WaitForPostgres, CreationLost, BuildStaging,
         FinishBuild, Goto, WholeInv, WarehouseTypeOK
<1>3. ASSUME NEW t \in Transactions
      PROVE  Open(t)' \/ ~Open(t) \/ got[t] = 0
  <2>1. CASE t \in Loads
    BY <1>2, <2>1, LoadFacts
  <2>2. CASE t \in Builds
    BY <1>1, <2>2, BuildFacts
  <2> QED
    BY <2>1, <2>2 DEF Transactions
<1> QED
  BY <1>1, <1>3, QuietKeeps

\* Connecting opens the load, with its first lock at most, which no build wants.
LEMMA ConnectKeeps ==
  ASSUME WholeInv, WarehouseTypeOK', NEW p \in Pipelines, Connect(p)
  PROVE  WholeInv'
<1> DEFINE l == <<p, "load">>
<1>0. /\ l \in Loads /\ l \in Transactions /\ l \notin Builds /\ l[1] = p
      /\ Script(l) = LoadScript /\ Len(LoadScript) = 6
      /\ \A t \in Transactions : got[t] \in 0 .. 6
  BY LoadFacts DEF Loads, WholeInv, WarehouseTypeOK
<1> HIDE DEF l
<1>1. /\ UNCHANGED <<raw, marts, node, stale, seen>>
      /\ pc[p] = "connect"
      /\ (pc'[p] = "load" /\ got'[l] \in {0, 1}) \/ (pc'[p] = "failed" /\ got'[l] = 0)
      /\ \A q \in Pipelines \ {p} : pc'[q] = pc[q]
      /\ \A t \in Transactions \ {l} : got'[t] = got[t]
  BY <1>0 DEF Connect, Goto, databaseVars, WholeInv, WarehouseTypeOK, l
<1>2. LocksOfOpen'
  <2>1. ASSUME NEW t \in Transactions
        PROVE  got'[t] <= Len(Script(t)) /\ (~Open(t)' => got'[t] = 0)
    <3>1. CASE t = l
      BY <1>0, <1>1, <3>1, LoadFacts
    <3>2. CASE t # l
      <4>1. got'[t] = got[t] /\ got[t] <= Len(Script(t)) /\ (~Open(t) => got[t] = 0)
        BY <1>1, <3>2 DEF WholeInv, LocksOfOpen
      <4>2. CASE t \in Loads
        <5>1. t[1] # p /\ t[1] \in Pipelines
          BY <3>2, <4>2, LoadFacts DEF l
        <5> QED
          BY <1>1, <4>1, <4>2, <5>1, LoadFacts
      <4>3. CASE t \in Builds
        BY <1>1, <4>1, <4>3, BuildFacts
      <4> QED
        BY <4>2, <4>3 DEF Transactions
    <3> QED
      BY <3>1, <3>2
  <2> QED
    BY <2>1 DEF LocksOfOpen
<1>3. LoadsExcludeBuilds'
  <2>1. ASSUME NEW k \in Loads, NEW t \in Builds, NEW i \in 1 .. got'[k], NEW j \in 1 .. got'[t]
        PROVE  ~Conflict(Script(k)[i], Script(t)[j])
    <3>1. /\ k \in Transactions /\ t \in Transactions /\ t # l /\ got'[t] = got[t]
          /\ got[t] <= Len(Script(t))
      BY <1>0, <1>1, LoadFacts, BuildFacts DEF WholeInv, LocksOfOpen
    <3>2. CASE k = l
      <4>1. i = 1
        BY <1>0, <1>1, <3>2
      <4>2. LoadScript[1] = <<"create", "raw">>
        BY DEF LoadScript
      <4>3. j \in 1 .. Len(Script(t))
        BY <1>0, <3>1, BuildFacts
      <4>4. Script(t)[j][2] \in RawTables
        BY <4>3, BuildFacts
      <4> QED
        BY <1>0, <3>2, <4>1, <4>2, <4>4 DEF Conflict, RawTables
    <3>3. CASE k # l
      BY <1>1, <3>1, <3>3 DEF WholeInv, LoadsExcludeBuilds
    <3> QED
      BY <3>2, <3>3
  <2> QED
    BY <2>1 DEF LoadsExcludeBuilds
<1>4. StaleOpen'
  BY <1>1 DEF WholeInv, StaleOpen
<1>5. SeenAtOnce'
  <2>1. \A t \in Builds : got'[t] = got[t]
    BY <1>0, <1>1, BuildFacts
  <2> QED
    BY <1>1, <2>1 DEF WholeInv, SeenAtOnce
<1>6. MartsOfWholeLoads'
  BY <1>1 DEF WholeInv, MartsOfWholeLoads
<1> QED
  BY <1>2, <1>3, <1>4, <1>5, <1>6 DEF WholeInv

\* A lock is granted only where it conflicts with none.
LEMMA GrantExcludes ==
  ASSUME WholeInv, NEW t \in Transactions, Grantable(t), NEW u \in Transactions, u # t,
         NEW i \in 1 .. got[u]
  PROVE  ~Conflict(Script(u)[i], Script(t)[got[t] + 1])
<1>1. got[u] \in 0 .. 6
  BY DEF WholeInv, WarehouseTypeOK
<1>2. Open(u)
  BY <1>1 DEF WholeInv, LocksOfOpen
<1>3. ~BlockedBy(t, u)
  BY DEF Grantable
<1> QED
  BY <1>2, <1>3 DEF BlockedBy, Wanted

\* A load takes its next lock: no build has one that conflicts.
LEMMA LockForLoadKeeps ==
  ASSUME WholeInv, WarehouseTypeOK', NEW p \in Pipelines, LockForLoad(p)
  PROVE  WholeInv'
<1> DEFINE l == <<p, "load">>
<1>0. /\ l \in Loads /\ l \in Transactions /\ l \notin Builds
      /\ Script(l) = LoadScript /\ Len(LoadScript) = 6
      /\ \A t \in Transactions : got[t] \in 0 .. 6
  BY LoadFacts DEF Loads, WholeInv, WarehouseTypeOK
<1>1. /\ UNCHANGED <<raw, marts, node, stale, seen, pc>>
      /\ Grantable(l) /\ Waits(l) /\ Open(l) /\ got[l] < Len(Script(l))
      /\ got'[l] = got[l] + 1
      /\ \A t \in Transactions \ {l} : got'[t] = got[t]
  BY <1>0 DEF LockForLoad, Grantable, Waits, databaseVars, pipelineVars, WholeInv, WarehouseTypeOK
<1> HIDE DEF l
<1>2. LocksOfOpen'
  <2>1. \A t \in Transactions : Open(t)' <=> Open(t)
    BY <1>1 DEF Open
  <2>2. ASSUME NEW t \in Transactions
        PROVE  got'[t] <= Len(Script(t)) /\ (~Open(t)' => got'[t] = 0)
    <3>1. CASE t = l
      <4>1. got[l] < 6 /\ got[l] \in 0 .. 6
        BY <1>0, <1>1
      <4>2. got'[l] <= 6
        BY <1>1, <4>1
      <4> QED
        BY <1>0, <1>1, <2>1, <3>1, <4>2
    <3>2. CASE t # l
      BY <1>1, <2>1, <3>2 DEF WholeInv, LocksOfOpen
    <3> QED
      BY <3>1, <3>2
  <2> QED
    BY <2>2 DEF LocksOfOpen
<1>3. LoadsExcludeBuilds'
  <2>1. ASSUME NEW k \in Loads, NEW t \in Builds, NEW i \in 1 .. got'[k], NEW j \in 1 .. got'[t]
        PROVE  ~Conflict(Script(k)[i], Script(t)[j])
    <3>1. k \in Transactions /\ t \in Transactions /\ t # l /\ got'[t] = got[t]
      BY <1>0, <1>1, LoadFacts, BuildFacts
    <3>2. CASE k = l /\ i = got[l] + 1
      <4>1. ~Conflict(Script(t)[j], Script(l)[got[l] + 1])
        BY <1>0, <1>1, <3>1, GrantExcludes
      <4> QED
        BY <3>2, <4>1 DEF Conflict
    <3>3. CASE ~(k = l /\ i = got[l] + 1)
      <4>1. i \in 1 .. got[k]
        BY <1>0, <1>1, <3>1, <3>3
      <4> QED
        BY <3>1, <4>1 DEF WholeInv, LoadsExcludeBuilds
    <3> QED
      BY <3>2, <3>3
  <2> QED
    BY <2>1 DEF LoadsExcludeBuilds
<1>4. StaleOpen'
  BY <1>1 DEF WholeInv, StaleOpen
<1>5. SeenAtOnce'
  <2>1. \A t \in Builds : got'[t] = got[t]
    BY <1>0, <1>1, BuildFacts
  <2> QED
    BY <1>1, <2>1 DEF WholeInv, SeenAtOnce
<1>6. MartsOfWholeLoads'
  BY <1>1 DEF WholeInv, MartsOfWholeLoads
<1> QED
  BY <1>2, <1>3, <1>4, <1>5, <1>6 DEF WholeInv

\* A load commits when no build has a lock, so that none has seen anything yet.
LEMMA CommitLoadKeeps ==
  ASSUME WholeInv, WarehouseTypeOK', NEW p \in Pipelines, CommitLoad(p)
  PROVE  WholeInv'
<1> DEFINE l == <<p, "load">>
<1>0. /\ l \in Loads /\ l \in Transactions /\ l[1] = p
      /\ \A t \in Transactions : got[t] \in 0 .. 6
  BY LoadFacts DEF Loads, WholeInv, WarehouseTypeOK
<1>1. /\ raw' = Data /\ UNCHANGED <<marts, node>>
      /\ got[l] = 6
      /\ stale' = stale \cup {t \in Builds : Open(t)}
      /\ \A q \in Pipelines \ {p} : pc'[q] = pc[q]
      /\ \A t \in Transactions : got'[t] = IF t = l THEN 0 ELSE got[t]
      /\ \A t \in Builds : seen'[t] = IF t = l THEN NoData ELSE seen[t]
  BY <1>0, LoadFacts DEF CommitLoad, Goto, Release, WholeInv, WarehouseTypeOK
<1> HIDE DEF l
<1>2. \A t \in Builds : t # l /\ t \in Transactions /\ got'[t] = 0 /\ seen'[t] = seen[t]
  BY <1>0, <1>1, CommitExcludes, LoadFacts, BuildFacts
<1>3. LocksOfOpen'
  <2>1. ASSUME NEW t \in Transactions
        PROVE  got'[t] <= Len(Script(t)) /\ (~Open(t)' => got'[t] = 0)
    <3>1. CASE t = l \/ t \in Builds
      <4>1. got'[t] = 0 /\ Len(Script(t)) >= 0
        BY <1>1, <1>2, <3>1, <1>0, LoadFacts, BuildFacts
      <4> QED
        BY <4>1
    <3>2. CASE t # l /\ t \in Loads
      <4>1. t[1] # p /\ t[1] \in Pipelines
        BY <3>2, LoadFacts DEF l
      <4> QED
        BY <1>1, <3>2, <4>1, LoadFacts DEF WholeInv, LocksOfOpen
    <3> QED
      BY <3>1, <3>2 DEF Transactions
  <2> QED
    BY <2>1 DEF LocksOfOpen
<1>4. LoadsExcludeBuilds'
  <2>1. \A t \in Builds : 1 .. got'[t] = {}
    BY <1>2
  <2> QED
    BY <2>1 DEF LoadsExcludeBuilds
<1>5. StaleOpen'
  BY <1>1, BuildFacts DEF WholeInv, StaleOpen
<1>6. SeenAtOnce'
  <2>1. \A t \in Builds : 1 .. got'[t] = {}
    BY <1>2
  <2> QED
    BY <1>2, <2>1 DEF WholeInv, SeenAtOnce
<1>7. MartsOfWholeLoads'
  BY <1>1 DEF WholeInv, MartsOfWholeLoads
<1> QED
  BY <1>3, <1>4, <1>5, <1>6, <1>7 DEF WholeInv

\* A build begins with a fresh snapshot and no lock.
LEMMA BeginBuildKeeps ==
  ASSUME WholeInv, WarehouseTypeOK', NEW t \in Builds, BeginBuild(t)
  PROVE  WholeInv'
<1>1. /\ UNCHANGED <<raw, marts, pc, got, seen>>
      /\ node[t] = "todo" /\ stale' = stale \ {t}
      /\ node' = [node EXCEPT ![t] = "build"] /\ node'[t] = "build"
  BY DEF BeginBuild, SetNode, databaseVars, WholeInv, WarehouseTypeOK
<1>2. t \in Transactions /\ got[t] = 0
  BY <1>1, BuildFacts DEF WholeInv, LocksOfOpen
<1>3. MartsOfWholeLoads'
  BY <1>1 DEF WholeInv, MartsOfWholeLoads
<1>4. \A u \in Transactions : Open(u)' \/ ~Open(u)
  <2>1. \A u \in Loads : Open(u)' <=> Open(u)
    BY <1>1, LoadFacts
  <2>2. \A u \in Builds : node'[u] = node[u] \/ node'[u] = "build"
    BY <1>1 DEF WholeInv, WarehouseTypeOK
  <2> QED
    BY <2>1, <2>2, BuildFacts DEF Transactions
<1>5. \A u \in stale \ {t} : node'[u] = node[u]
  BY <1>1 DEF WholeInv, WarehouseTypeOK
<1>6. {t} \in SUBSET Transactions
  BY <1>2
<1>7. \A u \in Transactions : got'[u] = IF u \in {t} THEN 0 ELSE got[u]
  BY <1>1, <1>2
<1> QED
  BY <1>1, <1>3, <1>4, <1>5, <1>6, <1>7, WholeKept

\* A build takes its next lock and finds in the table what it would find in
\* those it has locked before.
LEMMA LockForBuildKeeps ==
  ASSUME WholeInv, WarehouseTypeOK', NEW t \in Builds, LockForBuild(t)
  PROVE  WholeInv'
<1> DEFINE table == Wanted(t)[2]
<1>0. t \in Transactions /\ t \notin Loads /\ \A u \in Transactions : got[u] \in 0 .. 6
  BY BuildFacts DEF WholeInv, WarehouseTypeOK
<1>1. /\ UNCHANGED <<raw, marts, node, stale, pc>>
      /\ Grantable(t) /\ Open(t) /\ got[t] < Len(Script(t))
      /\ got'[t] = got[t] + 1
      /\ \A u \in Transactions \ {t} : got'[u] = got[u]
      /\ \A u \in Builds \ {t} : seen'[u] = seen[u]
      /\ seen'[t] = [seen[t] EXCEPT ![table] = IF t \in stale THEN {} ELSE raw[table]]
  BY <1>0 DEF LockForBuild, Grantable, Waits, databaseVars, pipelineVars, WholeInv, WarehouseTypeOK
<1>2. PICK n \in 1 .. 3 : n = Len(Script(t))
  BY BuildFacts
<1>3. got[t] + 1 \in 1 .. Len(Script(t)) /\ got'[t] <= Len(Script(t))
  BY <1>0, <1>1, <1>2
<1>4. table \in RawTables /\ table = Script(t)[got[t] + 1][2]
  BY <1>3, BuildFacts DEF Wanted
<1> HIDE DEF table
<1>5. LocksOfOpen'
  <2>1. \A u \in Transactions : Open(u)' <=> Open(u)
    BY <1>1 DEF Open
  <2>2. \A u \in Transactions : got'[u] <= Len(Script(u)) /\ (~Open(u)' => got'[u] = 0)
    BY <1>1, <1>3, <2>1 DEF WholeInv, LocksOfOpen
  <2> QED
    BY <2>2 DEF LocksOfOpen
<1>6. LoadsExcludeBuilds'
  <2>1. ASSUME NEW l \in Loads, NEW u \in Builds, NEW i \in 1 .. got'[l], NEW j \in 1 .. got'[u]
        PROVE  ~Conflict(Script(l)[i], Script(u)[j])
    <3>1. l \in Transactions /\ u \in Transactions /\ l # t /\ got'[l] = got[l]
      BY <1>0, <1>1, LoadFacts, BuildFacts
    <3>2. CASE u = t /\ j = got[t] + 1
      BY <1>0, <1>1, <3>1, <3>2, GrantExcludes
    <3>3. CASE ~(u = t /\ j = got[t] + 1)
      <4>1. j \in 1 .. got[u]
        BY <1>0, <1>1, <3>1, <3>3
      <4> QED
        BY <3>1, <4>1 DEF WholeInv, LoadsExcludeBuilds
    <3> QED
      BY <3>2, <3>3
  <2> QED
    BY <2>1 DEF LoadsExcludeBuilds
<1>7. StaleOpen'
  BY <1>1 DEF WholeInv, StaleOpen
<1>8. SeenAtOnce'
  <2>1. ASSUME NEW u \in Builds
        PROVE  /\ DOMAIN seen'[u] = RawTables
               /\ \A i \in 1 .. got'[u] :
                    seen'[u][Script(u)[i][2]]
                      = IF u \in stale THEN {} ELSE raw[Script(u)[i][2]]
    <3>1. CASE u # t
      <4>1. got'[u] = got[u] /\ seen'[u] = seen[u]
        BY <1>1, <2>1, <3>1, BuildFacts
      <4> QED
        BY <4>1 DEF WholeInv, SeenAtOnce
    <3>2. CASE u = t
      <4>1. DOMAIN seen[t] = RawTables
        BY DEF WholeInv, SeenAtOnce
      <4>2. /\ DOMAIN seen'[t] = RawTables
            /\ seen'[t][table] = IF t \in stale THEN {} ELSE raw[table]
            /\ \A x \in RawTables \ {table} : seen'[t][x] = seen[t][x]
        BY <1>1, <1>4, <4>1
      <4>3. ASSUME NEW i \in 1 .. got'[t]
            PROVE  seen'[t][Script(t)[i][2]]
                      = IF t \in stale THEN {} ELSE raw[Script(t)[i][2]]
        <5>1. Script(t)[i][2] \in RawTables
          <6>1. i \in 1 .. Len(Script(t))
            BY <1>0, <1>1, <1>2
          <6> QED
            BY <6>1, BuildFacts
        <5>2. CASE Script(t)[i][2] = table
          BY <4>2, <5>2
        <5>3. CASE Script(t)[i][2] # table
          <6>1. i \in 1 .. got[t]
            BY <1>0, <1>1, <1>4, <5>3
          <6> QED
            BY <4>2, <5>1, <5>3, <6>1 DEF WholeInv, SeenAtOnce
        <5> QED
          BY <5>2, <5>3
      <4> QED
        BY <3>2, <4>2, <4>3
    <3> QED
      BY <3>1, <3>2
  <2> QED
    BY <1>1, <2>1 DEF SeenAtOnce
<1>9. MartsOfWholeLoads'
  BY <1>1 DEF WholeInv, MartsOfWholeLoads
<1> QED
  BY <1>5, <1>6, <1>7, <1>8, <1>9 DEF WholeInv

\* What a build commits, it computed from whole tables.
LEMMA CommitBuildKeeps ==
  ASSUME WholeInv, WarehouseTypeOK', NEW t \in Builds, CommitBuild(t)
  PROVE  WholeInv'
<1>1. /\ UNCHANGED <<raw, pc>> /\ stale' = stale \ {t}
      /\ \A u \in Builds \ {t} : node'[u] = node[u]
      /\ node[t] = "build" /\ ~Waits(t)
      /\ \A u \in Transactions : got'[u] = IF u \in {t} THEN 0 ELSE got[u]
      /\ \A u \in Builds : seen'[u] = IF u \in {t} THEN NoData ELSE seen[u]
      /\ marts' = [m \in DOMAIN marts \cup {t[2]} |->
                     IF m = t[2] THEN MartOf(m, seen[t]) ELSE marts[m]]
  BY DEF CommitBuild, SetNode, Release, WholeInv, WarehouseTypeOK
<1>2. t \in Transactions /\ {t} \in SUBSET Transactions /\ Open(t)
  BY <1>1, BuildFacts
<1>3. got[t] = Len(Script(t))
  <2>1. PICK n \in 1 .. 3 : n = Len(Script(t))
    BY BuildFacts
  <2>2. got[t] \in 0 .. 6 /\ got[t] <= Len(Script(t)) /\ ~(got[t] < Len(Script(t)))
    BY <1>1, <1>2 DEF WholeInv, WarehouseTypeOK, LocksOfOpen, Waits
  <2> QED
    BY <2>1, <2>2
<1>4. MartOf(t[2], seen[t]) = MartOf(t[2], IF t \in stale THEN NoData ELSE raw)
  BY <1>3, BuildsFromWhole
<1>5. MartsOfWholeLoads'
  <2>1. raw \in {NoData, Data} /\ \A m \in DOMAIN marts : marts[m] \in {MartOf(m, NoData), MartOf(m, Data)}
    BY DEF WholeInv, MartsOfWholeLoads
  <2>2. MartOf(t[2], seen[t]) \in {MartOf(t[2], NoData), MartOf(t[2], Data)}
    BY <1>4, <2>1
  <2>3. \A m \in DOMAIN marts' : marts'[m] \in {MartOf(m, NoData), MartOf(m, Data)}
    BY <1>1, <2>1, <2>2
  <2> QED
    BY <1>1, <2>1, <2>3 DEF MartsOfWholeLoads
<1>6. ASSUME NEW u \in Transactions \ {t}
      PROVE  Open(u)' \/ ~Open(u)
  <2>1. CASE u \in Loads
    BY <1>1, <2>1, LoadFacts
  <2>2. CASE u \in Builds
    BY <1>1, <1>6, <2>2, BuildFacts
  <2> QED
    BY <2>1, <2>2 DEF Transactions
<1>7. \A u \in stale \ {t} : node'[u] = node[u]
  BY <1>1 DEF WholeInv, WarehouseTypeOK
<1>8. \A u \in Builds : seen'[u] = seen[u] \/ (u \in {t} /\ seen'[u] = NoData)
  BY <1>1
<1> QED
  BY <1>1, <1>2, <1>5, <1>6, <1>7, <1>8, WholeKept

\* A test, or a connection that fails, touches the node alone.
LEMMA NodeKeeps ==
  ASSUME WholeInv, WarehouseTypeOK', NEW t \in Builds, TestMart(t) \/ NodeUnreachable(t)
  PROVE  WholeInv'
<1>1. /\ UNCHANGED <<raw, marts, lockVars, pc>>
      /\ node[t] \in {"todo", "test"}
      /\ \A u \in Builds \ {t} : node'[u] = node[u]
  BY DEF TestMart, NodeUnreachable, SetNode, databaseVars, WholeInv, WarehouseTypeOK
<1>2. ~Open(t)
  BY <1>1, BuildFacts
<1>3. ASSUME NEW u \in Transactions
      PROVE  Open(u)' \/ ~Open(u)
  <2>1. CASE u \in Loads
    BY <1>1, <2>1, LoadFacts
  <2>2. CASE u \in Builds
    BY <1>1, <1>2, <2>2, BuildFacts
  <2> QED
    BY <2>1, <2>2 DEF Transactions
<1>4. \A u \in stale : node'[u] = node[u]
  BY <1>1 DEF WholeInv, StaleOpen, WarehouseTypeOK
<1> QED
  BY <1>1, <1>3, <1>4, QuietKeeps

\* Deadlocks, failures, outages and restarts only roll back.
LEMMA PostgresKeeps ==
  ASSUME WholeInv, WarehouseTypeOK',
         DeadlockDetected \/ TransactionFails \/ Outage \/ PostgresStarts \/ UNCHANGED vars
  PROVE  WholeInv'
<1>1. CASE DeadlockDetected \/ TransactionFails \/ Outage
  <2>1. PICK ts \in SUBSET Transactions : Abort(ts)
    <3>1. CASE DeadlockDetected
      <4>1. PICK victim \in Transactions : Abort({victim})
        BY <3>1 DEF DeadlockDetected
      <4> QED
        BY <4>1
    <3>2. CASE TransactionFails
      <4>1. PICK t \in Transactions : Abort({t})
        BY <3>2 DEF TransactionFails
      <4> QED
        BY <4>1
    <3>3. CASE Outage
      <4>1. Abort({t \in Transactions : Open(t)})
        BY <3>3 DEF Outage
      <4>2. {t \in Transactions : Open(t)} \in SUBSET Transactions
        OBVIOUS
      <4> QED
        BY <4>1, <4>2
    <3> QED
      BY <1>1, <3>1, <3>2, <3>3
  <2>2. UNCHANGED <<raw, marts>>
    BY <1>1 DEF DeadlockDetected, TransactionFails, Outage, databaseVars
  <2> QED
    BY <2>1, <2>2, AbortKeeps
<1>2. CASE PostgresStarts \/ UNCHANGED vars
  <2>1. UNCHANGED <<raw, marts, lockVars, pc, node>>
    BY <1>2 DEF PostgresStarts, vars, pipelineVars, databaseVars
  <2>2. \A t \in Transactions : Open(t)' \/ ~Open(t)
    BY <2>1 DEF Open
  <2> QED
    BY <2>1, <2>2, QuietKeeps
<1> QED
  BY <1>1, <1>2

\* Every step keeps the invariant.
LEMMA StepKeeps ==
  ASSUME WholeInv, [Next]_vars
  PROVE  WholeInv'
<1>1. ASSUME NEW p \in Pipelines, StartPipeline(p) \/ StartJob(p) \/ Step(p)
      PROVE  WholeInv'
  <2>0. WarehouseTypeOK
    BY DEF WholeInv
  <2>1. CASE ~\E m \in Models : BuildStep(<<p, m>>)
    <3>1. WarehouseTypeOK'
      BY <1>1, <2>0, <2>1, PipelineStepType DEF Step
    <3> QED
      BY <1>1, <2>1, <3>1, PipelineQuietKeeps, ConnectKeeps, LockForLoadKeeps, CommitLoadKeeps
         DEF Step
  <2>2. CASE \E m \in Models : BuildStep(<<p, m>>)
    <3>1. PICK t \in Builds : BuildStep(t)
      BY <2>2 DEF Builds
    <3>2. WarehouseTypeOK'
      BY <2>0, <3>1, BuildStepType
    <3> QED
      BY <3>1, <3>2, BeginBuildKeeps, LockForBuildKeeps, CommitBuildKeeps, NodeKeeps DEF BuildStep
  <2> QED
    BY <2>1, <2>2
<1>2. ASSUME DeadlockDetected \/ TransactionFails \/ Outage \/ PostgresStarts \/ UNCHANGED vars
      PROVE  WholeInv'
  BY <1>2, PostgresType, PostgresKeeps DEF WholeInv
<1> QED
  BY <1>1, <1>2 DEF Next

\* The invariant holds at the start, in an empty warehouse and in a loaded one.
LEMMA WarehouseStarts == Init => WholeInv
<1> SUFFICES ASSUME Init PROVE WholeInv
  OBVIOUS
<1>1. WarehouseTypeOK
  <2>1. {up, created} \subseteq BOOLEAN
    BY DEF Init
  <2>2. DOMAIN marts \subseteq Models
    BY DEF Init, NoMarts
  <2>3. /\ pc \in [Pipelines -> {"idle", "wait", "connect", "load", "staging", "build"} \cup Ended]
        /\ node \in [Builds -> {"todo", "build", "test", "done", "failed"}]
        /\ got \in [Transactions -> 0 .. 6]
    BY DEF Init
  <2>4. attempts \in [Pipelines -> 0 .. WaitAttempts] /\ faults \in 0 .. MaxFaults
    BY WarehouseAssumption DEF Init
  <2>5. stale \subseteq Builds /\ DOMAIN seen = Builds /\ overlapped \subseteq Pipelines
    BY DEF Init
  <2> QED
    BY <2>1, <2>2, <2>3, <2>4, <2>5 DEF WarehouseTypeOK
<1>2. /\ \A t \in Transactions : got[t] = 0
      /\ \A t \in Builds : seen[t] = NoData
      /\ stale = {}
      /\ Loads \subseteq Transactions /\ Builds \subseteq Transactions
  BY DEF Init, Transactions
<1>3. LocksOfOpen
  <2>1. \A t \in Transactions : Len(Script(t)) >= 0
    BY LoadFacts, BuildFacts DEF Transactions
  <2> QED
    BY <1>2, <2>1 DEF LocksOfOpen
<1>4. LoadsExcludeBuilds /\ StaleOpen
  BY <1>2 DEF LoadsExcludeBuilds, StaleOpen
<1>5. SeenAtOnce
  <2>1. DOMAIN NoData = RawTables
    BY DEF NoData, RawTables
  <2> QED
    BY <1>2, <2>1 DEF SeenAtOnce
<1>6. MartsOfWholeLoads
  <2>1. CASE raw = NoData /\ marts = NoMarts
    BY <2>1 DEF MartsOfWholeLoads, NoMarts
  <2>2. CASE raw = Data /\ marts = [m \in Models |-> MartOf(m, Data)]
    BY <2>2 DEF MartsOfWholeLoads
  <2> QED
    BY <2>1, <2>2 DEF Init
<1> QED
  BY <1>1, <1>3, <1>4, <1>5, <1>6 DEF WholeInv

\* The locks do what they are for in every execution.
THEOREM WholeHolds == Spec => []WholeInv
<1>1. WholeInv /\ [Next]_vars => WholeInv'
  BY StepKeeps
<1> QED
  BY <1>1, WarehouseStarts, PTL DEF Spec

\* Tables, marts, pipelines and locks keep their types.
THEOREM WarehouseTyped == Spec => []WarehouseTypeOK
<1>1. WholeInv => WarehouseTypeOK
  BY DEF WholeInv
<1> QED
  BY <1>1, WholeHolds, PTL

\* However many pipelines overlap, deadlock and fail, no mart mixes two states
\* of the raw tables.
THEOREM MartsAreOfWholeLoads == Spec => []MartsOfWholeLoads
<1>1. WholeInv => MartsOfWholeLoads
  BY DEF WholeInv
<1> QED
  BY <1>1, WholeHolds, PTL

-----------------------------------------------------------------------------
(* A pipeline alone *)

\* What keeps the second half of the invariant when no table changes: no
\* pipeline that had ended or not begun becomes active, nodes only go on.
LEMMA AloneKept ==
  ASSUME WholeInv, NodesFollow, AloneInv, WarehouseTypeOK',
         UNCHANGED <<raw, marts, overlapped>>,
         \A p \in Pipelines :
           Active(p)' => Active(p) /\ (pc'[p] \in {"staging", "build"} =>
                                         pc[p] \in {"staging", "build"} \/ raw = Data),
         \A t \in Builds : t \in stale' => t \in stale,
         \A t \in Builds : node'[t] = node[t] \/ node'[t] \in {"todo", "build", "failed"}
                             \/ node[t] = "test"
  PROVE  AloneInv'
<1> SUFFICES ASSUME NEW p \in Pipelines \ overlapped, Active(p)'
             PROVE  /\ \A q \in Pipelines \ {p} : ~Active(q)'
                    /\ pc'[p] \in {"staging", "build"} => raw = Data
                    /\ \A m \in Models :
                         /\ <<p, m>> \notin stale'
                         /\ node'[<<p, m>>] \in {"test", "done"} =>
                              m \in DOMAIN marts /\ marts[m] = MartOf(m, Data)
  BY DEF AloneInv
<1>1. Active(p) /\ \A q \in Pipelines \ {p} : ~Active(q)
  BY DEF AloneInv
<1>2. \A q \in Pipelines \ {p} : ~Active(q)'
  BY <1>1
<1>3. pc'[p] \in {"staging", "build"} => raw = Data
  BY <1>1 DEF AloneInv
<1>4. ASSUME NEW m \in Models
      PROVE  /\ <<p, m>> \notin stale'
             /\ node'[<<p, m>>] \in {"test", "done"} =>
                  m \in DOMAIN marts /\ marts[m] = MartOf(m, Data)
  <2>1. <<p, m>> \in Builds
    BY DEF Builds
  <2>2. /\ <<p, m>> \notin stale
        /\ node[<<p, m>>] \in {"test", "done"} =>
             m \in DOMAIN marts /\ marts[m] = MartOf(m, Data)
    BY <1>1 DEF AloneInv
  <2> QED
    BY <2>1, <2>2
<1> QED
  BY <1>2, <1>3, <1>4

\* The steps of a pipeline between its start and dbt build, but for the commit.
LEMMA PipelineAlone ==
  ASSUME PipelineInv, WarehouseTypeOK', NEW p \in Pipelines,
         \/ WaitForPostgres(p) \/ Connect(p) \/ LockForLoad(p) \/ CreationLost(p)
         \/ BuildStaging(p) \/ FinishBuild(p)
  PROVE  NodesFollow' /\ AloneInv'
<1>1. UNCHANGED <<raw, marts, overlapped, node, stale>>
  BY DEF WaitForPostgres, Connect, LockForLoad, CreationLost, BuildStaging, FinishBuild,
         databaseVars, pipelineVars, lockVars
<1>2. pc \in [Pipelines -> {"idle", "wait", "connect", "load", "staging", "build"} \cup Ended]
  BY DEF PipelineInv, WholeInv, WarehouseTypeOK
<1>3. \A q \in Pipelines \ {p} : pc'[q] = pc[q]
  BY <1>2 DEF WaitForPostgres, Connect, LockForLoad, CreationLost, BuildStaging, FinishBuild,
              Goto, pipelineVars
<1>4. \/ pc'[p] = pc[p]
      \/ pc[p] \in {"wait", "connect", "load"} /\ pc'[p] \in {"connect", "load", "failed"}
      \/ pc[p] = "staging" /\ pc'[p] \in {"build", "failed"}
      \/ /\ pc[p] = "build" /\ pc'[p] \in {"success", "failed"}
         /\ \A m \in Models : node[<<p, m>>] \in {"done", "failed"}
  BY <1>2 DEF WaitForPostgres, Connect, LockForLoad, CreationLost, BuildStaging, FinishBuild,
              Goto, pipelineVars
<1>5. NodesFollow'
  <2>1. ASSUME NEW t \in Builds
        PROVE  /\ node[t] # "todo" => pc'[t[1]] \in {"build"} \cup Ended
               /\ node[t] = "build" => pc'[t[1]] = "build"
    <3>1. /\ node[t] # "todo" => pc[t[1]] \in {"build"} \cup Ended
          /\ node[t] = "build" => pc[t[1]] = "build"
      BY DEF PipelineInv, NodesFollow
    <3>2. CASE t[1] # p
      BY <1>3, <3>1, <3>2, BuildFacts
    <3>3. CASE t[1] = p
      <4>1. t = <<p, t[2]>> /\ t[2] \in Models
        BY <3>3, BuildFacts
      <4> QED
        BY <1>4, <3>1, <3>3, <4>1 DEF Ended
    <3> QED
      BY <3>2, <3>3
  <2> QED
    BY <1>1, <2>1 DEF NodesFollow
<1>6. \A q \in Pipelines :
        Active(q)' => Active(q) /\ (pc'[q] \in {"staging", "build"} =>
                                      pc[q] \in {"staging", "build"} \/ raw = Data)
  <2>1. ASSUME NEW q \in Pipelines, q # p, Active(q)'
        PROVE  Active(q) /\ (pc'[q] \in {"staging", "build"} => pc[q] \in {"staging", "build"})
    BY <1>3, <2>1 DEF Active
  <2>2. ASSUME Active(p)'
        PROVE  Active(p) /\ (pc'[p] \in {"staging", "build"} => pc[p] \in {"staging", "build"})
    BY <1>4, <2>2 DEF Active, Ended
  <2> QED
    BY <2>1, <2>2
<1>7. /\ \A t \in Builds : t \in stale' => t \in stale
      /\ \A t \in Builds : node'[t] = node[t] \/ node'[t] \in {"todo", "build", "failed"}
                             \/ node[t] = "test"
  BY <1>1
<1>8. AloneInv'
  BY <1>1, <1>6, <1>7, AloneKept DEF PipelineInv
<1> QED
  BY <1>5, <1>8

\* A pipeline that begins next to another is not alone, nor is the other.
LEMMA BeginAlone ==
  ASSUME PipelineInv, NEW p \in Pipelines, StartPipeline(p) \/ StartJob(p)
  PROVE  NodesFollow' /\ AloneInv'
<1>1. /\ UNCHANGED <<raw, marts, node, stale>>
      /\ pc[p] = "idle" /\ pc'[p] \in {"wait", "connect"}
      /\ \A q \in Pipelines \ {p} : pc'[q] = pc[q]
      /\ overlapped \subseteq overlapped'
      /\ {q \in Pipelines : Active(q)} \subseteq overlapped'
      /\ {q \in Pipelines : Active(q)} # {} => p \in overlapped'
  BY DEF StartPipeline, StartJob, Begin, Goto, databaseVars, lockVars,
         PipelineInv, WholeInv, WarehouseTypeOK
<1>2. \A t \in Builds : t[1] = p => node[t] = "todo"
  BY <1>1 DEF PipelineInv, NodesFollow, Ended
<1>3. NodesFollow'
  <2>1. ASSUME NEW t \in Builds
        PROVE  /\ node[t] # "todo" => pc'[t[1]] \in {"build"} \cup Ended
               /\ node[t] = "build" => pc'[t[1]] = "build"
    <3>1. CASE t[1] = p
      BY <1>2, <3>1
    <3>2. CASE t[1] # p
      BY <1>1, <3>2, BuildFacts DEF PipelineInv, NodesFollow
    <3> QED
      BY <3>1, <3>2
  <2> QED
    BY <1>1, <2>1 DEF NodesFollow
<1>4. AloneInv'
  <2> SUFFICES ASSUME NEW q \in Pipelines \ overlapped', Active(q)'
               PROVE  /\ \A r \in Pipelines \ {q} : ~Active(r)'
                      /\ pc'[q] \in {"staging", "build"} => raw' = Data
                      /\ \A m \in Models :
                           /\ <<q, m>> \notin stale'
                           /\ node'[<<q, m>>] \in {"test", "done"} =>
                                m \in DOMAIN marts' /\ marts'[m] = MartOf(m, Data)
    BY DEF AloneInv
  <2>1. q = p
    <3>1. CASE q # p
      <4>1. Active(q)
        BY <1>1, <3>1 DEF Active
      <4> QED
        BY <1>1, <4>1
    <3> QED
      BY <3>1
  <2>2. \A r \in Pipelines : ~Active(r)
    BY <1>1, <2>1
  <2>3. \A r \in Pipelines \ {q} : ~Active(r)'
    BY <1>1, <2>1, <2>2 DEF Active
  <2>4. ASSUME NEW m \in Models
        PROVE  <<q, m>> \notin stale' /\ node'[<<q, m>>] = "todo"
    <3>1. <<q, m>> \in Builds /\ <<q, m>>[1] = p
      BY <2>1 DEF Builds
    <3>2. node[<<q, m>>] = "todo"
      BY <1>2, <3>1
    <3> QED
      BY <1>1, <3>2 DEF PipelineInv, WholeInv, StaleOpen
  <2> QED
    BY <1>1, <2>1, <2>3, <2>4
<1> QED
  BY <1>3, <1>4

\* Its own load leaves a lone pipeline with the data, and with nothing built.
LEMMA CommitLoadAlone ==
  ASSUME PipelineInv, NEW p \in Pipelines, CommitLoad(p)
  PROVE  NodesFollow' /\ AloneInv'
<1>1. /\ UNCHANGED <<marts, node, overlapped>> /\ raw' = Data
      /\ pc[p] = "load" /\ pc'[p] = "staging"
      /\ \A q \in Pipelines \ {p} : pc'[q] = pc[q]
      /\ stale' = stale \cup {t \in Builds : Open(t)}
  BY DEF CommitLoad, Goto, PipelineInv, WholeInv, WarehouseTypeOK
<1>2. \A t \in Builds : t[1] = p => node[t] = "todo"
  BY <1>1 DEF PipelineInv, NodesFollow, Ended
<1>3. NodesFollow'
  <2>1. ASSUME NEW t \in Builds
        PROVE  /\ node[t] # "todo" => pc'[t[1]] \in {"build"} \cup Ended
               /\ node[t] = "build" => pc'[t[1]] = "build"
    <3>1. CASE t[1] = p
      BY <1>2, <3>1
    <3>2. CASE t[1] # p
      BY <1>1, <3>2, BuildFacts DEF PipelineInv, NodesFollow
    <3> QED
      BY <3>1, <3>2
  <2> QED
    BY <1>1, <2>1 DEF NodesFollow
<1>4. AloneInv'
  <2> SUFFICES ASSUME NEW q \in Pipelines \ overlapped, Active(q)'
               PROVE  /\ \A r \in Pipelines \ {q} : ~Active(r)'
                      /\ \A m \in Models :
                           /\ <<q, m>> \notin stale'
                           /\ node'[<<q, m>>] \in {"test", "done"} =>
                                m \in DOMAIN marts' /\ marts'[m] = MartOf(m, Data)
    BY <1>1 DEF AloneInv
  <2>1. Active(p) /\ Active(q)
    <3>1. Active(p)
      BY <1>1 DEF Active, Ended
    <3> QED
      BY <1>1, <3>1 DEF Active
  <2>2. \A r \in Pipelines \ {q} : ~Active(r)
    BY <2>1 DEF PipelineInv, AloneInv
  <2>3. q = p
    BY <2>1, <2>2
  <2>4. \A r \in Pipelines \ {q} : ~Active(r)'
    BY <1>1, <2>2, <2>3 DEF Active
  <2>5. ASSUME NEW m \in Models
        PROVE  <<q, m>> \notin stale' /\ node'[<<q, m>>] = "todo"
    <3>1. <<q, m>> \in Builds /\ <<q, m>>[1] = p
      BY <2>3 DEF Builds
    <3>2. node[<<q, m>>] = "todo"
      BY <1>2, <3>1
    <3>3. ~Open(<<q, m>>)
      BY <3>1, <3>2, BuildFacts
    <3>4. <<q, m>> \notin stale
      BY <3>2 DEF PipelineInv, WholeInv, StaleOpen
    <3> QED
      BY <1>1, <3>2, <3>3, <3>4
  <2> QED
    BY <2>4, <2>5
<1> QED
  BY <1>3, <1>4

\* The steps of a node before and after its build commits.
LEMMA NodeAlone ==
  ASSUME PipelineInv, WarehouseTypeOK', NEW t \in Builds,
         BeginBuild(t) \/ LockForBuild(t) \/ TestMart(t) \/ NodeUnreachable(t)
  PROVE  NodesFollow' /\ AloneInv'
<1>1. /\ UNCHANGED <<raw, marts, overlapped, pc>>
      /\ stale' \subseteq stale
      /\ \A u \in Builds \ {t} : node'[u] = node[u]
      /\ \/ node'[t] = node[t]
         \/ node[t] = "todo" /\ node'[t] = "build" /\ pc[t[1]] = "build"
         \/ node[t] = "test" /\ node'[t] \in {"done", "failed"}
         \/ node[t] = "todo" /\ node'[t] = "failed" /\ pc[t[1]] = "build"
  BY DEF BeginBuild, LockForBuild, TestMart, NodeUnreachable, SetNode, databaseVars,
         pipelineVars, lockVars, PipelineInv, WholeInv, WarehouseTypeOK
<1>2. NodesFollow'
  <2>1. ASSUME NEW u \in Builds
        PROVE  /\ node'[u] # "todo" => pc[u[1]] \in {"build"} \cup Ended
               /\ node'[u] = "build" => pc[u[1]] = "build"
    <3>1. /\ node[u] # "todo" => pc[u[1]] \in {"build"} \cup Ended
          /\ node[u] = "build" => pc[u[1]] = "build"
      BY DEF PipelineInv, NodesFollow
    <3>2. CASE u = t
      BY <1>1, <3>1, <3>2
    <3>3. CASE u # t
      BY <1>1, <3>1, <3>3
    <3> QED
      BY <3>2, <3>3
  <2> QED
    BY <1>1, <2>1 DEF NodesFollow
<1>3. /\ \A p \in Pipelines :
           Active(p)' => Active(p) /\ (pc'[p] \in {"staging", "build"} =>
                                         pc[p] \in {"staging", "build"} \/ raw = Data)
      /\ \A u \in Builds : u \in stale' => u \in stale
  BY <1>1 DEF Active
<1>4. \A u \in Builds : node'[u] = node[u] \/ node'[u] \in {"todo", "build", "failed"}
                          \/ node[u] = "test"
  BY <1>1
<1>5. AloneInv'
  BY <1>1, <1>3, <1>4, AloneKept DEF PipelineInv
<1> QED
  BY <1>2, <1>5

\* A lone pipeline builds its marts from the data.
LEMMA CommitBuildAlone ==
  ASSUME PipelineInv, NEW t \in Builds, CommitBuild(t)
  PROVE  NodesFollow' /\ AloneInv'
<1>1. /\ UNCHANGED <<raw, pc, overlapped>> /\ stale' = stale \ {t}
      /\ \A u \in Builds \ {t} : node'[u] = node[u]
      /\ node[t] = "build" /\ node'[t] = "test" /\ ~Waits(t)
      /\ marts' = [m \in DOMAIN marts \cup {t[2]} |->
                     IF m = t[2] THEN MartOf(m, seen[t]) ELSE marts[m]]
  BY DEF CommitBuild, SetNode, PipelineInv, WholeInv, WarehouseTypeOK
<1>2. t[1] \in Pipelines /\ t[2] \in Models /\ t = <<t[1], t[2]>> /\ pc[t[1]] = "build" /\ Open(t)
  BY <1>1, BuildFacts DEF PipelineInv, NodesFollow
<1>3. NodesFollow'
  <2>1. ASSUME NEW u \in Builds
        PROVE  /\ node'[u] # "todo" => pc[u[1]] \in {"build"} \cup Ended
               /\ node'[u] = "build" => pc[u[1]] = "build"
    <3>1. /\ node[u] # "todo" => pc[u[1]] \in {"build"} \cup Ended
          /\ node[u] = "build" => pc[u[1]] = "build"
      BY DEF PipelineInv, NodesFollow
    <3>2. CASE u = t
      BY <1>1, <1>2, <3>2
    <3>3. CASE u # t
      BY <1>1, <3>1, <3>3
    <3> QED
      BY <3>2, <3>3
  <2> QED
    BY <1>1, <2>1 DEF NodesFollow
<1>4. got[t] = Len(Script(t))
  <2>1. PICK n \in 1 .. 3 : n = Len(Script(t))
    BY BuildFacts
  <2>2. t \in Transactions
    BY BuildFacts
  <2>3. got[t] \in 0 .. 6 /\ got[t] <= Len(Script(t)) /\ ~(got[t] < Len(Script(t)))
    BY <1>1, <1>2, <2>2 DEF PipelineInv, WholeInv, WarehouseTypeOK, LocksOfOpen, Waits
  <2> QED
    BY <2>1, <2>3
<1>5. MartOf(t[2], seen[t]) = MartOf(t[2], IF t \in stale THEN NoData ELSE raw)
  BY <1>4, BuildsFromWhole DEF PipelineInv
<1>6. AloneInv'
  <2> SUFFICES ASSUME NEW q \in Pipelines \ overlapped, Active(q)'
               PROVE  /\ \A r \in Pipelines \ {q} : ~Active(r)'
                      /\ pc'[q] \in {"staging", "build"} => raw' = Data
                      /\ \A m \in Models :
                           /\ <<q, m>> \notin stale'
                           /\ node'[<<q, m>>] \in {"test", "done"} =>
                                m \in DOMAIN marts' /\ marts'[m] = MartOf(m, Data)
    BY <1>1 DEF AloneInv
  <2>1. Active(q) /\ Active(t[1])
    BY <1>1, <1>2 DEF Active, Ended
  <2>2. /\ \A r \in Pipelines \ {q} : ~Active(r)
        /\ pc[q] \in {"staging", "build"} => raw = Data
        /\ \A m \in Models :
             /\ <<q, m>> \notin stale
             /\ node[<<q, m>>] \in {"test", "done"} =>
                  m \in DOMAIN marts /\ marts[m] = MartOf(m, Data)
    BY <2>1 DEF PipelineInv, AloneInv
  <2>3. q = t[1] /\ t = <<q, t[2]>>
    BY <1>2, <2>1, <2>2
  <2>4. raw = Data /\ t \notin stale
    BY <1>2, <2>2, <2>3
  <2>5. MartOf(t[2], seen[t]) = MartOf(t[2], Data)
    BY <1>5, <2>4
  <2>6. ASSUME NEW m \in Models
        PROVE  /\ <<q, m>> \notin stale'
               /\ node'[<<q, m>>] \in {"test", "done"} =>
                    m \in DOMAIN marts' /\ marts'[m] = MartOf(m, Data)
    <3>1. CASE m = t[2]
      BY <1>1, <2>2, <2>5, <3>1
    <3>2. CASE m # t[2]
      <4>1. <<q, m>> \in Builds \ {t}
        BY <2>3, <3>2 DEF Builds
      <4> QED
        BY <1>1, <2>2, <3>2, <4>1
    <3> QED
      BY <3>1, <3>2
  <2>7. \A r \in Pipelines \ {q} : ~Active(r)'
    BY <1>1, <2>2 DEF Active
  <2> QED
    BY <1>1, <2>2, <2>6, <2>7
<1> QED
  BY <1>3, <1>6

\* A rollback ends loads, and fails the nodes of open builds, at most.
LEMMA RollbacksEnd ==
  ASSUME PipelineInv,
         DeadlockDetected \/ TransactionFails \/ Outage \/ PostgresStarts \/ UNCHANGED vars
  PROVE  /\ stale' \subseteq stale
         /\ \A p \in Pipelines :
              pc'[p] = pc[p] \/ (pc'[p] = "failed" /\ pc[p] = "load")
         /\ \A t \in Builds : node'[t] = node[t] \/ (node'[t] = "failed" /\ node[t] = "build")
<1>1. ASSUME NEW ts \in SUBSET Transactions, Abort(ts), \A t \in ts : Open(t)
      PROVE  /\ stale' \subseteq stale
             /\ \A p \in Pipelines :
                  pc'[p] = pc[p] \/ (pc'[p] = "failed" /\ pc[p] = "load")
             /\ \A t \in Builds : node'[t] = node[t] \/ (node'[t] = "failed" /\ node[t] = "build")
  <2>1. \A p \in Pipelines : <<p, "load">> \in Loads /\ <<p, "load">>[1] = p
    BY DEF Loads
  <2>2. \A p \in Pipelines : <<p, "load">> \in ts => pc[p] = "load"
    BY <1>1, <2>1, LoadFacts
  <2>3. \A t \in Builds : t \in ts => node[t] = "build"
    BY <1>1, BuildFacts
  <2> QED
    BY <1>1, <2>2, <2>3 DEF Abort
<1>2. CASE DeadlockDetected
  <2>1. PICK victim \in Transactions : Abort({victim}) /\ Waits(victim)
    BY <1>2 DEF DeadlockDetected
  <2>2. Open(victim) /\ {victim} \in SUBSET Transactions
    BY <2>1 DEF Waits
  <2> QED
    BY <1>1, <2>1, <2>2
<1>3. CASE TransactionFails
  <2>1. PICK t \in Transactions : Open(t) /\ Abort({t})
    BY <1>3 DEF TransactionFails
  <2>2. {t} \in SUBSET Transactions
    OBVIOUS
  <2> QED
    BY <1>1, <2>1, <2>2
<1>4. CASE Outage
  <2>1. PICK ts \in SUBSET Transactions : ts = {t \in Transactions : Open(t)}
    OBVIOUS
  <2>2. Abort(ts)
    BY <1>4, <2>1 DEF Outage
  <2> QED
    BY <1>1, <2>1, <2>2
<1>5. CASE PostgresStarts \/ UNCHANGED vars
  BY <1>5 DEF PostgresStarts, vars, pipelineVars, lockVars
<1> QED
  BY <1>2, <1>3, <1>4, <1>5

\* Rollbacks end pipelines, and fail nodes, at most.
LEMMA PostgresAlone ==
  ASSUME PipelineInv, WarehouseTypeOK',
         DeadlockDetected \/ TransactionFails \/ Outage \/ PostgresStarts \/ UNCHANGED vars
  PROVE  NodesFollow' /\ AloneInv'
<1>1. UNCHANGED <<raw, marts, overlapped>>
  BY DEF DeadlockDetected, TransactionFails, Outage, PostgresStarts, vars, databaseVars
<1>2. /\ stale' \subseteq stale
      /\ \A p \in Pipelines :
           pc'[p] = pc[p] \/ (pc'[p] = "failed" /\ pc[p] = "load")
      /\ \A t \in Builds : node'[t] = node[t] \/ (node'[t] = "failed" /\ node[t] = "build")
  BY RollbacksEnd
<1>3. NodesFollow'
  <2>1. ASSUME NEW t \in Builds
        PROVE  /\ node'[t] # "todo" => pc'[t[1]] \in {"build"} \cup Ended
               /\ node'[t] = "build" => pc'[t[1]] = "build"
    <3>1. /\ node[t] # "todo" => pc[t[1]] \in {"build"} \cup Ended
          /\ node[t] = "build" => pc[t[1]] = "build"
          /\ t[1] \in Pipelines
      BY BuildFacts DEF PipelineInv, NodesFollow
    <3>2. node'[t] = "build" => node[t] = "build"
      BY <1>2
    <3>3. node'[t] # "todo" => node[t] # "todo"
      BY <1>2
    <3>4. pc[t[1]] = "build" => pc'[t[1]] = "build"
      BY <1>2, <3>1
    <3>5. pc[t[1]] \in Ended => pc'[t[1]] \in Ended
      BY <1>2, <3>1 DEF Ended
    <3> QED
      BY <3>1, <3>2, <3>3, <3>4, <3>5
  <2> QED
    BY <2>1 DEF NodesFollow
<1>4. /\ \A p \in Pipelines :
           Active(p)' => Active(p) /\ (pc'[p] \in {"staging", "build"} =>
                                         pc[p] \in {"staging", "build"} \/ raw = Data)
      /\ \A t \in Builds : t \in stale' => t \in stale
      /\ \A t \in Builds : node'[t] = node[t] \/ node'[t] \in {"todo", "build", "failed"}
                             \/ node[t] = "test"
  BY <1>2 DEF Active, Ended
<1>5. AloneInv'
  BY <1>1, <1>4, AloneKept DEF PipelineInv
<1> QED
  BY <1>3, <1>5

\* Both halves of the invariant hold in every state.
THEOREM PipelineSound == Spec => []PipelineInv
<1>1. Init => PipelineInv
  <2> SUFFICES ASSUME Init PROVE PipelineInv
    OBVIOUS
  <2>1. NodesFollow /\ AloneInv
    BY BuildFacts DEF Init, NodesFollow, AloneInv, Active
  <2> QED
    BY <2>1, WarehouseStarts DEF PipelineInv
<1>2. PipelineInv /\ [Next]_vars => PipelineInv'
  <2> SUFFICES ASSUME PipelineInv, [Next]_vars PROVE PipelineInv'
    OBVIOUS
  <2>1. WholeInv'
    BY StepKeeps DEF PipelineInv
  <2>2. WarehouseTypeOK'
    BY <2>1 DEF WholeInv
  <2>3. ASSUME NEW p \in Pipelines, StartPipeline(p) \/ StartJob(p) \/ Step(p)
        PROVE  NodesFollow' /\ AloneInv'
    <3>1. CASE ~\E m \in Models : BuildStep(<<p, m>>)
      BY <2>2, <2>3, <3>1, BeginAlone, PipelineAlone, CommitLoadAlone DEF Step
    <3>2. CASE \E m \in Models : BuildStep(<<p, m>>)
      <4>1. PICK t \in Builds : BuildStep(t)
        BY <3>2 DEF Builds
      <4> QED
        BY <2>2, <4>1, NodeAlone, CommitBuildAlone DEF BuildStep
    <3> QED
      BY <3>1, <3>2
  <2>4. NodesFollow' /\ AloneInv'
    BY <2>2, <2>3, PostgresAlone DEF Next
  <2> QED
    BY <2>1, <2>4 DEF PipelineInv
<1> QED
  BY <1>1, <1>2, PTL DEF Spec

\* A pipeline that ran alone and succeeds has populated every mart: dbt calls a
\* node done only after its build, which found the pipeline's own load.
THEOREM AlonePopulates == Spec => AloneMeansPopulated
<1>1. ASSUME PipelineInv, [Next]_vars, NEW p \in Pipelines \ overlapped, Succeeds(p)
      PROVE  Populated(marts')
  <2>1. pc \in [Pipelines -> {"idle", "wait", "connect", "load", "staging", "build"} \cup Ended]
    BY <1>1 DEF PipelineInv, WholeInv, WarehouseTypeOK
  <2>2. /\ pc[p] = "build" /\ marts' = marts
        /\ \A m \in Models : node[<<p, m>>] = "done"
    <3>1. pc[p] # "success" /\ pc'[p] = "success"
      BY <1>1 DEF Succeeds
    <3>2. ASSUME NEW q \in Pipelines, StartPipeline(q) \/ StartJob(q) \/ Step(q)
          PROVE  FinishBuild(p)
      <4>1. CASE FinishBuild(q)
        BY <2>1, <3>1, <4>1 DEF FinishBuild, Goto
      <4>2. CASE \/ StartPipeline(q) \/ StartJob(q) \/ WaitForPostgres(q) \/ Connect(q)
                 \/ CreationLost(q) \/ CommitLoad(q) \/ BuildStaging(q)
        BY <2>1, <3>1, <4>2 DEF StartPipeline, StartJob, Begin, WaitForPostgres, Connect,
           CreationLost, CommitLoad, BuildStaging, Goto
      <4>3. CASE LockForLoad(q) \/ \E m \in Models : BuildStep(<<q, m>>)
        BY <3>1, <4>3 DEF LockForLoad, BuildStep, BeginBuild, LockForBuild, CommitBuild,
           TestMart, NodeUnreachable, pipelineVars
      <4> QED
        BY <3>2, <4>1, <4>2, <4>3 DEF Step
    <3>3. ASSUME DeadlockDetected \/ TransactionFails \/ Outage \/ PostgresStarts
                 \/ UNCHANGED vars
          PROVE  FALSE
      <4>1. CASE DeadlockDetected \/ TransactionFails \/ Outage
        <5>1. PICK ts \in SUBSET Transactions : Abort(ts)
          <6>1. CASE DeadlockDetected
            <7>1. PICK victim \in Transactions : Abort({victim})
              BY <6>1 DEF DeadlockDetected
            <7> QED
              BY <7>1
          <6>2. CASE TransactionFails
            <7>1. PICK t \in Transactions : Abort({t})
              BY <6>2 DEF TransactionFails
            <7> QED
              BY <7>1
          <6>3. CASE Outage
            <7>1. Abort({t \in Transactions : Open(t)})
              BY <6>3 DEF Outage
            <7> QED
              BY <7>1
          <6> QED
            BY <4>1, <6>1, <6>2, <6>3
        <5> QED
          BY <3>1, <5>1 DEF Abort
      <4>2. CASE PostgresStarts \/ UNCHANGED vars
        BY <3>1, <4>2 DEF PostgresStarts, vars, pipelineVars
      <4> QED
        BY <3>3, <4>1, <4>2
    <3>4. FinishBuild(p)
      BY <1>1, <3>2, <3>3 DEF Next
    <3> QED
      BY <2>1, <3>1, <3>4 DEF FinishBuild, Goto, databaseVars
  <2>3. Active(p)
    BY <2>2 DEF Active, Ended
  <2> QED
    BY <1>1, <2>2, <2>3 DEF PipelineInv, AloneInv, Populated
<1>2. PipelineInv /\ [Next]_vars
        => [\A p \in Pipelines \ overlapped : Succeeds(p) => Populated(marts')]_vars
  BY <1>1
<1> QED
  BY <1>2, PipelineSound, PTL DEF Spec, AloneMeansPopulated

-----------------------------------------------------------------------------
(* What the generator has written *)

\* An event belongs to a user, and its session to the day it happened on.
EventOK(e) ==
  /\ e.user_id \in Users /\ e.event_ts \in Nat
  /\ e.session_id = <<e.user_id, event_date(e)>>

\* An order belongs to a user and costs a whole number of cents.
OrderOK(o) == o.user_id \in Users /\ o.amount \in Nat

\* The inductive invariant of the generator.
GenInv ==
  /\ data = [users |-> data.users, events |-> data.events, orders |-> data.orders]
  /\ cursor = [user |-> cursor.user, day |-> cursor.day, left |-> cursor.left]
  /\ cursor.user \in Users /\ cursor.day \in Nat
  /\ phase # "users" => {u.user_id : u \in data.users} = Users
  /\ IsFiniteSet(data.events) /\ \A e \in data.events : EventOK(e)
  /\ IsFiniteSet(data.orders) /\ \A o \in data.orders : OrderOK(o)

\* A second of a day is on that day.
LEMMA DateOfTimestamp ==
  ASSUME NEW day \in Nat, NEW offset \in SecondOffsets
  PROVE  Timestamp(day, offset) \in Nat /\ DateOf(Timestamp(day, offset)) = day
<1>1. DaySeconds \in Nat /\ DaySeconds >= 1 /\ offset \in Nat /\ offset < DaySeconds
  BY DaySecondsAssumption DEF SecondOffsets
<1>2. PICK n \in Nat : n = day * DaySeconds + offset
  BY <1>1
<1>3. PICK q \in Int, r \in Int : n = DaySeconds * q + r /\ 0 <= r /\ r < DaySeconds /\ q = n \div DaySeconds
  BY <1>1
<1>4. ~(q > day)
  <2>1. ASSUME q > day PROVE FALSE
    <3>1. DaySeconds * q >= DaySeconds * (day + 1)
      BY <1>1, <2>1
    <3>2. DaySeconds * (day + 1) = day * DaySeconds + DaySeconds
      BY <1>1
    <3> QED
      BY <1>1, <1>2, <1>3, <3>1, <3>2
  <2> QED
    BY <2>1
<1>5. ~(q < day)
  <2>1. ASSUME q < day PROVE FALSE
    <3>1. DaySeconds * (q + 1) <= DaySeconds * day
      BY <1>1, <2>1
    <3>2. DaySeconds * (q + 1) = DaySeconds * q + DaySeconds /\ DaySeconds * day = day * DaySeconds
      BY <1>1
    <3> QED
      BY <1>1, <1>2, <1>3, <3>1, <3>2
  <2> QED
    BY <2>1
<1>6. q = day
  BY <1>3, <1>4, <1>5
<1>7. Timestamp(day, offset) = n
  BY <1>2 DEF Timestamp
<1> QED
  BY <1>3, <1>6, <1>7 DEF DateOf

\* The loops stay within the users.
LEMMA NextPairYields ==
  ASSUME GenInv, NextPair, phase = "events"
  PROVE  /\ cursor' = [user |-> cursor'.user, day |-> cursor'.day, left |-> cursor'.left]
         /\ cursor'.user \in Users /\ cursor'.day \in Nat /\ phase' # "users"
  BY GeneratorAssumption DEF GenInv, NextPair, Users

\* Nothing has been written at first.
LEMMA GenStart == GenInit => GenInv
  BY GeneratorAssumption, FS_EmptySet DEF GenInit, GenInv, NoData, Users

\* Every step keeps what has been written true.
LEMMA GenStep == GenInv /\ [GenNext]_genVars => GenInv'
<1> SUFFICES ASSUME GenInv, [GenNext]_genVars PROVE GenInv'
  OBVIOUS
<1>0. /\ data = [users |-> data.users, events |-> data.events, orders |-> data.orders]
      /\ cursor = [user |-> cursor.user, day |-> cursor.day, left |-> cursor.left]
      /\ cursor.user \in Users /\ cursor.day \in Nat
      /\ phase # "users" => {u.user_id : u \in data.users} = Users
      /\ IsFiniteSet(data.events) /\ \A e \in data.events : EventOK(e)
      /\ IsFiniteSet(data.orders) /\ \A o \in data.orders : OrderOK(o)
  BY DEF GenInv
<1>1. CASE GenerateUsers
  <2>1. PICK signup \in [Users -> 0 .. Days - 1] :
          data' = [data EXCEPT !.users = {[user_id |-> u, signup_date |-> signup[u]] : u \in Users}]
    BY <1>1 DEF GenerateUsers
  <2>2. PICK rows : rows = {[user_id |-> u, signup_date |-> signup[u]] : u \in Users}
    OBVIOUS
  <2>3. data' = [users |-> rows, events |-> data.events, orders |-> data.orders]
    BY <1>0, <2>1, <2>2
  <2>4. {u.user_id : u \in rows} = Users
    <3>1. \A u \in Users : [user_id |-> u, signup_date |-> signup[u]].user_id = u
      OBVIOUS
    <3>2. \A u \in Users : \E row \in rows : row.user_id = u
      BY <2>2, <3>1
    <3>3. \A row \in rows : row.user_id \in Users
      BY <2>2, <3>1
    <3> QED
      BY <3>2, <3>3
  <2> QED
    BY <1>0, <1>1, <2>3, <2>4 DEF GenerateUsers, GenInv, EventOK, OrderOK, Users, event_date, DateOf
<1>2. CASE SkipPair
  BY <1>0, <1>2, NextPairYields DEF SkipPair, GenInv, EventOK, OrderOK, Users, event_date, DateOf
<1>3. CASE ActivePair
  BY <1>0, <1>3 DEF ActivePair, GenInv, EventOK, OrderOK, Users, event_date, DateOf
<1>4. CASE GenerateEvent
  <2>1. PICK offset \in SecondOffsets :
          data' = [data EXCEPT !.events = @ \cup
                     {[event_id   |-> EventId,
                       user_id    |-> cursor.user,
                       event_ts   |-> Timestamp(cursor.day, offset),
                       session_id |-> <<cursor.user, cursor.day>>]}]
    BY <1>4 DEF GenerateEvent
  <2>2. PICK e : e = [event_id   |-> EventId,
                      user_id    |-> cursor.user,
                      event_ts   |-> Timestamp(cursor.day, offset),
                      session_id |-> <<cursor.user, cursor.day>>]
    OBVIOUS
  <2>3. data' = [users |-> data.users, events |-> data.events \cup {e}, orders |-> data.orders]
    BY <1>0, <2>1, <2>2
  <2>4. EventOK(e)
    BY <1>0, <2>2, DateOfTimestamp DEF EventOK, event_date
  <2>5. IsFiniteSet(data.events \cup {e})
    BY <1>0, FS_AddElement
  <2>6. /\ cursor' = [user |-> cursor'.user, day |-> cursor'.day, left |-> cursor'.left]
        /\ cursor'.user \in Users /\ cursor'.day \in Nat /\ phase' # "users" /\ phase # "users"
    <3>1. CASE cursor.left = 1
      BY <1>4, <3>1, NextPairYields DEF GenerateEvent
    <3>2. CASE cursor.left # 1
      BY <1>0, <1>4, <3>2 DEF GenerateEvent
    <3> QED
      BY <3>1, <3>2
  <2>7. /\ data'.users = data.users /\ data'.events = data.events \cup {e}
        /\ data'.orders = data.orders
        /\ data' = [users |-> data'.users, events |-> data'.events, orders |-> data'.orders]
    BY <2>3
  <2>8. \A f \in data'.events : EventOK(f)
    BY <1>0, <2>4, <2>7
  <2> QED
    BY <1>0, <2>5, <2>6, <2>7, <2>8 DEF GenInv, EventOK, OrderOK, Users, event_date, DateOf
<1>5. CASE BeginOrders
  BY <1>0, <1>5 DEF BeginOrders, GenInv, EventOK, OrderOK, Users, event_date, DateOf
<1>6. CASE GenerateOrder
  <2>1. PICK buyer \in Users, amount \in Amounts, status \in Statuses, offset \in SecondOffsets :
          data' = [data EXCEPT !.orders = @ \cup
                     {[order_id |-> OrderId,
                       user_id  |-> buyer,
                       amount   |-> amount,
                       order_ts |-> Timestamp(cursor.day, offset),
                       status   |-> status]}]
    BY <1>6 DEF GenerateOrder
  <2>2. PICK o : o = [order_id |-> OrderId,
                      user_id  |-> buyer,
                      amount   |-> amount,
                      order_ts |-> Timestamp(cursor.day, offset),
                      status   |-> status]
    OBVIOUS
  <2>3. data' = [users |-> data.users, events |-> data.events, orders |-> data.orders \cup {o}]
    BY <1>0, <2>1, <2>2
  <2>4. OrderOK(o)
    BY <2>2, GeneratorAssumption DEF OrderOK
  <2>5. IsFiniteSet(data.orders \cup {o})
    BY <1>0, FS_AddElement
  <2>6. /\ cursor' = [user |-> cursor.user, day |-> cursor.day, left |-> cursor.left - 1]
        /\ phase' = phase /\ phase # "users"
    BY <1>0, <1>6 DEF GenerateOrder
  <2>7. /\ data'.users = data.users /\ data'.events = data.events
        /\ data'.orders = data.orders \cup {o}
        /\ data' = [users |-> data'.users, events |-> data'.events, orders |-> data'.orders]
    BY <2>3
  <2>8. \A p \in data'.orders : OrderOK(p)
    BY <1>0, <2>4, <2>7
  <2> QED
    BY <1>0, <2>5, <2>6, <2>7, <2>8 DEF GenInv, EventOK, OrderOK, Users, event_date, DateOf
<1>7. CASE EndOrders
  <2>1. data' = data /\ phase # "users" /\ phase' # "users"
    BY <1>7 DEF EndOrders
  <2>2. PICK day \in Nat : cursor' = [user |-> cursor.user, day |-> day, left |-> 0]
    <3>1. CASE cursor.day + 1 < Days
      <4>1. cursor' = [cursor EXCEPT !.day = @ + 1, !.left = 0]
        BY <1>7, <3>1 DEF EndOrders
      <4>2. cursor' = [user |-> cursor.user, day |-> cursor.day + 1, left |-> 0]
        BY <1>0, <4>1
      <4> QED
        BY <1>0, <4>2
    <3>2. CASE ~(cursor.day + 1 < Days)
      <4>1. cursor' = [cursor EXCEPT !.left = 0]
        BY <1>7, <3>2 DEF EndOrders
      <4>2. cursor' = [user |-> cursor.user, day |-> cursor.day, left |-> 0]
        BY <1>0, <4>1
      <4> QED
        BY <1>0, <4>2
    <3> QED
      BY <3>1, <3>2
  <2> QED
    BY <1>0, <2>1, <2>2 DEF GenInv, EventOK, OrderOK, Users, event_date, DateOf
<1>8. CASE UNCHANGED genVars
  BY <1>0, <1>8 DEF genVars, GenInv, EventOK, OrderOK, Users, event_date, DateOf
<1> QED
  BY <1>1, <1>2, <1>3, <1>4, <1>5, <1>6, <1>7, <1>8 DEF GenNext

\* For every number of users and days and every random stream: what has been
\* written is one of the datasets of the invariant.
THEOREM GeneratorSound == GenSpec => []GenInv
  BY GenStart, GenStep, PTL DEF GenSpec

-----------------------------------------------------------------------------
(* Sessions and active users *)

\* The events of a day, and the users they are of.
EventsOn(events, date) == {e \in events : event_date(e) = date}
UsersOn(events, date) == {e.user_id : e \in EventsOn(events, date)}

\* There are finitely many users active on a day.
LEMMA UsersOnFinite ==
  ASSUME NEW events, IsFiniteSet(events), NEW date
  PROVE  IsFiniteSet(UsersOn(events, date)) /\ Cardinality(UsersOn(events, date)) \in Nat
<1>1. EventsOn(events, date) \subseteq events
  BY DEF EventsOn
<1>2. IsFiniteSet(EventsOn(events, date))
  BY <1>1, FS_Subset
<1>3. PICK f : f = [e \in EventsOn(events, date) |-> e.user_id]
  OBVIOUS
<1>4. UsersOn(events, date) = {f[e] : e \in EventsOn(events, date)}
  BY <1>3 DEF UsersOn
<1>5. IsFiniteSet(UsersOn(events, date))
  BY <1>2, <1>4, FiniteRange
<1> QED
  BY <1>5, FS_CardinalityType

\* What the mart of daily active users has.
LEMMA DauMart ==
  ASSUME NEW events, NEW mart, mart = fct_daily_active_users(events)
  PROVE  /\ \A date : date \in DOMAIN mart <=> EventsOn(events, date) # {}
         /\ \A date \in DOMAIN mart : mart[date] = Cardinality(UsersOn(events, date))
  BY DEF fct_daily_active_users, EventsOn, UsersOn

\* On any day there are as many sessions as active users.
LEMMA SessionsAreUsers ==
  ASSUME NEW events, IsFiniteSet(events), \A e \in events : EventOK(e), NEW date,
         NEW sessions, sessions = {e.session_id : e \in EventsOn(events, date)}
  PROVE  Cardinality(sessions) = Cardinality(UsersOn(events, date))
<1>1. PICK U : U = UsersOn(events, date)
  OBVIOUS
<1>2. IsFiniteSet(U)
  BY <1>1, UsersOnFinite
<1>3. \A e \in EventsOn(events, date) : e.session_id = <<e.user_id, date>>
  BY DEF EventsOn, EventOK
<1>4. sessions = {<<u, date>> : u \in U}
  BY <1>1, <1>3 DEF UsersOn
<1>5. PICK f : f = [u \in U |-> <<u, date>>]
  OBVIOUS
<1>6. f \in Bijection(U, sessions)
  <2>1. f \in [U -> sessions] /\ \A u \in U : f[u] = <<u, date>>
    BY <1>4, <1>5
  <2>2. \A u, v \in U : f[u] = f[v] => u = v
    BY <2>1
  <2>3. \A x \in sessions : \E u \in U : f[u] = x
    BY <1>4, <2>1
  <2> QED
    BY <2>1, <2>2, <2>3 DEF Bijection, Injection, Surjection, IsInjective
<1>7. Cardinality(sessions) = Cardinality(U)
  BY <1>2, <1>6, FS_Bijection DEF ExistsBijection
<1> QED
  BY <1>1, <1>7

\* For every number of users and days and every random stream: the mart has as
\* many active users on a day as sessions were drawn for it.
THEOREM ActiveUsersAreSessions == GenSpec => []DauCountsSessions
<1>1. GenInv => DauCountsSessions
  <2> SUFFICES ASSUME GenInv,
                      NEW mart, mart = fct_daily_active_users(data.events),
                      NEW date \in 0 .. Days
               PROVE  Cardinality({e.session_id : e \in {f \in data.events : f.session_id[2] = date}})
                        = IF date \in DOMAIN mart THEN mart[date] ELSE 0
    BY DEF DauCountsSessions
  <2>1. IsFiniteSet(data.events) /\ \A e \in data.events : EventOK(e)
    BY DEF GenInv
  <2>2. \A e \in data.events : e.session_id[2] = event_date(e)
    BY <2>1 DEF EventOK
  <2>3. {f \in data.events : f.session_id[2] = date} = EventsOn(data.events, date)
    BY <2>2 DEF EventsOn
  <2>4. PICK sessions : sessions = {e.session_id : e \in EventsOn(data.events, date)}
    OBVIOUS
  <2>5. Cardinality(sessions) = Cardinality(UsersOn(data.events, date))
    BY <2>1, <2>4, SessionsAreUsers
  <2>6. CASE date \in DOMAIN mart
    BY <2>3, <2>4, <2>5, <2>6, DauMart
  <2>7. CASE date \notin DOMAIN mart
    <3>1. EventsOn(data.events, date) = {}
      BY <2>7, DauMart
    <3>2. UsersOn(data.events, date) = {}
      BY <3>1 DEF UsersOn
    <3> QED
      BY <2>3, <2>4, <2>5, <2>7, <3>2, FS_EmptySet
  <2> QED
    BY <2>6, <2>7
<1> QED
  BY <1>1, GeneratorSound, PTL

-----------------------------------------------------------------------------
(* The marts and the helpers *)

\* Adding up amounts is summing.
LEMMA TotalAmountIsSum ==
  ASSUME NEW S, IsFiniteSet(S), NEW amounts, \A o \in S : amounts[o] = o.amount
  PROVE  TotalAmount(S) = SumOver(amounts, S)
<1> DEFINE F(h) == h = [s \in SUBSET S |->
                          IF s = {} THEN 0 ELSE Pick(s).amount + h[s \ {Pick(s)}]]
<1>1. TotalAmount(S) = (CHOOSE h : F(h))[S]
  BY DEF TotalAmount, MapThenSumSet, MapThenFoldSet, Pick
<1>2. ASSUME NEW h
      PROVE  F(h) <=> IsSum(h, amounts, S)
  <2>1. \A s \in SUBSET S : s # {} => amounts[Pick(s)] = Pick(s).amount
    BY PickIn
  <2>2. [s \in SUBSET S |-> IF s = {} THEN 0 ELSE Pick(s).amount + h[s \ {Pick(s)}]]
          = [s \in SUBSET S |-> IF s = {} THEN 0 ELSE amounts[Pick(s)] + h[s \ {Pick(s)}]]
    BY <2>1
  <2> QED
    BY <2>2 DEF IsSum
<1> HIDE DEF F
<1>3. PICK f : f = CHOOSE h : F(h)
  OBVIOUS
<1>4. IsSum(f, amounts, S)
  BY <1>2, <1>3, SumExists
<1>5. SumOver(amounts, S) = f[S]
  BY <1>4, SumIsValue
<1> QED
  BY <1>1, <1>3, <1>5

\* The amounts of orders, each a whole number.
AmountsOf(orders) == [o \in orders |-> o.amount]

\* Orders have a total, that of their amounts.
LEMMA TotalOfOrders ==
  ASSUME NEW orders, IsFiniteSet(orders), \A o \in orders : OrderOK(o), NEW S \in SUBSET orders
  PROVE  /\ IsFiniteSet(S) /\ Summable(AmountsOf(orders), S)
         /\ TotalAmount(S) = SumOver(AmountsOf(orders), S) /\ TotalAmount(S) \in Int
<1>1. IsFiniteSet(S)
  BY FS_Subset
<1>2. \A o \in S : AmountsOf(orders)[o] = o.amount /\ o.amount \in Int
  BY DEF AmountsOf, OrderOK
<1>3. Summable(AmountsOf(orders), S)
  BY <1>1, <1>2 DEF Summable
<1> QED
  BY <1>1, <1>2, <1>3, TotalAmountIsSum, SumOverInt

\* What the mart of revenue has.
LEMMA RevenueMart ==
  ASSUME NEW orders, NEW mart, mart = fct_revenue_by_day(orders)
  PROVE  /\ \A date : date \in DOMAIN mart <=> CompletedOn(orders, date) # {}
         /\ \A date \in DOMAIN mart :
              /\ mart[date].revenue = TotalAmount(CompletedOn(orders, date))
              /\ mart[date].n_orders = Cardinality(CompletedOn(orders, date))
<1>1. PICK completed : completed = CompletedOf(orders)
  OBVIOUS
<1>2. mart = [date \in {order_date(o) : o \in completed} |->
                [revenue  |-> TotalAmount({o \in completed : order_date(o) = date}),
                 n_orders |-> Cardinality({o \in completed : order_date(o) = date})]]
  BY <1>1 DEF fct_revenue_by_day
<1>3. ASSUME NEW date
      PROVE  {o \in completed : order_date(o) = date} = CompletedOn(orders, date)
  BY <1>1 DEF CompletedOf, CompletedOn
<1>4. ASSUME NEW date
      PROVE  date \in DOMAIN mart <=> CompletedOn(orders, date) # {}
  <2>1. DOMAIN mart = {order_date(o) : o \in completed}
    BY <1>2
  <2> QED
    BY <1>3, <2>1
<1>5. ASSUME NEW date \in DOMAIN mart
      PROVE  /\ mart[date].revenue = TotalAmount(CompletedOn(orders, date))
             /\ mart[date].n_orders = Cardinality(CompletedOn(orders, date))
  BY <1>2, <1>3
<1> QED
  BY <1>4, <1>5

\* For every number of users and days and every random stream: the SQL marts
\* and the helpers behind the golden values agree on every day.
THEOREM SqlAgreesWithPandas == GenSpec => []MartsAgreeWithHelpers
<1>1. GenInv => MartsAgreeWithHelpers
  <2> SUFFICES ASSUME GenInv,
                      NEW dau, dau = fct_daily_active_users(data.events),
                      NEW revenue, revenue = fct_revenue_by_day(data.orders),
                      NEW date \in 0 .. Days - 1,
                      NEW golden, golden = derive_golden(data, date)
               PROVE  /\ date \in DOMAIN dau <=> golden.golden_dau > 0
                      /\ date \in DOMAIN revenue <=> golden.golden_n_orders > 0
                      /\ assert_dau_golden(dau, golden)
                      /\ assert_revenue_golden(revenue, golden)
    BY DEF MartsAgreeWithHelpers
  <2>1. PICK U : U = UsersOn(data.events, date)
    OBVIOUS
  <2>2. PICK C : C = CompletedOn(data.orders, date)
    OBVIOUS
  <2>3. /\ golden.golden_date = date
        /\ golden.golden_dau = Cardinality(U)
        /\ golden.golden_revenue = TotalAmount(C)
        /\ golden.golden_n_orders = Cardinality(C)
    BY <2>1, <2>2 DEF derive_golden, compute_dau, compute_revenue, compute_n_orders, UsersOn, EventsOn
  <2>4. IsFiniteSet(U) /\ Cardinality(U) \in Nat
    BY <2>1, UsersOnFinite DEF GenInv
  <2>5. IsFiniteSet(C) /\ Cardinality(C) \in Nat /\ TotalAmount(C) \in Int
    <3>1. C \in SUBSET data.orders
      BY <2>2 DEF CompletedOn
    <3>2. IsFiniteSet(data.orders) /\ \A o \in data.orders : OrderOK(o)
      BY DEF GenInv
    <3> QED
      BY <3>1, <3>2, TotalOfOrders, FS_CardinalityType
  <2>6. date \in DOMAIN dau <=> Cardinality(U) > 0
    <3>1. date \in DOMAIN dau <=> U # {}
      BY <2>1, DauMart DEF UsersOn
    <3> QED
      BY <2>4, <3>1, FS_EmptySet
  <2>7. date \in DOMAIN revenue <=> Cardinality(C) > 0
    <3>1. date \in DOMAIN revenue <=> C # {}
      BY <2>2, RevenueMart
    <3> QED
      BY <2>5, <3>1, FS_EmptySet
  <2>8. assert_dau_golden(dau, golden)
    BY <2>1, <2>3, DauMart DEF assert_dau_golden
  <2>9. assert_revenue_golden(revenue, golden)
    <3>1. ASSUME date \in DOMAIN revenue
          PROVE  /\ revenue[date].revenue - TotalAmount(C) \in -1 .. 1
                 /\ revenue[date].n_orders = Cardinality(C)
      <4>1. revenue[date].revenue = TotalAmount(C) /\ revenue[date].n_orders = Cardinality(C)
        BY <2>2, <3>1, RevenueMart
      <4>2. \A n \in Int : n - n \in -1 .. 1
        OBVIOUS
      <4> QED
        BY <2>5, <4>1, <4>2
    <3> QED
      BY <2>3, <3>1 DEF assert_revenue_golden
  <2> QED
    BY <2>3, <2>6, <2>7, <2>8, <2>9
<1> QED
  BY <1>1, GeneratorSound, PTL

-----------------------------------------------------------------------------
(* The user dimension *)

\* A column of a mart adds up to its sum.
LEMMA ColumnIsSum == \A f : ColumnTotal(f) = SumOver(f, DOMAIN f)
  BY DEF ColumnTotal, MapThenSumSet, MapThenFoldSet, SumOver, IsSum, Pick

\* The events and the completed orders of a user.
EventsBy(events, u) == {e \in events : e.user_id = u}
CompletedBy(orders, u) == {o \in CompletedOf(orders) : o.user_id = u}

\* When they happened.
TimesBy(events, u) == {e.event_ts : e \in EventsBy(events, u)}

\* What the dimension has of a user, with or without events and orders.
LEMMA UserRow ==
  ASSUME NEW users, NEW events, NEW orders,
         IsFiniteSet(orders), \A o \in orders : OrderOK(o),
         NEW dim, dim = dim_users(users, events, orders), NEW u \in DOMAIN dim
  PROVE  /\ dim[u].n_events = Cardinality(EventsBy(events, u))
         /\ dim[u].n_completed_orders = Cardinality(CompletedBy(orders, u))
         /\ dim[u].lifetime_revenue = TotalAmount(CompletedBy(orders, u))
         /\ EventsBy(events, u) # {} =>
              /\ dim[u].first_event_ts = Min(TimesBy(events, u))
              /\ dim[u].last_event_ts = Max(TimesBy(events, u))
<1>1. PICK E, O : E = event_rollup(events) /\ O = order_rollup(orders)
  OBVIOUS
<1>2. dim[u] = [n_events           |-> IF u \in DOMAIN E THEN E[u].n_events ELSE 0,
                first_event_ts     |-> IF u \in DOMAIN E THEN E[u].first_event_ts ELSE NULL,
                last_event_ts      |-> IF u \in DOMAIN E THEN E[u].last_event_ts ELSE NULL,
                n_completed_orders |-> IF u \in DOMAIN O THEN O[u].n_completed_orders ELSE 0,
                lifetime_revenue   |-> IF u \in DOMAIN O THEN O[u].lifetime_revenue ELSE 0]
  BY <1>1 DEF dim_users
<1>3. u \in DOMAIN E <=> EventsBy(events, u) # {}
  BY <1>1 DEF event_rollup, EventsBy
<1>4. ASSUME u \in DOMAIN E
      PROVE  /\ E[u].n_events = Cardinality(EventsBy(events, u))
             /\ E[u].first_event_ts = Min(TimesBy(events, u))
             /\ E[u].last_event_ts = Max(TimesBy(events, u))
  BY <1>1, <1>4 DEF event_rollup, EventsBy, TimesBy
<1>5. ASSUME u \notin DOMAIN O PROVE CompletedBy(orders, u) = {}
  <2>1. \A o \in orders : o.user_id # u
    BY <1>1, <1>5 DEF order_rollup
  <2> QED
    BY <2>1 DEF CompletedBy, CompletedOf
<1>6. ASSUME u \in DOMAIN O
      PROVE  /\ O[u].n_completed_orders = Cardinality(CompletedBy(orders, u))
             /\ O[u].lifetime_revenue = TotalAmount(CompletedBy(orders, u))
  BY <1>1, <1>6 DEF order_rollup, CompletedBy
<1>7. dim[u].n_events = Cardinality(EventsBy(events, u))
  BY <1>2, <1>3, <1>4, FS_EmptySet
<1>8. dim[u].n_completed_orders = Cardinality(CompletedBy(orders, u))
  BY <1>2, <1>5, <1>6, FS_EmptySet
<1>9. dim[u].lifetime_revenue = TotalAmount(CompletedBy(orders, u))
  <2>1. {} \in SUBSET orders
    OBVIOUS
  <2>2. TotalAmount({}) = 0
    BY <2>1, TotalOfOrders, SumEmpty
  <2> QED
    BY <1>2, <1>5, <1>6, <2>2
<1>10. EventsBy(events, u) # {} =>
         /\ dim[u].first_event_ts = Min(TimesBy(events, u))
         /\ dim[u].last_event_ts = Max(TimesBy(events, u))
  BY <1>2, <1>3, <1>4
<1> QED
  BY <1>7, <1>8, <1>9, <1>10

\* Rows that are counted by a key are counted once each.
LEMMA CountsByKey ==
  ASSUME NEW S, IsFiniteSet(S), NEW K, IsFiniteSet(K), NEW key, \A x \in S : key[x] \in K,
         NEW counts, DOMAIN counts = K,
         \A k \in K : counts[k] = Cardinality({x \in S : key[x] = k})
  PROVE  ColumnTotal(counts) = Cardinality(S)
<1>1. PICK ones : ones = [x \in S |-> 1]
  OBVIOUS
<1>2. Summable(ones, S)
  BY <1>1 DEF Summable
<1>3. ASSUME NEW k \in K
      PROVE  counts[k] = SumOver(ones, {x \in S : key[x] = k})
  <2>1. PICK T : T = {x \in S : key[x] = k}
    OBVIOUS
  <2>2. IsFiniteSet(T) /\ \A x \in T : ones[x] = 1
    BY <1>1, <2>1, FS_Subset
  <2> QED
    BY <2>1, <2>2, SumOnes
<1>4. SumsOfParts(counts, K, key, ones, S)
  BY <1>3 DEF SumsOfParts
<1>5. SumOver(counts, K) = SumOver(ones, S)
  BY <1>2, <1>4, SumPartition
<1>6. SumOver(ones, S) = Cardinality(S)
  BY <1>1, SumOnes
<1> QED
  BY <1>5, <1>6, ColumnIsSum

\* Orders that are added up by a key are added up once each.
LEMMA AmountsByKey ==
  ASSUME NEW orders, IsFiniteSet(orders), \A o \in orders : OrderOK(o), NEW S \in SUBSET orders,
         NEW K, IsFiniteSet(K), NEW key, \A x \in S : key[x] \in K,
         NEW totals, DOMAIN totals = K,
         \A k \in K : totals[k] = TotalAmount({x \in S : key[x] = k})
  PROVE  ColumnTotal(totals) = TotalAmount(S)
<1>1. PICK amounts : amounts = AmountsOf(orders)
  OBVIOUS
<1>2. Summable(amounts, S) /\ TotalAmount(S) = SumOver(amounts, S)
  BY <1>1, TotalOfOrders
<1>3. ASSUME NEW k \in K
      PROVE  totals[k] = SumOver(amounts, {x \in S : key[x] = k})
  <2>1. {x \in S : key[x] = k} \in SUBSET orders
    OBVIOUS
  <2> QED
    BY <1>1, <2>1, TotalOfOrders
<1>4. SumsOfParts(totals, K, key, amounts, S)
  BY <1>3 DEF SumsOfParts
<1>5. SumOver(totals, K) = SumOver(amounts, S)
  BY <1>2, <1>4, SumPartition
<1> QED
  BY <1>2, <1>5, ColumnIsSum

\* Dates follow the clock.
LEMMA DatesMonotone ==
  ASSUME NEW a \in Nat, NEW b \in Nat, a <= b
  PROVE  DateOf(a) <= DateOf(b) /\ DateOf(a) \in Nat /\ DateOf(b) \in Nat
<1>1. DaySeconds \in Nat /\ DaySeconds >= 1
  BY DaySecondsAssumption
<1>2. PICK p \in Int, r \in Int : a = DaySeconds * p + r /\ 0 <= r /\ r < DaySeconds /\ p = a \div DaySeconds
  BY <1>1
<1>3. PICK q \in Int, s \in Int : b = DaySeconds * q + s /\ 0 <= s /\ s < DaySeconds /\ q = b \div DaySeconds
  BY <1>1
<1>4. ~(q < p)
  <2>1. ASSUME q < p PROVE FALSE
    <3>1. DaySeconds * (q + 1) <= DaySeconds * p
      BY <1>1, <2>1
    <3>2. DaySeconds * (q + 1) = DaySeconds * q + DaySeconds
      BY <1>1
    <3> QED
      BY <1>1, <1>2, <1>3, <3>1, <3>2
  <2> QED
    BY <2>1
<1>5. ~(p < 0)
  <2>1. ASSUME p < 0 PROVE FALSE
    <3>1. DaySeconds * p <= DaySeconds * (-1)
      BY <1>1, <2>1
    <3> QED
      BY <1>1, <1>2, <3>1
  <2> QED
    BY <2>1
<1> QED
  BY <1>2, <1>3, <1>4, <1>5 DEF DateOf
\* The rows of the dimension are as many events as were written.
LEMMA DimensionCounts ==
  ASSUME NEW users, NEW events, IsFiniteSet(events), NEW orders, IsFiniteSet(orders),
         \A o \in orders : OrderOK(o),
         NEW dim, dim = dim_users(users, events, orders),
         IsFiniteSet(DOMAIN dim),
         \A e \in events : e.user_id \in DOMAIN dim, \A o \in orders : o.user_id \in DOMAIN dim
  PROVE  /\ ColumnTotal([u \in DOMAIN dim |-> dim[u].n_events]) = Cardinality(events)
         /\ ColumnTotal([u \in DOMAIN dim |-> dim[u].n_completed_orders])
              = Cardinality(CompletedOf(orders))
         /\ ColumnTotal([u \in DOMAIN dim |-> dim[u].lifetime_revenue])
              = TotalAmount(CompletedOf(orders))
<1>1. PICK K : K = DOMAIN dim
  OBVIOUS
<1>2. PICK C : C = CompletedOf(orders)
  OBVIOUS
<1>3. C \in SUBSET orders /\ IsFiniteSet(C)
  <2>1. C \in SUBSET orders
    BY <1>2 DEF CompletedOf
  <2> QED
    BY <2>1, FS_Subset
<1>4. ASSUME NEW u \in K
      PROVE  /\ dim[u].n_events = Cardinality(EventsBy(events, u))
             /\ dim[u].n_completed_orders = Cardinality(CompletedBy(orders, u))
             /\ dim[u].lifetime_revenue = TotalAmount(CompletedBy(orders, u))
  <2>1. u \in DOMAIN dim
    BY <1>1
  <2> QED
    BY <2>1, UserRow
<1>5. PICK f : f = [e \in events |-> e.user_id]
  OBVIOUS
<1>6. PICK g : g = [o \in C |-> o.user_id]
  OBVIOUS
<1>7. (\A e \in events : f[e] \in K) /\ (\A o \in C : g[o] \in K)
  BY <1>1, <1>3, <1>5, <1>6
<1>8. ASSUME NEW u
      PROVE  /\ EventsBy(events, u) = {e \in events : f[e] = u}
             /\ CompletedBy(orders, u) = {o \in C : g[o] = u}
  BY <1>2, <1>5, <1>6 DEF EventsBy, CompletedBy
<1>9. ColumnTotal([u \in DOMAIN dim |-> dim[u].n_events]) = Cardinality(events)
  <2>1. PICK counts : counts = [u \in DOMAIN dim |-> dim[u].n_events]
    OBVIOUS
  <2>2. DOMAIN counts = K /\ \A k \in K : counts[k] = Cardinality({e \in events : f[e] = k})
    BY <1>1, <1>4, <1>8, <2>1
  <2>3. IsFiniteSet(K) /\ \A e \in events : f[e] \in K
    BY <1>1, <1>7
  <2>4. ColumnTotal(counts) = Cardinality(events)
    BY <2>2, <2>3, CountsByKey
  <2> QED
    BY <2>1, <2>4
<1>10. ColumnTotal([u \in DOMAIN dim |-> dim[u].n_completed_orders]) = Cardinality(C)
  <2>1. PICK counts : counts = [u \in DOMAIN dim |-> dim[u].n_completed_orders]
    OBVIOUS
  <2>2. DOMAIN counts = K /\ \A k \in K : counts[k] = Cardinality({o \in C : g[o] = k})
    BY <1>1, <1>4, <1>8, <2>1
  <2>3. IsFiniteSet(C) /\ IsFiniteSet(K) /\ \A o \in C : g[o] \in K
    BY <1>1, <1>3, <1>7
  <2>4. ColumnTotal(counts) = Cardinality(C)
    BY <2>2, <2>3, CountsByKey, SMTT(30)
  <2> QED
    BY <2>1, <2>4
<1>11. ColumnTotal([u \in DOMAIN dim |-> dim[u].lifetime_revenue]) = TotalAmount(C)
  <2>1. PICK totals : totals = [u \in DOMAIN dim |-> dim[u].lifetime_revenue]
    OBVIOUS
  <2>2. DOMAIN totals = K /\ \A k \in K : totals[k] = TotalAmount({o \in C : g[o] = k})
    BY <1>1, <1>4, <1>8, <2>1
  <2>3. IsFiniteSet(K) /\ \A o \in C : g[o] \in K
    BY <1>1, <1>7
  <2>4. ColumnTotal(totals) = TotalAmount(C)
    BY <1>3, <2>2, <2>3, AmountsByKey
  <2> QED
    BY <2>1, <2>4
<1> QED
  BY <1>2, <1>9, <1>10, <1>11

\* The days of the mart of revenue share out all that was completed.
LEMMA RevenueCounts ==
  ASSUME NEW orders, IsFiniteSet(orders), \A o \in orders : OrderOK(o),
         NEW mart, mart = fct_revenue_by_day(orders)
  PROVE  /\ ColumnTotal([d \in DOMAIN mart |-> mart[d].n_orders])
              = Cardinality(CompletedOf(orders))
         /\ ColumnTotal([d \in DOMAIN mart |-> mart[d].revenue])
              = TotalAmount(CompletedOf(orders))
<1>1. PICK C : C = CompletedOf(orders)
  OBVIOUS
<1>2. C \in SUBSET orders /\ IsFiniteSet(C)
  <2>1. C \in SUBSET orders
    BY <1>1 DEF CompletedOf
  <2> QED
    BY <2>1, FS_Subset
<1>3. PICK f : f = [o \in C |-> order_date(o)]
  OBVIOUS
<1>4. PICK K : K = {f[o] : o \in C}
  OBVIOUS
<1>5. IsFiniteSet(K)
  BY <1>2, <1>4, FiniteRange
<1>6. DOMAIN mart = K
  BY <1>1, <1>3, <1>4 DEF fct_revenue_by_day
<1>7. ASSUME NEW d
      PROVE  CompletedOn(orders, d) = {o \in C : f[o] = d}
  BY <1>1, <1>3 DEF CompletedOn, CompletedOf
<1>8. ASSUME NEW d \in K
      PROVE  /\ mart[d].revenue = TotalAmount({o \in C : f[o] = d})
             /\ mart[d].n_orders = Cardinality({o \in C : f[o] = d})
  <2>1. /\ mart[d].revenue = TotalAmount(CompletedOn(orders, d))
        /\ mart[d].n_orders = Cardinality(CompletedOn(orders, d))
    BY <1>6, RevenueMart
  <2> QED
    BY <1>7, <2>1
<1>9. \A o \in C : f[o] \in K
  BY <1>4
<1>10. ColumnTotal([d \in DOMAIN mart |-> mart[d].n_orders]) = Cardinality(C)
  <2>1. PICK counts : counts = [d \in DOMAIN mart |-> mart[d].n_orders]
    OBVIOUS
  <2>2. DOMAIN counts = K /\ \A k \in K : counts[k] = Cardinality({o \in C : f[o] = k})
    BY <1>6, <1>8, <2>1
  <2>3. ColumnTotal(counts) = Cardinality(C)
    BY <1>2, <1>5, <1>9, <2>2, CountsByKey
  <2> QED
    BY <2>1, <2>3
<1>11. ColumnTotal([d \in DOMAIN mart |-> mart[d].revenue]) = TotalAmount(C)
  <2>1. PICK totals : totals = [d \in DOMAIN mart |-> mart[d].revenue]
    OBVIOUS
  <2>2. DOMAIN totals = K /\ \A k \in K : totals[k] = TotalAmount({o \in C : f[o] = k})
    BY <1>6, <1>8, <2>1
  <2>3. ColumnTotal(totals) = TotalAmount(C)
    BY <1>2, <1>5, <1>9, <2>2, AmountsByKey
  <2> QED
    BY <2>1, <2>3
<1> QED
  BY <1>1, <1>10, <1>11

\* A user who is active on a day has a first and a last event around it.
LEMMA ActiveWithinSpan ==
  ASSUME NEW users, NEW events, IsFiniteSet(events), \A e \in events : EventOK(e),
         NEW orders, IsFiniteSet(orders), \A o \in orders : OrderOK(o),
         NEW dim, dim = dim_users(users, events, orders),
         NEW date, NEW u \in UsersOn(events, date), u \in DOMAIN dim
  PROVE  /\ dim[u].first_event_ts # NULL
         /\ DateOf(dim[u].first_event_ts) <= date
         /\ date <= DateOf(dim[u].last_event_ts)
<1>1. PICK e \in events : event_date(e) = date /\ e.user_id = u
  BY DEF UsersOn, EventsOn
<1>2. PICK E : E = EventsBy(events, u)
  OBVIOUS
<1>3. e \in E /\ E \subseteq events /\ IsFiniteSet(E)
  <2>1. e \in E /\ E \subseteq events
    BY <1>1, <1>2 DEF EventsBy
  <2> QED
    BY <2>1, FS_Subset
<1>4. PICK T : T = {f.event_ts : f \in E}
  OBVIOUS
<1>5. T \subseteq Nat /\ e.event_ts \in T
  BY <1>3, <1>4 DEF EventOK
<1>6. IsFiniteSet(T)
  <2>1. PICK g : g = [f \in E |-> f.event_ts]
    OBVIOUS
  <2>2. T = {g[f] : f \in E}
    BY <1>4, <2>1
  <2> QED
    BY <1>3, <2>2, FiniteRange
<1>7. PICK first, last : first = Min(T) /\ last = Max(T)
  OBVIOUS
<1>8. first \in Nat /\ last \in Nat /\ first <= e.event_ts /\ e.event_ts <= last
  <2>1. T \in SUBSET Int /\ T # {}
    BY <1>5
  <2>2. first \in T /\ last \in T /\ \A x \in T : first <= x /\ x <= last
    BY <1>6, <1>7, <2>1, Extremes
  <2> QED
    BY <1>5, <2>2
<1>9. dim[u].first_event_ts = first /\ dim[u].last_event_ts = last
  BY <1>2, <1>3, <1>4, <1>7, UserRow DEF TimesBy
<1>10. DateOf(first) <= DateOf(e.event_ts) /\ DateOf(e.event_ts) <= DateOf(last)
  BY <1>5, <1>8, DatesMonotone
<1>11. DateOf(e.event_ts) = date
  BY <1>1 DEF event_date
<1> QED
  BY <1>8, <1>9, <1>10, <1>11 DEF NULL

\* For every number of users and days and every random stream: the three marts
\* tell the same totals, and no day has more active users than the dimension
\* has users whose first and last event are around it.
THEOREM MartsTellOneStory == GenSpec => []MartsReconcile
<1>1. GenInv => MartsReconcile
  <2> SUFFICES ASSUME GenInv, phase # "users",
                      NEW dim, dim = dim_users(data.users, data.events, data.orders),
                      NEW dau, dau = fct_daily_active_users(data.events),
                      NEW revenue, revenue = fct_revenue_by_day(data.orders)
               PROVE  /\ ColumnTotal([u \in DOMAIN dim |-> dim[u].n_events]) = Cardinality(data.events)
                      /\ ColumnTotal([u \in DOMAIN dim |-> dim[u].n_completed_orders])
                           = ColumnTotal([d \in DOMAIN revenue |-> revenue[d].n_orders])
                      /\ ColumnTotal([u \in DOMAIN dim |-> dim[u].lifetime_revenue])
                           = ColumnTotal([d \in DOMAIN revenue |-> revenue[d].revenue])
                      /\ \A date \in DOMAIN dau :
                           dau[date] <= Cardinality({u \in DOMAIN dim :
                             dim[u].first_event_ts # NULL /\ DateOf(dim[u].first_event_ts) <= date
                               /\ date <= DateOf(dim[u].last_event_ts)})
    BY DEF MartsReconcile
  <2>1. /\ {u.user_id : u \in data.users} = Users
        /\ IsFiniteSet(data.events) /\ \A e \in data.events : EventOK(e)
        /\ IsFiniteSet(data.orders) /\ \A o \in data.orders : OrderOK(o)
    BY DEF GenInv
  <2>2. DOMAIN dim = Users
    BY <2>1 DEF dim_users
  <2>3. IsFiniteSet(DOMAIN dim)
    <3>1. 1 \in Int /\ NUsers \in Int
      BY GeneratorAssumption
    <3> QED
      BY <2>2, <3>1, FS_Interval DEF Users
  <2>4. /\ \A e \in data.events : e.user_id \in DOMAIN dim
        /\ \A o \in data.orders : o.user_id \in DOMAIN dim
    BY <2>1, <2>2 DEF EventOK, OrderOK
  <2>5. /\ ColumnTotal([u \in DOMAIN dim |-> dim[u].n_events]) = Cardinality(data.events)
        /\ ColumnTotal([u \in DOMAIN dim |-> dim[u].n_completed_orders])
             = Cardinality(CompletedOf(data.orders))
        /\ ColumnTotal([u \in DOMAIN dim |-> dim[u].lifetime_revenue])
             = TotalAmount(CompletedOf(data.orders))
    BY <2>1, <2>3, <2>4, DimensionCounts
  <2>6. /\ ColumnTotal([d \in DOMAIN revenue |-> revenue[d].n_orders])
             = Cardinality(CompletedOf(data.orders))
        /\ ColumnTotal([d \in DOMAIN revenue |-> revenue[d].revenue])
             = TotalAmount(CompletedOf(data.orders))
    BY <2>1, RevenueCounts
  <2>7. ASSUME NEW date \in DOMAIN dau
        PROVE  dau[date] <= Cardinality({u \in DOMAIN dim :
                 dim[u].first_event_ts # NULL /\ DateOf(dim[u].first_event_ts) <= date
                   /\ date <= DateOf(dim[u].last_event_ts)})
    <3>1. PICK U : U = UsersOn(data.events, date)
      OBVIOUS
    <3>2. PICK span : span = {u \in DOMAIN dim :
            dim[u].first_event_ts # NULL /\ DateOf(dim[u].first_event_ts) <= date
              /\ date <= DateOf(dim[u].last_event_ts)}
      OBVIOUS
    <3>3. U \subseteq DOMAIN dim
      BY <2>4, <3>1 DEF UsersOn, EventsOn
    <3>4. U \subseteq span
      BY <2>1, <3>1, <3>2, <3>3, ActiveWithinSpan
    <3>5. IsFiniteSet(span)
      BY <2>3, <3>2, FS_Subset
    <3>6. Cardinality(U) <= Cardinality(span)
      BY <3>4, <3>5, FS_Subset
    <3>7. dau[date] = Cardinality(U)
      BY <3>1, DauMart
    <3> QED
      BY <3>2, <3>6, <3>7
  <2> QED
    BY <2>5, <2>6, <2>7
<1> QED
  BY <1>1, GeneratorSound, PTL
-----------------------------------------------------------------------------
(* One pipeline succeeds *)

\* What the golden tests need of the dataset: finitely many orders, of whole
\* amounts.
Summed(orders) == IsFiniteSet(orders) /\ \A o \in orders : o.amount \in Int

\* A mart built from the rows behind the golden values passes its test, and so
\* does one built from nothing.
LEMMA GoldenTestsPass ==
  ASSUME NEW data0, Summed(data0.orders), NEW date, NEW golden, golden = derive_golden(data0, date)
  PROVE  /\ \A events \in {{}, data0.events} :
              assert_dau_golden(fct_daily_active_users(events), golden)
         /\ \A orders \in {{}, data0.orders} :
              assert_revenue_golden(fct_revenue_by_day(orders), golden)
<1>1. PICK U, C : U = UsersOn(data0.events, date) /\ C = CompletedOn(data0.orders, date)
  OBVIOUS
<1>2. /\ golden.golden_date = date
      /\ golden.golden_dau = Cardinality(U)
      /\ golden.golden_revenue = TotalAmount(C)
      /\ golden.golden_n_orders = Cardinality(C)
  BY <1>1 DEF derive_golden, compute_dau, compute_revenue, compute_n_orders, UsersOn, EventsOn
<1>3. ASSUME NEW events \in {{}, data0.events}
      PROVE  assert_dau_golden(fct_daily_active_users(events), golden)
  <2>1. PICK mart : mart = fct_daily_active_users(events)
    OBVIOUS
  <2>2. ASSUME date \in DOMAIN mart PROVE mart[date] = Cardinality(U)
    <3>1. EventsOn(events, date) # {} /\ mart[date] = Cardinality(UsersOn(events, date))
      BY <2>1, <2>2, DauMart
    <3>2. events = data0.events
      BY <1>3, <3>1 DEF EventsOn
    <3> QED
      BY <1>1, <3>1, <3>2
  <2> QED
    BY <1>2, <2>1, <2>2 DEF assert_dau_golden
<1>4. TotalAmount(C) \in Int
  <2>1. IsFiniteSet(C) /\ \A o \in C : o.amount \in Int
    <3>1. C \subseteq data0.orders
      BY <1>1 DEF CompletedOn
    <3> QED
      BY <3>1, FS_Subset DEF Summed
  <2>2. PICK amounts : amounts = [o \in C |-> o.amount]
    OBVIOUS
  <2>3. \A o \in C : amounts[o] = o.amount
    BY <2>2
  <2>4. Summable(amounts, C)
    BY <2>1, <2>3 DEF Summable
  <2> QED
    BY <2>1, <2>3, <2>4, TotalAmountIsSum, SumOverInt
<1>5. ASSUME NEW orders \in {{}, data0.orders}
      PROVE  assert_revenue_golden(fct_revenue_by_day(orders), golden)
  <2>1. PICK mart : mart = fct_revenue_by_day(orders)
    OBVIOUS
  <2>2. ASSUME date \in DOMAIN mart
        PROVE  /\ mart[date].revenue - TotalAmount(C) \in -1 .. 1
               /\ mart[date].n_orders = Cardinality(C)
    <3>1. /\ CompletedOn(orders, date) # {}
          /\ mart[date].revenue = TotalAmount(CompletedOn(orders, date))
          /\ mart[date].n_orders = Cardinality(CompletedOn(orders, date))
      BY <2>1, <2>2, RevenueMart
    <3>2. orders = data0.orders
      BY <1>5, <3>1 DEF CompletedOn
    <3>3. mart[date].revenue = TotalAmount(C) /\ mart[date].n_orders = Cardinality(C)
      BY <1>1, <3>1, <3>2
    <3>4. \A n \in Int : n - n \in -1 .. 1
      OBVIOUS
    <3> QED
      BY <1>4, <3>3, <3>4
  <2> QED
    BY <1>2, <2>1, <2>2 DEF assert_revenue_golden
<1> QED
  BY <1>3, <1>5

\* Whatever a build found, the tests of its mart pass.
LEMMA MartsPass ==
  ASSUME PipelineInv, TestsFindData, Summed(Data.orders), NEW t \in Builds, node[t] = "test"
  PROVE  TestsPass(t[2])
<1>1. t[2] \in Models /\ t[2] \in MartNames /\ t[2] \in DOMAIN marts /\ raw = Data
  BY BuildFacts, ModelsAssumption DEF TestsFindData
<1>2. marts[t[2]] \in {MartOf(t[2], NoData), MartOf(t[2], Data)}
  BY <1>1 DEF PipelineInv, WholeInv, MartsOfWholeLoads
<1>3. CASE t[2] = "fct_daily_active_users"
  <2>1. \E events \in {{}, Data.events} : marts[t[2]] = fct_daily_active_users(events)
    BY <1>2, <1>3 DEF MartOf, NoData
  <2>2. assert_dau_golden(marts[t[2]], Golden)
    BY <2>1, GoldenTestsPass DEF Golden
  <2> QED
    BY <1>3, <2>2 DEF TestsPass
<1>4. CASE t[2] = "fct_revenue_by_day"
  <2>1. \E orders \in {{}, Data.orders} : marts[t[2]] = fct_revenue_by_day(orders)
    BY <1>2, <1>4 DEF MartOf, NoData
  <2>2. assert_revenue_golden(marts[t[2]], Golden)
    BY <2>1, GoldenTestsPass DEF Golden
  <2> QED
    BY <1>4, <2>2 DEF TestsPass
<1>5. CASE t[2] = "dim_users"
  <2>1. \/ marts[t[2]] = dim_users({}, {}, {})
        \/ marts[t[2]] = dim_users(Data.users, Data.events, Data.orders)
    BY <1>2, <1>5 DEF MartOf, NoData
  <2>2. /\ DOMAIN dim_users({}, {}, {}) = {}
        /\ DOMAIN dim_users(Data.users, Data.events, Data.orders) = {u.user_id : u \in Data.users}
    BY DEF dim_users
  <2>3. DOMAIN marts[t[2]] \subseteq {u.user_id : u \in Data.users}
    BY <2>1, <2>2
  <2> QED
    BY <1>1, <1>5, <2>3 DEF TestsPass
<1> QED
  BY <1>1, <1>3, <1>4, <1>5 DEF MartNames

\* The steps of a pipeline outside dbt build, but for the commit, leave what
\* the tests find alone.
LEMMA PipelineTestsKept ==
  ASSUME PipelineInv, TestsFindData, NEW p \in Pipelines,
         \/ StartPipeline(p) \/ StartJob(p) \/ WaitForPostgres(p) \/ Connect(p)
         \/ LockForLoad(p) \/ CreationLost(p) \/ BuildStaging(p) \/ FinishBuild(p)
  PROVE  TestsFindData'
<1>1. UNCHANGED <<raw, marts, node>>
  BY DEF StartPipeline, StartJob, Begin, WaitForPostgres, Connect, LockForLoad, CreationLost,
         BuildStaging, FinishBuild, databaseVars, pipelineVars
<1>2. \A q \in Pipelines : pc'[q] \in {"staging", "build"} => pc[q] \in {"staging", "build"}
  BY DEF StartPipeline, StartJob, Begin, WaitForPostgres, Connect, LockForLoad, CreationLost,
         BuildStaging, FinishBuild, Goto, pipelineVars, PipelineInv, WholeInv, WarehouseTypeOK
<1> QED
  BY <1>1, <1>2 DEF TestsFindData

\* A mart that is to be tested was built after a load.
LEMMA NodeTestsKept ==
  ASSUME PipelineInv, TestsFindData, NEW t \in Builds, BuildStep(t)
  PROVE  TestsFindData'
<1>1. UNCHANGED <<raw, pc>> /\ DOMAIN marts \subseteq DOMAIN marts'
  BY DEF BuildStep, BeginBuild, LockForBuild, CommitBuild, TestMart, NodeUnreachable,
         databaseVars, pipelineVars
<1>2. \A u \in Builds \ {t} : node'[u] = node[u]
  BY DEF BuildStep, BeginBuild, LockForBuild, CommitBuild, TestMart, NodeUnreachable, SetNode,
         pipelineVars, PipelineInv, WholeInv, WarehouseTypeOK
<1>3. node'[t] = "test" => node[t] = "test" \/ (node[t] = "build" /\ t[2] \in DOMAIN marts')
  BY DEF BuildStep, BeginBuild, LockForBuild, CommitBuild, TestMart, NodeUnreachable, SetNode,
         pipelineVars, PipelineInv, WholeInv, WarehouseTypeOK
<1>4. node[t] = "build" => raw = Data
  BY BuildFacts DEF PipelineInv, NodesFollow, TestsFindData
<1>5. ASSUME NEW u \in Builds, node'[u] = "test"
      PROVE  raw' = Data /\ u[2] \in DOMAIN marts'
  <2>1. CASE u = t
    BY <1>1, <1>3, <1>4, <1>5, <2>1 DEF TestsFindData
  <2>2. CASE u # t
    BY <1>1, <1>2, <1>5, <2>2 DEF TestsFindData
  <2> QED
    BY <2>1, <2>2
<1> QED
  BY <1>1, <1>5 DEF TestsFindData

\* Tests go on finding the data.
LEMMA TestsKept ==
  ASSUME PipelineInv, TestsFindData, [Next]_vars
  PROVE  TestsFindData'
<1>1. ASSUME NEW p \in Pipelines, StartPipeline(p) \/ StartJob(p) \/ Step(p)
      PROVE  TestsFindData'
  <2>1. CASE CommitLoad(p)
    BY <2>1 DEF CommitLoad, TestsFindData
  <2>2. CASE \E m \in Models : BuildStep(<<p, m>>)
    <3>1. PICK t \in Builds : BuildStep(t)
      BY <2>2 DEF Builds
    <3> QED
      BY <3>1, NodeTestsKept
  <2> QED
    BY <1>1, <2>1, <2>2, PipelineTestsKept DEF Step
<1>2. CASE DeadlockDetected \/ TransactionFails \/ Outage \/ PostgresStarts \/ UNCHANGED vars
  <2>1. UNCHANGED <<raw, marts>>
    BY <1>2 DEF DeadlockDetected, TransactionFails, Outage, PostgresStarts, vars, databaseVars
  <2>2. /\ \A p \in Pipelines : pc'[p] = pc[p] \/ pc'[p] = "failed"
        /\ \A t \in Builds : node'[t] = node[t] \/ node'[t] = "failed"
    BY <1>2, RollbacksEnd
  <2> QED
    BY <2>1, <2>2 DEF TestsFindData
<1> QED
  BY <1>1, <1>2 DEF Next

\* What leaves one: a step that fails no node and dooms no pipeline.
LEMMA NobodyDoomed ==
  ASSUME OneLeft, faults = 0, up', attempts' = attempts,
         \A t \in Builds : node'[t] = "failed" => node[t] = "failed",
         \A p \in Pipelines : ~Doomed(p) => ~Doomed(p)'
  PROVE  OneLeft'
  BY DEF OneLeft

\* The steps of a pipeline before dbt build, but for the commit.
LEMMA PipelineLeavesOne ==
  ASSUME PipelineInv, OneLeft, faults = 0, WaitAttempts > 0, NEW p \in Pipelines,
         \/ StartPipeline(p) \/ StartJob(p) \/ WaitForPostgres(p) \/ Connect(p)
         \/ LockForLoad(p) \/ CreationLost(p) \/ BuildStaging(p) \/ FinishBuild(p)
  PROVE  OneLeft'
<1>0. /\ up /\ attempts[p] = 0
      /\ pc \in [Pipelines -> {"idle", "wait", "connect", "load", "staging", "build"} \cup Ended]
      /\ got \in [Transactions -> 0 .. 6]
  BY DEF OneLeft, PipelineInv, WholeInv, WarehouseTypeOK
<1>1. <<p, "load">> \in Transactions
  BY DEF Transactions, Loads
<1>2. up' /\ attempts' = attempts /\ UNCHANGED <<node, created>>
  BY <1>0 DEF StartPipeline, StartJob, Begin, WaitForPostgres, Connect, LockForLoad,
              CreationLost, BuildStaging, FinishBuild, databaseVars, pipelineVars
<1>3. \A q \in Pipelines \ {p} : pc'[q] = pc[q] /\ got'[<<q, "load">>] = got[<<q, "load">>]
  <2>1. \A q \in Pipelines \ {p} : <<q, "load">> \in Transactions /\ <<q, "load">> # <<p, "load">>
    BY DEF Transactions, Loads
  <2>2. \A q \in Pipelines \ {p} : pc'[q] = pc[q]
    BY <1>0 DEF StartPipeline, StartJob, Begin, WaitForPostgres, Connect, LockForLoad,
                CreationLost, BuildStaging, FinishBuild, Goto, pipelineVars
  <2>3. got' = got \/ \E n : got' = [got EXCEPT ![<<p, "load">>] = n]
    BY DEF StartPipeline, StartJob, Begin, WaitForPostgres, Connect, LockForLoad,
           CreationLost, BuildStaging, FinishBuild, lockVars
  <2> QED
    BY <1>0, <2>1, <2>2, <2>3
<1>4. ASSUME ~Doomed(p) PROVE ~Doomed(p)'
  <2>1. \A m \in Models : node'[<<p, m>>] # "failed"
    BY <1>2, <1>4 DEF Doomed
  <2>2. pc'[p] # "failed" /\ ~(pc'[p] = "load" /\ got'[<<p, "load">>] = 0 /\ created')
    <3>1. CASE StartPipeline(p) \/ StartJob(p)
      BY <1>0, <3>1 DEF StartPipeline, StartJob, Begin, Goto
    <3>2. CASE WaitForPostgres(p)
      BY <1>0, <3>2 DEF WaitForPostgres, Goto
    <3>3. CASE Connect(p)
      BY <1>0, <1>1, <1>2, <3>3 DEF Connect, Goto
    <3>4. CASE LockForLoad(p)
      <4>1. got'[<<p, "load">>] = got[<<p, "load">>] + 1 /\ got[<<p, "load">>] \in 0 .. 6
        BY <1>0, <1>1, <3>4 DEF LockForLoad
      <4>2. got'[<<p, "load">>] # 0
        BY <4>1
      <4> QED
        BY <1>4, <3>4, <4>2 DEF LockForLoad, pipelineVars, Doomed
    <3>5. CASE CreationLost(p)
      BY <1>4, <3>5 DEF CreationLost, Doomed
    <3>6. CASE BuildStaging(p)
      BY <1>0, <3>6 DEF BuildStaging, Goto
    <3>7. CASE FinishBuild(p)
      <4>1. \A m \in Models : node[<<p, m>>] = "done"
        BY <1>4, <3>7 DEF FinishBuild, Doomed
      <4> QED
        BY <1>0, <3>7, <4>1 DEF FinishBuild, Goto
    <3> QED
      BY <3>1, <3>2, <3>3, <3>4, <3>5, <3>6, <3>7
  <2> QED
    BY <2>1, <2>2 DEF Doomed
<1>5. ASSUME NEW q \in Pipelines \ {p}, ~Doomed(q) PROVE ~Doomed(q)'
  BY <1>2, <1>3, <1>5 DEF Doomed
<1> QED
  BY <1>2, <1>4, <1>5, NobodyDoomed

\* Whoever commits a load is left, even if this creation dooms others.
LEMMA CommitLeavesOne ==
  ASSUME PipelineInv, OneLeft, NEW p \in Pipelines, CommitLoad(p)
  PROVE  OneLeft'
<1>1. /\ UNCHANGED <<up, node, attempts, faults>>
      /\ pc[p] = "load" /\ pc'[p] = "staging"
  BY DEF CommitLoad, Goto, PipelineInv, WholeInv, WarehouseTypeOK
<1>2. ASSUME NEW m \in Models PROVE node[<<p, m>>] = "todo"
  <2>1. <<p, m>> \in Builds /\ <<p, m>>[1] = p
    BY DEF Builds
  <2> QED
    BY <1>1, <2>1 DEF PipelineInv, NodesFollow, Ended
<1>3. ~Doomed(p)'
  BY <1>1, <1>2 DEF Doomed
<1> QED
  BY <1>1, <1>3 DEF OneLeft

\* The steps of dbt build fail no node.
LEMMA NodeLeavesOne ==
  ASSUME PipelineInv, TestsFindData, OneLeft, faults = 0, Summed(Data.orders),
         NEW t \in Builds, BuildStep(t)
  PROVE  OneLeft'
<1>0. up
  BY DEF OneLeft
<1>1. UNCHANGED <<up, attempts, pc, created, faults>>
  BY DEF BuildStep, BeginBuild, LockForBuild, CommitBuild, TestMart, NodeUnreachable,
         databaseVars, pipelineVars
<1>2. node'[t] # "failed" \/ node[t] = "failed"
  <2>1. TestMart(t) => TestsPass(t[2])
    BY MartsPass DEF TestMart
  <2> QED
    BY <1>0, <2>1 DEF BuildStep, BeginBuild, LockForBuild, CommitBuild, TestMart,
       NodeUnreachable, SetNode, pipelineVars, PipelineInv, WholeInv, WarehouseTypeOK
<1>3. \A u \in Builds \ {t} : node'[u] = node[u]
  BY DEF BuildStep, BeginBuild, LockForBuild, CommitBuild, TestMart, NodeUnreachable, SetNode,
         pipelineVars, PipelineInv, WholeInv, WarehouseTypeOK
<1>4. \A u \in Builds : node'[u] = "failed" => node[u] = "failed"
  BY <1>2, <1>3
<1>5. \A p \in Pipelines : got'[<<p, "load">>] = got[<<p, "load">>]
  <2>1. \A p \in Pipelines : <<p, "load">> \in Transactions /\ <<p, "load">> # t
    BY BuildFacts DEF Transactions, Loads
  <2> QED
    BY <2>1 DEF BuildStep, BeginBuild, LockForBuild, CommitBuild, TestMart, NodeUnreachable,
       Release, lockVars, PipelineInv, WholeInv, WarehouseTypeOK
<1>6. ASSUME NEW p \in Pipelines, ~Doomed(p) PROVE ~Doomed(p)'
  <2>1. \A m \in Models : <<p, m>> \in Builds
    BY DEF Builds
  <2> QED
    BY <1>1, <1>4, <1>5, <1>6, <2>1 DEF Doomed
<1> QED
  BY <1>0, <1>1, <1>4, <1>6, NobodyDoomed

\* Only loads and the builds of dim_users hold a lock while they wait.
LEMMA WaitsHolding ==
  ASSUME NEW t \in Transactions, Waits(t), got[t] >= 1, got[t] \in Nat
  PROVE  t \in Loads \/ (t \in Builds /\ t[2] = "dim_users")
<1>1. SUFFICES ASSUME t \in Builds, t[2] # "dim_users" PROVE FALSE
  BY DEF Transactions
<1>2. Len(Script(t)) = 1
  <2>1. t[2] \in {"fct_daily_active_users", "fct_revenue_by_day"}
    BY <1>1, BuildFacts, ModelsAssumption DEF MartNames
  <2> QED
    BY <2>1 DEF Script
<1> QED
  BY <1>2 DEF Waits

\* A deadlock takes one of those who wait for each other, and leaves another.
LEMMA DeadlockLeavesOne ==
  ASSUME PipelineInv, OneLeft, faults = 0, DeadlockDetected
  PROVE  OneLeft'
<1>1. PICK ts \in SUBSET {t \in Transactions : Waits(t)} :
        /\ \A t \in ts : \E u \in ts : BlockedBy(t, u)
        /\ \E v \in ts : (\E t \in ts : BlockedBy(t, v)) /\ Abort({v})
  BY DEF DeadlockDetected
<1>2. PICK v \in ts : (\E t \in ts : BlockedBy(t, v)) /\ Abort({v})
  BY <1>1
<1>3. PICK u \in ts : BlockedBy(v, u)
  BY <1>1
<1>4. /\ up /\ UNCHANGED <<up, attempts, faults>>
      /\ \A t \in Builds : node[t] = "failed" => t[2] = "dim_users"
      /\ \A p \in Pipelines : attempts[p] = 0
  BY DEF OneLeft, DeadlockDetected, databaseVars
<1>5. \A t \in Transactions : got[t] \in Nat
  BY DEF PipelineInv, WholeInv, WarehouseTypeOK
<1>6. /\ u \in Transactions /\ Waits(u) /\ got[u] >= 1 /\ Open(u)
      /\ v \in Transactions /\ Waits(v) /\ got[v] >= 1 /\ Open(v)
      /\ u # v
  BY <1>1, <1>2, <1>3, <1>5 DEF BlockedBy
<1>7. /\ u \in Loads \/ (u \in Builds /\ u[2] = "dim_users")
      /\ v \in Loads \/ (v \in Builds /\ v[2] = "dim_users")
  BY <1>5, <1>6, WaitsHolding
<1>8. /\ \A p \in Pipelines : pc'[p] = IF <<p, "load">> = v THEN "failed" ELSE pc[p]
      /\ \A t \in Builds : node'[t] = IF t = v THEN "failed" ELSE node[t]
      /\ \A t \in Transactions : got'[t] = IF t = v THEN 0 ELSE got[t]
  BY <1>2 DEF Abort, Release
<1>9. \A t \in Builds : node'[t] = "failed" => t[2] = "dim_users"
  <2>1. \A t \in Builds : t \notin Loads
    BY BuildFacts
  <2> QED
    BY <1>4, <1>7, <1>8, <2>1
<1>10. u[1] \in Pipelines /\ ~Doomed(u[1])'
  <2>1. PICK p : p = u[1]
    OBVIOUS
  <2>2. ASSUME NEW m \in Models
        PROVE  <<p, m>> \in Builds /\ <<p, m>>[1] = p /\ <<p, m>>[2] = m
    BY <1>7, <2>1, LoadFacts, BuildFacts DEF Builds
  <2>3. CASE u \in Loads
    <3>1. p \in Pipelines /\ u = <<p, "load">> /\ pc[p] = "load"
      BY <1>6, <2>1, <2>3, LoadFacts
    <3>2. pc'[p] = "load" /\ got'[<<p, "load">>] # 0
      BY <1>6, <1>8, <3>1
    <3>3. ASSUME NEW m \in Models PROVE node'[<<p, m>>] # "failed"
      <4>1. node[<<p, m>>] = "todo"
        BY <2>2, <3>1 DEF PipelineInv, NodesFollow, Ended
      <4>2. <<p, m>> # v
        BY <1>6, <2>2, <4>1, BuildFacts
      <4> QED
        BY <1>8, <2>2, <4>1, <4>2
    <3> QED
      BY <2>1, <3>1, <3>2, <3>3 DEF Doomed
  <2>4. CASE u \in Builds /\ u[2] = "dim_users"
    <3>1. /\ p \in Pipelines /\ u = <<p, "dim_users">> /\ node[u] = "build"
          /\ pc[p] = "build"
      BY <1>6, <2>1, <2>4, BuildFacts DEF PipelineInv, NodesFollow
    <3>2. pc'[p] = "build"
      <4>1. <<p, "load">> \in Loads /\ <<p, "load">>[1] = p
        BY <3>1 DEF Loads
      <4>2. <<p, "load">> # v
        BY <1>6, <3>1, <4>1, LoadFacts
      <4> QED
        BY <1>8, <3>1, <4>2
    <3>3. ASSUME NEW m \in Models, node'[<<p, m>>] = "failed" PROVE FALSE
      <4>1. m = "dim_users"
        BY <1>9, <2>2, <3>3
      <4>2. <<p, m>> = u /\ u \in Builds
        BY <2>4, <3>1, <4>1
      <4> QED
        BY <1>6, <1>8, <3>1, <3>3, <4>2
    <3> QED
      BY <2>1, <3>1, <3>2, <3>3 DEF Doomed
  <2> QED
    BY <1>7, <2>3, <2>4
<1> QED
  BY <1>4, <1>9, <1>10 DEF OneLeft

\* Every step leaves one.
LEMMA StepLeavesOne ==
  ASSUME RescueInv, [Next]_vars, WaitAttempts > 0, Summed(Data.orders)
  PROVE  OneLeft'
<1>0. PipelineInv /\ TestsFindData /\ OneLeft
  BY DEF RescueInv
<1>1. SUFFICES ASSUME faults' = 0 PROVE OneLeft'
  BY DEF OneLeft
<1>2. faults \in Nat
  BY <1>0 DEF PipelineInv, WholeInv, WarehouseTypeOK
<1>3. ~Fault
  BY <1>1, <1>2 DEF Fault
<1>4. ASSUME NEW p \in Pipelines, StartPipeline(p) \/ StartJob(p) \/ Step(p)
      PROVE  OneLeft'
  <2>1. CASE CommitLoad(p)
    BY <1>0, <2>1, CommitLeavesOne
  <2>2. CASE \E m \in Models : BuildStep(<<p, m>>)
    <3>1. PICK t \in Builds : BuildStep(t)
      BY <2>2 DEF Builds
    <3>2. faults = 0
      BY <1>1, <3>1 DEF BuildStep, BeginBuild, LockForBuild, CommitBuild, TestMart, NodeUnreachable
    <3> QED
      BY <1>0, <3>1, <3>2, NodeLeavesOne
  <2>3. CASE \/ StartPipeline(p) \/ StartJob(p) \/ WaitForPostgres(p) \/ Connect(p)
             \/ LockForLoad(p) \/ CreationLost(p) \/ BuildStaging(p) \/ FinishBuild(p)
    <3>1. faults = 0
      BY <1>1, <2>3 DEF StartPipeline, StartJob, Begin, WaitForPostgres, Connect, LockForLoad,
         CreationLost, BuildStaging, FinishBuild
    <3> QED
      BY <1>0, <2>3, <3>1, PipelineLeavesOne
  <2> QED
    BY <1>4, <2>1, <2>2, <2>3 DEF Step
<1>5. CASE DeadlockDetected
  <2>1. faults = 0
    BY <1>1, <1>5 DEF DeadlockDetected
  <2> QED
    BY <1>0, <1>5, <2>1, DeadlockLeavesOne
<1>6. CASE PostgresStarts
  BY <1>0, <1>1, <1>6 DEF PostgresStarts, OneLeft
<1>7. CASE UNCHANGED vars
  BY <1>0, <1>7 DEF vars, databaseVars, pipelineVars, lockVars, OneLeft, Doomed
<1> QED
  BY <1>3, <1>4, <1>5, <1>6, <1>7 DEF Next, TransactionFails, Outage

\* For any number of pipelines and any choice of marts, of a dataset whose
\* orders can be added up: if pipelines begin at all, and wait for Postgres at
\* all, deadlocks and lost creations never take all of them.
THEOREM OneSucceeds ==
  Pipelines # {} /\ WaitAttempts > 0 /\ Summed(Data.orders) => (Spec => []SomePipelineSucceeds)
<1> SUFFICES ASSUME Pipelines # {}, WaitAttempts > 0, Summed(Data.orders)
             PROVE  Spec => []SomePipelineSucceeds
  OBVIOUS
<1>1. Init => TestsFindData /\ OneLeft
  <2> SUFFICES ASSUME Init PROVE TestsFindData /\ OneLeft
    OBVIOUS
  <2>1. /\ \A p \in Pipelines : pc[p] = "idle" /\ attempts[p] = 0
        /\ \A t \in Builds : node[t] = "todo"
        /\ up
    BY DEF Init
  <2>2. \A p \in Pipelines, m \in Models : node[<<p, m>>] = "todo"
    BY <2>1 DEF Builds
  <2> QED
    BY <2>1, <2>2 DEF TestsFindData, OneLeft, Doomed
<1>2. PipelineInv /\ TestsFindData /\ OneLeft /\ [Next]_vars => TestsFindData' /\ OneLeft'
  BY TestsKept, StepLeavesOne DEF RescueInv
<1>3. PipelineInv /\ OneLeft => SomePipelineSucceeds
  <2> SUFFICES ASSUME OneLeft, \A p \in Pipelines : pc[p] \in Ended, faults = 0
               PROVE  \E p \in Pipelines : pc[p] = "success"
    BY DEF SomePipelineSucceeds
  <2> QED
    BY DEF OneLeft, Doomed, Ended
<1> QED
  BY <1>1, <1>2, <1>3, PipelineSound, PTL DEF Spec

=============================================================================
