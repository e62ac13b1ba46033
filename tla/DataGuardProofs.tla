--------------------------- MODULE DataGuardProofs ---------------------------
(***************************************************************************)
(* Proofs about DataGuard's jobs, results and API, for every set of jobs,  *)
(* with either clock, and for every difference between the two; and, from  *)
(* "Samples" on, about its drift statistics, for every two samples.        *)
(***************************************************************************)
EXTENDS DataGuard, Drift, FiniteSums

-----------------------------------------------------------------------------
(* The invariant *)

\* TypeOK without what the checks compute.
StateOK ==
  /\ wallclock \in ClockModes
  /\ tables \in [TableNames -> Nat \cup {Absent}]
  /\ pc \in [Jobs -> {"idle", "done"} \cup Seeding \cup Running]
  /\ at \in [Jobs -> DOMAIN Tables]
  /\ copies \in [Jobs -> Nat]
  /\ baseline \in [Jobs -> Nat]
  /\ order \in [Jobs -> 0 .. Cardinality(Jobs)]
  /\ dead \subseteq Jobs
  /\ disturbed \subseteq Jobs
  /\ latest \in Jobs \cup {NoJob}
  /\ answer.run \in Jobs \cup {NoJob}

\* Between creating a table and filling it, the table is there.
SeedInv ==
  /\ EmptyOnlyMidSeed
  /\ \A job \in Jobs : pc[job] \in {"delete", "insert"} => tables[Table(job)] # Absent

\* Runs are numbered in the order in which they begin.
OrderInv ==
  /\ \A job \in Jobs :
       /\ order[job] > 0 <=> pc[job] \in Running \cup {"done"}
       /\ order[job] <= Cardinality(Begun)
  /\ \A j, k \in Jobs : order[j] = order[k] /\ order[j] > 0 => j = k

\* A run that nobody disturbed reads every table with the seed data in it.
SeededInv ==
  \A job \in Jobs \ (disturbed \cup dead) :
    pc[job] \in Running =>
      /\ ~HalfSeeded
      /\ pc[job] \in {"resolve", "persist"} => copies[job] >= 1
      /\ pc[job] = "persist" => baseline[job] >= 1

\* The job's insertion of the results of the table has taken effect.
Stored(job, i) == pc[job] = "done" \/ (pc[job] \in Running /\ i < at[job])

\* The results of the job for its i-th table.
RowsOf(job, i) == {row \in results : row.run = job /\ row.table = Tables[i]}

\* The rows of the i-th table when it was read with n copies of the seed rows,
\* and the baseline with base.
RowsFor(job, i, n, base) ==
  LET checked == RunChecks(FrameOf(Tables[i], n), base)
  IN  {Row(job, Tables[i], result, score_table(checked)) : result \in checked}

\* The results are those of one pass over each table, or there are none.
RowsInv ==
  /\ \A job \in Jobs : pc[job] = "idle" => at[job] = 1
  /\ \A row \in results : row.run \in Jobs /\ row.table \in TableNames
  /\ \A job \in Jobs, i \in DOMAIN Tables :
       /\ ~Stored(job, i) => RowsOf(job, i) = {}
       /\ Stored(job, i) =>
            \E n, base \in Nat :
              /\ RowsOf(job, i) = RowsFor(job, i, n, base)
              /\ job \notin disturbed => n >= 1 /\ base >= 1

\* What the API has in hand is a run that stored something, and not an older
\* one than it answered with before.
ApiInv ==
  /\ latest # NoJob => \E row \in results : row.run = latest
  /\ answer.run # NoJob => \E row \in results : row.run = answer.run
  /\ answer.scores \subseteq fetch_scores(answer.run)
  /\ wallclock /\ latest # NoJob /\ answer.run # NoJob => order[latest] >= order[answer.run]

\* The inductive invariant.
GuardInv == StateOK /\ SeedInv /\ OrderInv /\ SeededInv /\ RowsInv /\ ApiInv

-----------------------------------------------------------------------------
(* Tables and runs *)

\* There are two tables, and the seeder's order is without repetition.
LEMMA TableFacts ==
  /\ DOMAIN Tables = {1, 2} /\ Len(Tables) = 2
  /\ Tables[1] = "orders_clean" /\ Tables[2] = "orders_drifted"
  /\ \A i \in DOMAIN Tables : Tables[i] \in TableNames
  /\ \A i, j \in DOMAIN Tables : Tables[i] = Tables[j] => i = j
  /\ \A t \in TableNames : \E i \in DOMAIN Tables : t = Tables[i]
  BY DEF Tables, TableNames

\* Where a job is after its step for a table.
LEMMA NextTableYields ==
  ASSUME StateOK, NEW job \in Jobs, NEW again, NEW after, NextTable(job, again, after)
  PROVE  \/ /\ at[job] = 1 /\ pc' = [pc EXCEPT ![job] = again]
            /\ at' = [at EXCEPT ![job] = 2]
         \/ /\ at[job] = 2 /\ pc' = [pc EXCEPT ![job] = after]
            /\ at' = [at EXCEPT ![job] = 1]
<1>1. at[job] \in {1, 2} /\ at \in [Jobs -> {1, 2}]
  BY TableFacts DEF StateOK
<1>2. CASE at[job] = 1
  BY <1>1, <1>2, TableFacts DEF NextTable, Goto
<1>3. CASE at[job] = 2
  BY <1>1, <1>3, TableFacts DEF NextTable, Goto
<1> QED
  BY <1>1, <1>2, <1>3

\* A run that begins has the next number, which no other has.
LEMMA BeginRunYields ==
  ASSUME StateOK, OrderInv, NEW job \in Jobs, pc[job] \in {"idle"} \cup Seeding, BeginRun(job)
  PROVE  /\ order' = [order EXCEPT ![job] = Cardinality(Begun) + 1]
         /\ Cardinality(Begun) \in Nat /\ Cardinality(Begun) + 1 \in 0 .. Cardinality(Jobs)
         /\ order[job] = 0
         /\ Begun' = Begun \cup {job} /\ Cardinality(Begun') = Cardinality(Begun) + 1
         /\ disturbed' = IF HalfSeeded' THEN disturbed \cup {job} ELSE disturbed
<1>1. order[job] = 0
  <2>1. order[job] \in 0 .. Cardinality(Jobs) /\ ~(order[job] > 0)
    BY DEF StateOK, OrderInv, Seeding, Running
  <2>2. Cardinality(Jobs) \in Nat
    BY JobsAssumption, FS_CardinalityType
  <2> QED
    BY <2>1, <2>2
<1>2. order' = [order EXCEPT ![job] = Cardinality(Begun) + 1]
  BY DEF BeginRun
<1>3. Begun \subseteq Jobs /\ job \notin Begun
  BY <1>1 DEF Begun
<1>4. IsFiniteSet(Begun) /\ Cardinality(Begun) \in Nat
  BY <1>3, JobsAssumption, FS_Subset, FS_CardinalityType
<1>5. Cardinality(Begun \cup {job}) = Cardinality(Begun) + 1
  BY <1>3, <1>4, FS_AddElement
<1>6. Cardinality(Begun \cup {job}) <= Cardinality(Jobs)
  BY <1>3, JobsAssumption, FS_Subset
<1>7. Cardinality(Jobs) \in Nat
  BY JobsAssumption, FS_CardinalityType
<1>8. Begun' = Begun \cup {job}
  <2>1. order'[job] > 0 /\ \A k \in Jobs \ {job} : order'[k] = order[k]
    BY <1>2, <1>4 DEF StateOK
  <2> QED
    BY <2>1 DEF Begun
<1>9. disturbed' = IF HalfSeeded' THEN disturbed \cup {job} ELSE disturbed
  BY DEF BeginRun
<1> QED
  BY <1>1, <1>2, <1>4, <1>5, <1>6, <1>7, <1>8, <1>9

-----------------------------------------------------------------------------
(* Types *)

\* Every step keeps the types.
LEMMA StateStep ==
  ASSUME GuardInv, [Next]_vars
  PROVE  StateOK'
<1>0. StateOK /\ OrderInv /\ \A row \in results : row.run \in Jobs
  BY DEF GuardInv, RowsInv
<1>1. ASSUME NEW job \in Jobs, StartSeeder(job)
      PROVE  StateOK'
  <2>1. pc' \in [Jobs -> {"idle", "done"} \cup Seeding \cup Running]
    BY <1>0, <1>1 DEF StateOK, StartSeeder, Goto, Seeding
  <2> QED
    BY <1>0, <1>1, <2>1 DEF StateOK, StartSeeder, readerVars
<1>2. ASSUME NEW job \in Jobs, CreateTable(job) \/ TruncateTable(job)
      PROVE  StateOK'
  <2>1. Table(job) \in TableNames
    BY <1>0, TableFacts DEF StateOK, Table
  <2>2. tables' \in [TableNames -> Nat \cup {Absent}]
    BY <1>0, <1>2, <2>1 DEF StateOK, CreateTable, TruncateTable
  <2>3. pc' \in [Jobs -> {"idle", "done"} \cup Seeding \cup Running]
    BY <1>0, <1>2 DEF StateOK, CreateTable, TruncateTable, Goto, Seeding
  <2>4. disturbed' \subseteq Jobs
    BY <1>0, <1>2 DEF StateOK, CreateTable, TruncateTable
  <2> QED
    BY <1>0, <1>2, <2>2, <2>3, <2>4 DEF StateOK, CreateTable, TruncateTable, readerVars
<1>3. ASSUME NEW job \in Jobs, InsertRows(job)
      PROVE  StateOK'
  <2>1. Table(job) \in TableNames /\ pc[job] = "insert"
    BY <1>0, <1>3, TableFacts DEF StateOK, Table, InsertRows, At
  <2>2. tables' \in [TableNames -> Nat \cup {Absent}]
    BY <1>0, <1>3, <2>1 DEF StateOK, InsertRows, Absent
  <2>3. /\ pc' \in [Jobs -> {"idle", "done"} \cup Seeding \cup Running]
        /\ at' \in [Jobs -> DOMAIN Tables]
    <3>1. NextTable(job, "create", "load")
      BY <1>3 DEF InsertRows
    <3> QED
      BY <1>0, <3>1, NextTableYields, TableFacts DEF StateOK, Seeding, Running
  <2>4. order' \in [Jobs -> 0 .. Cardinality(Jobs)] /\ disturbed' \subseteq Jobs
    <3>1. CASE pc'[job] = "load"
      <4>1. BeginRun(job) /\ pc[job] \in {"idle"} \cup Seeding
        BY <1>3, <2>1, <3>1 DEF InsertRows, Seeding
      <4>2. /\ order' = [order EXCEPT ![job] = Cardinality(Begun) + 1]
            /\ Cardinality(Begun) + 1 \in 0 .. Cardinality(Jobs)
            /\ disturbed' = IF HalfSeeded' THEN disturbed \cup {job} ELSE disturbed
        BY <1>0, <4>1, BeginRunYields
      <4>3. order' \in [Jobs -> 0 .. Cardinality(Jobs)]
        BY <1>0, <4>2 DEF StateOK
      <4>4. disturbed' \subseteq Jobs
        BY <1>0, <4>2 DEF StateOK
      <4> QED
        BY <4>3, <4>4
    <3>2. CASE pc'[job] # "load"
      BY <1>0, <1>3, <3>2 DEF InsertRows, StateOK
    <3> QED
      BY <3>1, <3>2
  <2> QED
    BY <1>0, <1>3, <2>2, <2>3, <2>4 DEF StateOK, InsertRows, readerVars
<1>4. ASSUME NEW job \in Jobs, StartRunner(job)
      PROVE  StateOK'
  <2>1. BeginRun(job) /\ pc[job] \in {"idle"} \cup Seeding
    BY <1>4 DEF StartRunner, At
  <2>2. /\ order' = [order EXCEPT ![job] = Cardinality(Begun) + 1]
        /\ Cardinality(Begun) + 1 \in 0 .. Cardinality(Jobs)
        /\ disturbed' = IF HalfSeeded' THEN disturbed \cup {job} ELSE disturbed
    BY <1>0, <2>1, BeginRunYields
  <2>3. order' \in [Jobs -> 0 .. Cardinality(Jobs)]
    BY <1>0, <2>2 DEF StateOK
  <2>4. disturbed' \subseteq Jobs
    BY <1>0, <2>2 DEF StateOK
  <2>5. pc' \in [Jobs -> {"idle", "done"} \cup Seeding \cup Running]
    BY <1>0, <1>4 DEF StateOK, StartRunner, Goto, Running
  <2> QED
    BY <1>0, <1>4, <2>3, <2>4, <2>5 DEF StateOK, StartRunner, readerVars
<1>5. ASSUME NEW job \in Jobs, LoadTable(job) \/ ResolveBaseline(job)
      PROVE  StateOK'
  <2>1. Table(job) \in TableNames /\ BaselineTable \in TableNames
    BY <1>0, TableFacts DEF StateOK, Table, BaselineTable, TableNames
  <2>2. /\ copies' \in [Jobs -> Nat] /\ baseline' \in [Jobs -> Nat]
        /\ pc' \in [Jobs -> {"idle", "done"} \cup Seeding \cup Running]
        /\ dead' \subseteq Jobs
    <3>1. CASE LoadTable(job) /\ tables[Table(job)] = Absent
      BY <1>0, <3>1 DEF StateOK, LoadTable, Reading
    <3>2. CASE LoadTable(job) /\ tables[Table(job)] # Absent
      <4>1. tables[Table(job)] \in Nat
        BY <1>0, <2>1, <3>2 DEF StateOK
      <4> QED
        BY <1>0, <3>2, <4>1 DEF StateOK, LoadTable, Reading, Goto, Running
    <3>3. CASE ResolveBaseline(job) /\ tables[BaselineTable] = Absent
      BY <1>0, <3>3 DEF StateOK, ResolveBaseline, Reading
    <3>4. CASE ResolveBaseline(job) /\ tables[BaselineTable] # Absent
      <4>1. tables[BaselineTable] \in Nat
        BY <1>0, <2>1, <3>4 DEF StateOK
      <4> QED
        BY <1>0, <3>4, <4>1 DEF StateOK, ResolveBaseline, Reading, Goto, Running
    <3> QED
      BY <1>5, <3>1, <3>2, <3>3, <3>4
  <2> QED
    BY <1>0, <1>5, <2>2 DEF StateOK, LoadTable, ResolveBaseline, readerVars
<1>6. ASSUME NEW job \in Jobs, Persist(job)
      PROVE  StateOK'
  <2>1. NextTable(job, "load", "done")
    BY <1>6 DEF Persist
  <2>2. /\ pc' \in [Jobs -> {"idle", "done"} \cup Seeding \cup Running]
        /\ at' \in [Jobs -> DOMAIN Tables]
    BY <1>0, <2>1, NextTableYields, TableFacts DEF StateOK, Running
  <2> QED
    BY <1>0, <1>6, <2>2 DEF StateOK, Persist, readerVars
<1>7. ASSUME NEW job \in Jobs, Crash(job)
      PROVE  StateOK'
  BY <1>0, <1>7 DEF StateOK, Crash, jobVars, readerVars
<1>8. CASE LatestRunId
  <2>1. latest' \in Jobs
    BY <1>0, <1>8 DEF LatestRunId, LatestRunIds
  <2> QED
    BY <1>0, <1>8, <2>1 DEF StateOK, LatestRunId, jobVars
<1>9. CASE FetchScores
  BY <1>0, <1>9 DEF StateOK, FetchScores, jobVars
<1>10. CASE UNCHANGED vars
  BY <1>0, <1>10 DEF StateOK, vars, jobVars, readerVars
<1> QED
  BY <1>1, <1>2, <1>3, <1>4, <1>5, <1>6, <1>7, <1>8, <1>9, <1>10 DEF Next

-----------------------------------------------------------------------------
(* The demo tables *)

\* A table is empty only between its creation or truncation and its insertion.
LEMMA SeedStep ==
  ASSUME GuardInv, [Next]_vars
  PROVE  SeedInv'
<1>0. /\ StateOK /\ StateOK'
      /\ \A i \in DOMAIN Tables :
           tables[Tables[i]] = 0 => \E job \in Jobs : pc[job] \in {"delete", "insert"} /\ at[job] = i
      /\ \A job \in Jobs : pc[job] \in {"delete", "insert"} => tables[Tables[at[job]]] # Absent
  BY StateStep DEF GuardInv, SeedInv, EmptyOnlyMidSeed, Table
<1>1. SUFFICES
        /\ \A i \in DOMAIN Tables :
             tables'[Tables[i]] = 0 =>
               \E job \in Jobs : pc'[job] \in {"delete", "insert"} /\ at'[job] = i
        /\ \A job \in Jobs :
             pc'[job] \in {"delete", "insert"} => tables'[Tables[at'[job]]] # Absent
  BY DEF SeedInv, EmptyOnlyMidSeed, Table
<1>2. \A job \in Jobs : at[job] \in DOMAIN Tables /\ Tables[at[job]] \in TableNames
  BY <1>0, TableFacts DEF StateOK
<1>3. ASSUME NEW job \in Jobs, CreateTable(job) \/ TruncateTable(job)
      PROVE  /\ \A i \in DOMAIN Tables :
                  tables'[Tables[i]] = 0 =>
                    \E k \in Jobs : pc'[k] \in {"delete", "insert"} /\ at'[k] = i
             /\ \A k \in Jobs :
                  pc'[k] \in {"delete", "insert"} => tables'[Tables[at'[k]]] # Absent
  <2>1. /\ at' = at /\ pc'[job] \in {"delete", "insert"}
        /\ \A k \in Jobs \ {job} : pc'[k] = pc[k]
        /\ pc[job] \in {"create", "delete"}
    BY <1>0, <1>3 DEF CreateTable, TruncateTable, Goto, At, StateOK
  <2>2. /\ \A t \in TableNames \ {Tables[at[job]]} : tables'[t] = tables[t]
        /\ tables'[Tables[at[job]]] # Absent
        /\ tables[Tables[at[job]]] # Absent => \A t \in TableNames : tables'[t] # Absent \/ tables[t] = Absent
    BY <1>0, <1>2, <1>3 DEF CreateTable, TruncateTable, StateOK, Table, Absent
  <2>3. ASSUME NEW i \in DOMAIN Tables, tables'[Tables[i]] = 0
        PROVE  \E k \in Jobs : pc'[k] \in {"delete", "insert"} /\ at'[k] = i
    <3>1. CASE i = at[job]
      BY <2>1, <3>1
    <3>2. CASE i # at[job]
      <4>1. Tables[i] \in TableNames /\ Tables[i] # Tables[at[job]]
        BY <1>2, <3>2, TableFacts
      <4>2. PICK k \in Jobs : pc[k] \in {"delete", "insert"} /\ at[k] = i
        BY <1>0, <2>2, <2>3, <4>1
      <4> QED
        BY <2>1, <3>2, <4>2
    <3> QED
      BY <3>1, <3>2
  <2>4. ASSUME NEW k \in Jobs, pc'[k] \in {"delete", "insert"}
        PROVE  tables'[Tables[at'[k]]] # Absent
    <3>1. CASE Tables[at[k]] = Tables[at[job]]
      BY <2>1, <2>2, <3>1
    <3>2. CASE Tables[at[k]] # Tables[at[job]]
      <4>1. pc[k] \in {"delete", "insert"}
        BY <2>1, <2>4, <3>2
      <4> QED
        BY <1>0, <1>2, <2>1, <2>2, <3>2, <4>1
    <3> QED
      BY <3>1, <3>2
  <2> QED
    BY <2>3, <2>4
<1>4. ASSUME NEW job \in Jobs, InsertRows(job)
      PROVE  /\ \A i \in DOMAIN Tables :
                  tables'[Tables[i]] = 0 =>
                    \E k \in Jobs : pc'[k] \in {"delete", "insert"} /\ at'[k] = i
             /\ \A k \in Jobs :
                  pc'[k] \in {"delete", "insert"} => tables'[Tables[at'[k]]] # Absent
  <2>1. NextTable(job, "create", "load") /\ pc[job] = "insert"
    BY <1>4 DEF InsertRows, At
  <2>2. /\ pc'[job] \in {"create", "load"}
        /\ \A k \in Jobs \ {job} : pc'[k] = pc[k] /\ at'[k] = at[k]
    BY <1>0, <2>1, NextTableYields DEF StateOK
  <2>3. tables[Tables[at[job]]] \in Nat
    BY <1>0, <1>2, <2>1 DEF StateOK
  <2>4. /\ \A t \in TableNames \ {Tables[at[job]]} : tables'[t] = tables[t]
        /\ tables'[Tables[at[job]]] = tables[Tables[at[job]]] + 1
    BY <1>0, <1>2, <1>4 DEF InsertRows, StateOK, Table
  <2>5. tables'[Tables[at[job]]] # 0 /\ tables'[Tables[at[job]]] # Absent
    BY <2>3, <2>4 DEF Absent
  <2>6. ASSUME NEW i \in DOMAIN Tables, tables'[Tables[i]] = 0
        PROVE  \E k \in Jobs : pc'[k] \in {"delete", "insert"} /\ at'[k] = i
    <3>1. Tables[i] # Tables[at[job]] /\ Tables[i] \in TableNames
      BY <2>5, <2>6, TableFacts
    <3>2. PICK k \in Jobs : pc[k] \in {"delete", "insert"} /\ at[k] = i
      BY <1>0, <2>4, <2>6, <3>1
    <3> QED
      BY <2>2, <3>1, <3>2
  <2>7. ASSUME NEW k \in Jobs, pc'[k] \in {"delete", "insert"}
        PROVE  tables'[Tables[at'[k]]] # Absent
    <3>1. k # job /\ pc[k] \in {"delete", "insert"} /\ at'[k] = at[k]
      BY <2>2, <2>7
    <3> QED
      BY <1>0, <1>2, <2>4, <2>5, <3>1
  <2> QED
    BY <2>6, <2>7
<1>5. ASSUME tables' = tables,
             \A k \in Jobs : \/ pc'[k] = pc[k] /\ at'[k] = at[k]
                             \/ /\ pc[k] \notin {"delete", "insert"}
                                /\ pc'[k] \notin {"delete", "insert"}
      PROVE  /\ \A i \in DOMAIN Tables :
                  tables'[Tables[i]] = 0 =>
                    \E k \in Jobs : pc'[k] \in {"delete", "insert"} /\ at'[k] = i
             /\ \A k \in Jobs :
                  pc'[k] \in {"delete", "insert"} => tables'[Tables[at'[k]]] # Absent
  <2>1. ASSUME NEW i \in DOMAIN Tables, tables'[Tables[i]] = 0
        PROVE  \E k \in Jobs : pc'[k] \in {"delete", "insert"} /\ at'[k] = i
    <3>1. PICK k \in Jobs : pc[k] \in {"delete", "insert"} /\ at[k] = i
      BY <1>0, <1>5, <2>1
    <3> QED
      BY <1>5, <3>1
  <2>2. ASSUME NEW k \in Jobs, pc'[k] \in {"delete", "insert"}
        PROVE  tables'[Tables[at'[k]]] # Absent
    BY <1>0, <1>5, <2>2
  <2> QED
    BY <2>1, <2>2
<1>6. ASSUME NEW job \in Jobs,
             \/ StartSeeder(job) \/ StartRunner(job) \/ LoadTable(job) \/ ResolveBaseline(job)
             \/ Crash(job)
      PROVE  /\ tables' = tables
             /\ \A k \in Jobs : \/ pc'[k] = pc[k] /\ at'[k] = at[k]
                                \/ /\ pc[k] \notin {"delete", "insert"}
                                   /\ pc'[k] \notin {"delete", "insert"}
  BY <1>0, <1>6 DEF StartSeeder, StartRunner, LoadTable, ResolveBaseline, Reading, Crash, Goto, At,
                    jobVars, StateOK
<1>7. ASSUME NEW job \in Jobs, Persist(job)
      PROVE  /\ tables' = tables
             /\ \A k \in Jobs : \/ pc'[k] = pc[k] /\ at'[k] = at[k]
                                \/ /\ pc[k] \notin {"delete", "insert"}
                                   /\ pc'[k] \notin {"delete", "insert"}
  <2>1. NextTable(job, "load", "done") /\ pc[job] = "persist" /\ tables' = tables
    BY <1>7 DEF Persist, At
  <2> QED
    BY <1>0, <2>1, NextTableYields DEF StateOK
<1>8. ASSUME LatestRunId \/ FetchScores \/ UNCHANGED vars
      PROVE  /\ tables' = tables
             /\ \A k \in Jobs : pc'[k] = pc[k] /\ at'[k] = at[k]
  BY <1>8 DEF LatestRunId, FetchScores, vars, jobVars
<1> QED
  BY <1>3, <1>4, <1>5, <1>6, <1>7, <1>8 DEF Next

-----------------------------------------------------------------------------
(* The order of runs *)

\* The number a run gets is above those given before.
LEMMA BeginKeepsOrder ==
  ASSUME StateOK, OrderInv, NEW job \in Jobs, pc[job] \in {"idle"} \cup Seeding,
         BeginRun(job), pc'[job] = "load", \A k \in Jobs \ {job} : pc'[k] = pc[k]
  PROVE  OrderInv'
<1>1. /\ order' = [order EXCEPT ![job] = Cardinality(Begun) + 1]
      /\ Cardinality(Begun) \in Nat
      /\ Cardinality(Begun') = Cardinality(Begun) + 1
  BY BeginRunYields
<1>2. \A k \in Jobs : order[k] \in Int /\ order[k] <= Cardinality(Begun)
  <2>1. Cardinality(Jobs) \in Nat
    BY JobsAssumption, FS_CardinalityType
  <2> QED
    BY <2>1 DEF StateOK, OrderInv
<1>3. order'[job] = Cardinality(Begun) + 1 /\ \A k \in Jobs \ {job} : order'[k] = order[k]
  BY <1>1 DEF StateOK
<1>4. ASSUME NEW k \in Jobs
      PROVE  /\ order'[k] > 0 <=> pc'[k] \in Running \cup {"done"}
             /\ order'[k] <= Cardinality(Begun')
  <2>1. CASE k = job
    BY <1>1, <1>3, <2>1 DEF Running
  <2>2. CASE k # job
    BY <1>1, <1>2, <1>3, <2>2 DEF OrderInv
  <2> QED
    BY <2>1, <2>2
<1>5. ASSUME NEW j \in Jobs, NEW k \in Jobs, order'[j] = order'[k], order'[j] > 0
      PROVE  j = k
  BY <1>1, <1>2, <1>3, <1>5 DEF OrderInv
<1> QED
  BY <1>4, <1>5 DEF OrderInv

\* Every step keeps the order of runs.
LEMMA OrderStep ==
  ASSUME GuardInv, [Next]_vars
  PROVE  OrderInv'
<1>0. StateOK /\ OrderInv
  BY DEF GuardInv
<1>1. ASSUME order' = order,
             \A k \in Jobs : pc'[k] \in Running \cup {"done"} <=> pc[k] \in Running \cup {"done"}
      PROVE  OrderInv'
  <2>1. Begun' = Begun
    BY <1>1 DEF Begun
  <2> QED
    BY <1>0, <1>1, <2>1 DEF OrderInv
<1>2. ASSUME NEW job \in Jobs, InsertRows(job)
      PROVE  OrderInv'
  <2>1. NextTable(job, "create", "load") /\ pc[job] = "insert"
    BY <1>2 DEF InsertRows, At
  <2>2. /\ pc'[job] \in {"create", "load"}
        /\ \A k \in Jobs \ {job} : pc'[k] = pc[k]
    BY <1>0, <2>1, NextTableYields DEF StateOK
  <2>3. CASE pc'[job] = "load"
    <3>1. BeginRun(job)
      BY <1>2, <2>3 DEF InsertRows
    <3> QED
      BY <1>0, <2>1, <2>2, <2>3, <3>1, BeginKeepsOrder DEF Seeding
  <2>4. CASE pc'[job] # "load"
    <3>1. order' = order
      BY <1>2, <2>4 DEF InsertRows
    <3> QED
      BY <1>1, <2>1, <2>2, <2>4, <3>1 DEF Running
  <2> QED
    BY <2>3, <2>4
<1>3. ASSUME NEW job \in Jobs, StartRunner(job)
      PROVE  OrderInv'
  <2>1. /\ pc[job] = "idle" /\ BeginRun(job) /\ pc'[job] = "load"
        /\ \A k \in Jobs \ {job} : pc'[k] = pc[k]
    BY <1>0, <1>3 DEF StartRunner, At, Goto, StateOK
  <2> QED
    BY <1>0, <2>1, BeginKeepsOrder
<1>4. ASSUME NEW job \in Jobs,
             \/ StartSeeder(job) \/ CreateTable(job) \/ TruncateTable(job)
             \/ LoadTable(job) \/ ResolveBaseline(job) \/ Crash(job)
      PROVE  /\ order' = order
             /\ \A k \in Jobs : pc'[k] \in Running \cup {"done"} <=> pc[k] \in Running \cup {"done"}
  BY <1>0, <1>4 DEF StartSeeder, CreateTable, TruncateTable, LoadTable, ResolveBaseline, Reading,
                    Crash, Goto, At, jobVars, StateOK, Running
<1>5. ASSUME NEW job \in Jobs, Persist(job)
      PROVE  /\ order' = order
             /\ \A k \in Jobs : pc'[k] \in Running \cup {"done"} <=> pc[k] \in Running \cup {"done"}
  <2>1. NextTable(job, "load", "done") /\ pc[job] = "persist" /\ order' = order
    BY <1>5 DEF Persist, At
  <2> QED
    BY <1>0, <2>1, NextTableYields DEF StateOK, Running
<1>6. ASSUME LatestRunId \/ FetchScores \/ UNCHANGED vars
      PROVE  order' = order /\ pc' = pc
  BY <1>6 DEF LatestRunId, FetchScores, vars, jobVars
<1> QED
  BY <1>1, <1>2, <1>3, <1>4, <1>5, <1>6 DEF Next

-----------------------------------------------------------------------------
(* Runs that nobody disturbed *)

\* Every step keeps the tables of an undisturbed run seeded.
LEMMA SeededStep ==
  ASSUME GuardInv, [Next]_vars
  PROVE  SeededInv'
<1>0. /\ StateOK /\ SeededInv
      /\ \A t \in TableNames : tables[t] \in Nat \cup {Absent}
      /\ \A job \in Jobs : at[job] \in DOMAIN Tables /\ Tables[at[job]] \in TableNames
      /\ BaselineTable \in TableNames
  BY TableFacts DEF GuardInv, StateOK, BaselineTable, TableNames
<1> SUFFICES ASSUME NEW k \in Jobs, k \notin disturbed', k \notin dead', pc'[k] \in Running
             PROVE  /\ ~HalfSeeded'
                    /\ pc'[k] \in {"resolve", "persist"} => copies'[k] >= 1
                    /\ pc'[k] = "persist" => baseline'[k] >= 1
  BY DEF SeededInv
<1>1. ASSUME k \notin disturbed, k \notin dead, pc[k] \in Running
      PROVE  /\ \A t \in TableNames : tables[t] >= 1 /\ tables[t] \in Nat /\ tables[t] # Absent
             /\ pc[k] \in {"resolve", "persist"} => copies[k] >= 1
             /\ pc[k] = "persist" => baseline[k] >= 1
  BY <1>0, <1>1 DEF SeededInv, HalfSeeded, Absent
<1>2. ASSUME NEW job \in Jobs, CreateTable(job)
      PROVE  /\ ~HalfSeeded'
             /\ pc'[k] \in {"resolve", "persist"} => copies'[k] >= 1
             /\ pc'[k] = "persist" => baseline'[k] >= 1
  <2>1. /\ UNCHANGED <<copies, baseline, dead, disturbed>> /\ pc'[k] = pc[k]
        /\ tables' = [tables EXCEPT ![Table(job)] = IF @ = Absent THEN 0 ELSE @]
    BY <1>0, <1>2 DEF CreateTable, Goto, StateOK, Running
  <2>2. \A t \in TableNames : tables[t] >= 1 /\ tables[t] \in Nat /\ tables[t] # Absent
    BY <1>1, <2>1
  <2>3. \A t \in TableNames : tables'[t] = tables[t]
    BY <1>0, <2>1, <2>2 DEF StateOK, Table
  <2> QED
    BY <1>1, <2>1, <2>2, <2>3 DEF HalfSeeded
<1>3. ASSUME NEW job \in Jobs, TruncateTable(job)
      PROVE  FALSE
  <2>1. /\ dead' = dead /\ pc'[k] = pc[k] /\ disturbed' = disturbed \cup {other \in Jobs : InRun(other)}
    BY <1>0, <1>3 DEF TruncateTable, Goto, StateOK, Running
  <2> QED
    BY <2>1 DEF InRun
<1>4. ASSUME NEW job \in Jobs, InsertRows(job)
      PROVE  /\ ~HalfSeeded'
             /\ pc'[k] \in {"resolve", "persist"} => copies'[k] >= 1
             /\ pc'[k] = "persist" => baseline'[k] >= 1
  <2>1. /\ NextTable(job, "create", "load") /\ pc[job] = "insert"
        /\ UNCHANGED <<copies, baseline, dead>>
        /\ tables' = [tables EXCEPT ![Table(job)] = @ + 1]
        /\ disturbed \subseteq disturbed'
    BY <1>4 DEF InsertRows, At, BeginRun
  <2>2. /\ pc'[job] \in {"create", "load"}
        /\ \A j \in Jobs \ {job} : pc'[j] = pc[j]
    BY <1>0, <2>1, NextTableYields DEF StateOK
  <2>3. CASE k = job
    <3>1. pc'[job] = "load" /\ BeginRun(job)
      BY <1>4, <2>2, <2>3 DEF InsertRows, Running
    <3>2. ~HalfSeeded'
      BY <2>3, <3>1 DEF BeginRun
    <3> QED
      BY <2>3, <3>1, <3>2
  <2>4. CASE k # job
    <3>1. \A t \in TableNames : tables[t] >= 1 /\ tables[t] \in Nat /\ tables[t] # Absent
      BY <1>1, <2>1, <2>2, <2>4
    <3>2. ASSUME NEW t \in TableNames PROVE tables'[t] \notin {Absent, 0}
      <4>1. tables'[t] = tables[t] \/ tables'[t] = tables[t] + 1
        BY <1>0, <2>1 DEF StateOK, Table
      <4> QED
        BY <3>1, <4>1 DEF Absent
    <3> QED
      BY <1>1, <2>1, <2>2, <2>4, <3>2 DEF HalfSeeded
  <2> QED
    BY <2>3, <2>4
<1>5. ASSUME NEW job \in Jobs, StartRunner(job)
      PROVE  /\ ~HalfSeeded'
             /\ pc'[k] \in {"resolve", "persist"} => copies'[k] >= 1
             /\ pc'[k] = "persist" => baseline'[k] >= 1
  <2>1. /\ UNCHANGED <<copies, baseline, dead, tables>> /\ BeginRun(job)
        /\ disturbed \subseteq disturbed'
        /\ pc'[job] = "load" /\ \A j \in Jobs \ {job} : pc'[j] = pc[j]
    BY <1>0, <1>5 DEF StartRunner, BeginRun, Goto, StateOK
  <2>2. CASE k = job
    BY <2>1, <2>2 DEF BeginRun
  <2>3. CASE k # job
    BY <1>1, <2>1, <2>3 DEF HalfSeeded
  <2> QED
    BY <2>2, <2>3
<1>6. ASSUME NEW job \in Jobs, LoadTable(job) \/ ResolveBaseline(job)
      PROVE  /\ ~HalfSeeded'
             /\ pc'[k] \in {"resolve", "persist"} => copies'[k] >= 1
             /\ pc'[k] = "persist" => baseline'[k] >= 1
  <2>1. /\ tables' = tables /\ disturbed' = disturbed /\ dead \subseteq dead'
        /\ \A j \in Jobs \ {job} : pc'[j] = pc[j] /\ copies'[j] = copies[j] /\ baseline'[j] = baseline[j]
        /\ pc[job] \in {"load", "resolve"}
    BY <1>0, <1>6 DEF LoadTable, ResolveBaseline, Reading, Goto, At, StateOK
  <2>2. pc[k] \in Running
    BY <2>1 DEF Running
  <2>3. \A t \in TableNames : tables[t] >= 1 /\ tables[t] \in Nat /\ tables[t] # Absent
    BY <1>1, <2>1, <2>2
  <2>4. ~HalfSeeded'
    BY <2>1, <2>3 DEF HalfSeeded, Absent
  <2>5. CASE k # job
    BY <1>1, <2>1, <2>2, <2>4, <2>5
  <2>6. CASE k = job /\ LoadTable(job)
    <3>1. tables[Table(job)] # Absent /\ tables[Table(job)] >= 1
      BY <1>0, <2>3 DEF Table
    <3>2. copies' = [copies EXCEPT ![job] = tables[Table(job)]] /\ pc' = [pc EXCEPT ![job] = "resolve"]
      BY <2>6, <3>1 DEF LoadTable, Reading, Goto
    <3> QED
      BY <1>0, <2>4, <2>6, <3>1, <3>2 DEF StateOK
  <2>7. CASE k = job /\ ResolveBaseline(job)
    <3>1. tables[BaselineTable] # Absent /\ tables[BaselineTable] >= 1
      BY <1>0, <2>3
    <3>2. /\ baseline' = [baseline EXCEPT ![job] = tables[BaselineTable]]
          /\ copies' = copies /\ pc[job] = "resolve"
      BY <2>7, <3>1 DEF ResolveBaseline, Reading, At
    <3>3. copies[job] >= 1
      BY <1>1, <2>1, <2>7, <3>2 DEF Running
    <3> QED
      BY <1>0, <2>4, <2>7, <3>1, <3>2, <3>3 DEF StateOK
  <2> QED
    BY <1>6, <2>5, <2>6, <2>7
<1>7. ASSUME NEW job \in Jobs, Persist(job)
      PROVE  /\ ~HalfSeeded'
             /\ pc'[k] \in {"resolve", "persist"} => copies'[k] >= 1
             /\ pc'[k] = "persist" => baseline'[k] >= 1
  <2>1. /\ UNCHANGED <<tables, copies, baseline, dead, disturbed>>
        /\ NextTable(job, "load", "done") /\ pc[job] = "persist"
    BY <1>7 DEF Persist, At
  <2>2. pc'[job] \in {"load", "done"} /\ \A j \in Jobs \ {job} : pc'[j] = pc[j]
    BY <1>0, <2>1, NextTableYields DEF StateOK
  <2>3. pc[k] \in Running
    BY <2>1, <2>2 DEF Running
  <2> QED
    BY <1>1, <2>1, <2>2, <2>3 DEF HalfSeeded
<1>8. ASSUME NEW job \in Jobs, StartSeeder(job) \/ Crash(job)
      PROVE  /\ ~HalfSeeded'
             /\ pc'[k] \in {"resolve", "persist"} => copies'[k] >= 1
             /\ pc'[k] = "persist" => baseline'[k] >= 1
  <2>1. /\ UNCHANGED <<tables, copies, baseline, disturbed>> /\ dead \subseteq dead'
        /\ pc'[k] = pc[k]
    BY <1>0, <1>8 DEF StartSeeder, Crash, Goto, jobVars, StateOK, Running
  <2> QED
    BY <1>1, <2>1 DEF HalfSeeded
<1>9. ASSUME LatestRunId \/ FetchScores \/ UNCHANGED vars
      PROVE  /\ ~HalfSeeded'
             /\ pc'[k] \in {"resolve", "persist"} => copies'[k] >= 1
             /\ pc'[k] = "persist" => baseline'[k] >= 1
  <2>1. UNCHANGED <<tables, copies, baseline, disturbed, dead, pc>>
    BY <1>9 DEF LatestRunId, FetchScores, vars, jobVars
  <2> QED
    BY <1>1, <2>1 DEF HalfSeeded
<1> QED
  BY <1>2, <1>3, <1>4, <1>5, <1>6, <1>7, <1>8, <1>9 DEF Next

-----------------------------------------------------------------------------
(* The results *)

\* A run's clock is fixed, and with it what the checks compute.
LEMMA RowsForStable ==
  ASSUME wallclock' = wallclock
  PROVE  \A job, i, n, base : RowsFor(job, i, n, base)' = RowsFor(job, i, n, base)
  BY DEF RowsFor, FrameOf

\* The rows of a pass are the job's and the table's.
LEMMA RowsForFacts ==
  ASSUME NEW job, NEW i, NEW n, NEW base
  PROVE  /\ \A row \in RowsFor(job, i, n, base) : row.run = job /\ row.table = Tables[i]
         /\ RowsFor(job, i, n, base) # {}
<1>1. RunChecks(FrameOf(Tables[i], n), base) # {}
  BY DEF RunChecks
<1>2. \A result, score : Row(job, Tables[i], result, score).run = job
                           /\ Row(job, Tables[i], result, score).table = Tables[i]
  BY DEF Row
<1> QED
  BY <1>1, <1>2 DEF RowsFor

\* What _persist inserts.
LEMMA PersistInserts ==
  ASSUME NEW job
  PROVE  PersistedRows(job, Table(job)) = RowsFor(job, at[job], copies[job], baseline[job])
  BY DEF PersistedRows, RowsFor, Table

\* While no results are inserted, and none becomes due.
LEMMA RowsKept ==
  ASSUME RowsInv, results' = results, wallclock' = wallclock, disturbed \subseteq disturbed',
         \A job \in Jobs : pc'[job] = "idle" => at'[job] = 1,
         \A job \in Jobs, i \in DOMAIN Tables : Stored(job, i)' <=> Stored(job, i)
  PROVE  RowsInv'
<1>1. ASSUME NEW job \in Jobs, NEW i \in DOMAIN Tables
      PROVE  /\ ~Stored(job, i) => RowsOf(job, i) = {}
             /\ Stored(job, i) =>
                  \E n, base \in Nat :
                    /\ RowsOf(job, i) = RowsFor(job, i, n, base)
                    /\ job \notin disturbed' => n >= 1 /\ base >= 1
  <2>1. /\ ~Stored(job, i) => RowsOf(job, i) = {}
        /\ Stored(job, i) =>
             \E n, base \in Nat :
               /\ RowsOf(job, i) = RowsFor(job, i, n, base)
               /\ job \notin disturbed => n >= 1 /\ base >= 1
    BY DEF RowsInv
  <2>2. job \notin disturbed' => job \notin disturbed
    OBVIOUS
  <2> QED
    BY <2>1, <2>2
<1>2. /\ \A job, i : RowsOf(job, i)' = RowsOf(job, i)
      /\ \A job, i, n, base : RowsFor(job, i, n, base)' = RowsFor(job, i, n, base)
  BY RowsForStable DEF RowsOf
<1> QED
  BY <1>1, <1>2 DEF RowsInv

\* An insertion stores the rows of the one table that is due.
LEMMA PersistKeepsRows ==
  ASSUME GuardInv, NEW job \in Jobs, Persist(job)
  PROVE  RowsInv'
<1>0. StateOK /\ RowsInv /\ SeededInv
  BY DEF GuardInv
<1>1. /\ job \notin dead /\ pc[job] = "persist" /\ NextTable(job, "load", "done")
      /\ results' = results \cup RowsFor(job, at[job], copies[job], baseline[job])
      /\ UNCHANGED <<wallclock, disturbed>>
  BY PersistInserts DEF Persist, At
<1>2. /\ at[job] \in DOMAIN Tables /\ Tables[at[job]] \in TableNames
      /\ copies[job] \in Nat /\ baseline[job] \in Nat
      /\ job \notin disturbed => copies[job] >= 1 /\ baseline[job] >= 1
  BY <1>0, <1>1, TableFacts DEF StateOK, SeededInv, Running
<1>3. /\ \A row \in RowsFor(job, at[job], copies[job], baseline[job]) :
           row.run = job /\ row.table = Tables[at[job]]
  BY RowsForFacts
<1>4. /\ \A k \in Jobs \ {job} : pc'[k] = pc[k] /\ at'[k] = at[k]
      /\ \/ at[job] = 1 /\ pc'[job] = "load" /\ at'[job] = 2
         \/ at[job] = 2 /\ pc'[job] = "done" /\ at'[job] = 1
  BY <1>0, <1>1, NextTableYields DEF StateOK
<1>5. \A k \in Jobs : pc'[k] = "idle" => at'[k] = 1
  BY <1>0, <1>4 DEF RowsInv
<1>6. \A row \in results' : row.run \in Jobs /\ row.table \in TableNames
  BY <1>0, <1>1, <1>2, <1>3 DEF RowsInv
<1>7. ASSUME NEW k \in Jobs, NEW i \in DOMAIN Tables
      PROVE  /\ ~Stored(k, i)' => RowsOf(k, i)' = {}
             /\ Stored(k, i)' =>
                  \E n, base \in Nat :
                    /\ RowsOf(k, i)' = RowsFor(k, i, n, base)'
                    /\ k \notin disturbed' => n >= 1 /\ base >= 1
  <2>1. /\ ~Stored(k, i) => RowsOf(k, i) = {}
        /\ Stored(k, i) =>
             \E n, base \in Nat :
               /\ RowsOf(k, i) = RowsFor(k, i, n, base)
               /\ k \notin disturbed => n >= 1 /\ base >= 1
    BY <1>0 DEF RowsInv
  <2>2. \A n, base : RowsFor(k, i, n, base)' = RowsFor(k, i, n, base)
    BY <1>1, RowsForStable
  <2>3. CASE k = job /\ i = at[job]
    <3>1. ~Stored(k, i) /\ Stored(k, i)'
      BY <1>1, <1>4, <2>3 DEF Stored, Running
    <3>2. RowsOf(k, i)' = RowsFor(job, at[job], copies[job], baseline[job])
      BY <1>1, <1>3, <2>1, <2>3, <3>1 DEF RowsOf
    <3> QED
      BY <1>1, <1>2, <2>2, <2>3, <3>1, <3>2
  <2>4. CASE ~(k = job /\ i = at[job])
    <3>1. RowsOf(k, i)' = RowsOf(k, i)
      BY <1>1, <1>2, <1>3, <2>4, TableFacts DEF RowsOf
    <3>2. Stored(k, i)' <=> Stored(k, i)
      <4>1. CASE k # job
        BY <1>4, <4>1 DEF Stored
      <4>2. CASE k = job
        BY <1>1, <1>4, <2>4, <4>2, TableFacts DEF Stored, Running
      <4> QED
        BY <4>1, <4>2
    <3> QED
      BY <1>1, <2>1, <2>2, <3>1, <3>2
  <2> QED
    BY <2>3, <2>4
<1> QED
  BY <1>5, <1>6, <1>7 DEF RowsInv

\* Every step keeps the results whole.
LEMMA RowsStep ==
  ASSUME GuardInv, [Next]_vars
  PROVE  RowsInv'
<1>0. StateOK /\ RowsInv
  BY DEF GuardInv
<1>1. ASSUME NEW job \in Jobs,
             \/ StartSeeder(job) \/ CreateTable(job) \/ TruncateTable(job) \/ StartRunner(job)
             \/ LoadTable(job) \/ ResolveBaseline(job) \/ Crash(job)
      PROVE  RowsInv'
  <2>1. /\ results' = results /\ wallclock' = wallclock /\ disturbed \subseteq disturbed'
        /\ at' = at
        /\ \A k \in Jobs \ {job} : pc'[k] = pc[k]
        /\ \/ pc'[job] = pc[job]
           \/ pc[job] \in {"idle"} \cup Seeding /\ pc'[job] \in Seeding
           \/ pc[job] = "idle" /\ pc'[job] = "load"
           \/ pc[job] \in Running /\ pc'[job] \in Running
    BY <1>0, <1>1 DEF StartSeeder, CreateTable, TruncateTable, StartRunner, LoadTable,
       ResolveBaseline, Reading, Crash, Goto, At, BeginRun, jobVars, StateOK, Seeding, Running
  <2>2. \A k \in Jobs : pc'[k] = "idle" => at'[k] = 1
    BY <1>0, <2>1 DEF RowsInv, Seeding, Running
  <2>3. ASSUME NEW k \in Jobs, NEW i \in DOMAIN Tables
        PROVE  Stored(k, i)' <=> Stored(k, i)
    <3>1. CASE k # job \/ pc'[job] = pc[job]
      BY <2>1, <3>1 DEF Stored
    <3>2. CASE k = job /\ pc[job] = "idle" /\ pc'[job] = "load"
      <4>1. at[job] = 1 /\ at'[job] = 1 /\ ~(i < 1)
        BY <1>0, <2>1, <3>2, TableFacts DEF RowsInv
      <4> QED
        BY <3>2, <4>1 DEF Stored, Running
    <3>3. CASE k = job /\ pc[job] \in {"idle"} \cup Seeding /\ pc'[job] \in Seeding
      BY <3>3 DEF Stored, Running, Seeding
    <3>4. CASE k = job /\ pc[job] \in Running /\ pc'[job] \in Running
      BY <2>1, <3>4 DEF Stored, Running
    <3> QED
      BY <2>1, <3>1, <3>2, <3>3, <3>4
  <2> QED
    BY <1>0, <2>1, <2>2, <2>3, RowsKept
<1>2. ASSUME NEW job \in Jobs, InsertRows(job)
      PROVE  RowsInv'
  <2>1. /\ results' = results /\ wallclock' = wallclock /\ disturbed \subseteq disturbed'
        /\ NextTable(job, "create", "load") /\ pc[job] = "insert"
    BY <1>2 DEF InsertRows, At, BeginRun
  <2>2. /\ \A k \in Jobs \ {job} : pc'[k] = pc[k] /\ at'[k] = at[k]
        /\ \/ pc'[job] = "create" /\ at'[job] = 2
           \/ pc'[job] = "load" /\ at'[job] = 1
    BY <1>0, <2>1, NextTableYields DEF StateOK
  <2>3. \A k \in Jobs : pc'[k] = "idle" => at'[k] = 1
    BY <1>0, <2>2 DEF RowsInv
  <2>4. ASSUME NEW k \in Jobs, NEW i \in DOMAIN Tables
        PROVE  Stored(k, i)' <=> Stored(k, i)
    <3>1. CASE k # job
      BY <2>2, <3>1 DEF Stored
    <3>2. CASE k = job
      <4>1. ~Stored(k, i)
        BY <2>1, <3>2 DEF Stored, Running
      <4>2. ~Stored(k, i)'
        BY <2>2, <3>2, TableFacts DEF Stored, Running
      <4> QED
        BY <4>1, <4>2
    <3> QED
      BY <3>1, <3>2
  <2> QED
    BY <1>0, <2>1, <2>3, <2>4, RowsKept
<1>3. ASSUME LatestRunId \/ FetchScores \/ UNCHANGED vars
      PROVE  RowsInv'
  <2>1. UNCHANGED <<results, wallclock, disturbed, pc, at>>
    BY <1>3 DEF LatestRunId, FetchScores, vars, jobVars
  <2>2. \A k \in Jobs, i \in DOMAIN Tables : Stored(k, i)' <=> Stored(k, i)
    BY <2>1 DEF Stored
  <2>3. \A k \in Jobs : pc'[k] = "idle" => at'[k] = 1
    BY <1>0, <2>1 DEF RowsInv
  <2> QED
    BY <1>0, <2>1, <2>2, <2>3, RowsKept
<1> QED
  BY <1>1, <1>2, <1>3, PersistKeepsRows DEF Next

-----------------------------------------------------------------------------
(* The API *)

\* A run that stored something has begun, and keeps its number.
LEMMA StoredRunsStay ==
  ASSUME GuardInv, [Next]_vars
  PROVE  /\ results \subseteq results' /\ wallclock' = wallclock
         /\ \A row \in results : order[row.run] > 0 /\ order'[row.run] = order[row.run]
<1>0. StateOK /\ RowsInv /\ OrderInv
  BY DEF GuardInv
<1>1. results \subseteq results' /\ wallclock' = wallclock
  BY DEF Next, StartSeeder, CreateTable, TruncateTable, InsertRows, StartRunner, LoadTable,
         ResolveBaseline, Persist, Crash, LatestRunId, FetchScores, vars
<1>2. ASSUME NEW row \in results
      PROVE  /\ row.run \in Jobs /\ pc[row.run] \in Running \cup {"done"} /\ order[row.run] > 0
  <2>1. row.run \in Jobs /\ row.table \in TableNames
    BY <1>0 DEF RowsInv
  <2>2. PICK i \in DOMAIN Tables : row.table = Tables[i]
    BY <2>1, TableFacts
  <2>3. Stored(row.run, i)
    BY <1>0, <2>1, <2>2 DEF RowsInv, RowsOf
  <2> QED
    BY <1>0, <2>1, <2>3 DEF Stored, OrderInv
<1>3. \A job \in Jobs : pc[job] \in Running \cup {"done"} => order'[job] = order[job]
  <2>1. ASSUME NEW job \in Jobs, InsertRows(job) \/ StartRunner(job)
        PROVE  /\ pc[job] \in {"idle", "insert"}
               /\ \A k \in Jobs \ {job} : order'[k] = order[k]
    <3>1. order' = order \/ BeginRun(job)
      BY <2>1 DEF InsertRows, StartRunner
    <3> QED
      BY <1>0, <2>1, <3>1 DEF InsertRows, StartRunner, At, BeginRun, StateOK
  <2>2. ASSUME NEW job \in Jobs,
               \/ StartSeeder(job) \/ CreateTable(job) \/ TruncateTable(job) \/ LoadTable(job)
               \/ ResolveBaseline(job) \/ Persist(job) \/ Crash(job)
        PROVE  order' = order
    BY <2>2 DEF StartSeeder, CreateTable, TruncateTable, LoadTable, ResolveBaseline, Persist,
       Crash, jobVars
  <2>3. ASSUME LatestRunId \/ FetchScores \/ UNCHANGED vars
        PROVE  order' = order
    BY <2>3 DEF LatestRunId, FetchScores, vars, jobVars
  <2>4. ASSUME NEW k \in Jobs, pc[k] \in Running \cup {"done"}
        PROVE  order'[k] = order[k]
    <3>1. pc[k] \notin {"idle", "insert"}
      BY <2>4 DEF Running
    <3> QED
      BY <2>1, <2>2, <2>3, <3>1 DEF Next
  <2> QED
    BY <2>4
<1> QED
  BY <1>1, <1>2, <1>3

\* With the wall clock, the run of the first query began last of those stored.
LEMMA LatestBeganLast ==
  ASSUME wallclock, NEW run \in LatestRunIds
  PROVE  /\ \E row \in results : row.run = run
         /\ \A row \in results : order[row.run] <= order[run]
<1>1. /\ run \in {row.run : row \in results}
      /\ \A other \in {row.run : row \in results} : RunTs(run) >= RunTs(other)
  BY DEF LatestRunIds
<1>2. \A job : RunTs(job) = order[job]
  BY DEF RunTs
<1> QED
  BY <1>1, <1>2

\* Every step keeps what the API has in hand.
LEMMA ApiStep ==
  ASSUME GuardInv, [Next]_vars
  PROVE  ApiInv'
<1>0. ApiInv /\ NoJob \notin Jobs
  BY JobsAssumption DEF GuardInv
<1>1. /\ results \subseteq results' /\ wallclock' = wallclock
      /\ \A row \in results : order[row.run] > 0 /\ order'[row.run] = order[row.run]
  BY StoredRunsStay
<1>2. \A run : fetch_scores(run) \subseteq fetch_scores(run)'
  BY <1>1 DEF fetch_scores
<1>3. ASSUME UNCHANGED readerVars
      PROVE  ApiInv'
  <2>1. latest' = latest /\ answer' = answer
    BY <1>3 DEF readerVars
  <2>2. PICK run : run = answer.run
    OBVIOUS
  <2>3. answer'.scores \subseteq fetch_scores(answer.run)'
    <3>1. answer.scores \subseteq fetch_scores(run)'
      BY <1>0, <1>2, <2>2 DEF ApiInv
    <3> QED
      BY <2>1, <2>2, <3>1 DEF fetch_scores
  <2>4. /\ latest # NoJob => order'[latest] = order[latest]
        /\ answer.run # NoJob => order'[answer.run] = order[answer.run]
    BY <1>0, <1>1 DEF ApiInv
  <2> QED
    BY <1>0, <1>1, <2>1, <2>3, <2>4 DEF ApiInv, fetch_scores
<1>4. CASE LatestRunId
  <2>1. /\ answer' = answer /\ latest' \in LatestRunIds /\ UNCHANGED <<results, order, wallclock>>
    BY <1>4 DEF LatestRunId, jobVars
  <2>2. \E row \in results : row.run = latest'
    BY <2>1 DEF LatestRunIds
  <2>3. wallclock => \A row \in results : order[row.run] <= order[latest']
    BY <2>1, LatestBeganLast
  <2>4. /\ answer.run # NoJob => \E row \in results : row.run = answer.run
        /\ answer.scores \subseteq fetch_scores(answer.run)
    BY <1>0 DEF ApiInv
  <2>5. wallclock /\ answer.run # NoJob => order[latest'] >= order[answer.run]
    BY <2>3, <2>4
  <2> QED
    BY <2>1, <2>2, <2>4, <2>5 DEF ApiInv, fetch_scores
<1>5. CASE FetchScores
  <2>1. /\ latest # NoJob /\ latest' = NoJob /\ UNCHANGED <<results, order, wallclock>>
        /\ answer' = [run |-> latest, scores |-> fetch_scores(latest)]
    BY <1>5 DEF FetchScores, jobVars
  <2>2. answer'.run = latest /\ answer'.scores = fetch_scores(latest)
    BY <2>1
  <2>3. \E row \in results' : row.run = answer'.run
    BY <1>0, <2>1, <2>2 DEF ApiInv
  <2>4. answer'.scores \subseteq fetch_scores(answer.run)'
    BY <2>1, <2>2 DEF fetch_scores
  <2> QED
    BY <2>1, <2>3, <2>4 DEF ApiInv, fetch_scores
<1>6. \/ UNCHANGED readerVars \/ LatestRunId \/ FetchScores
  BY DEF Next, StartSeeder, CreateTable, TruncateTable, InsertRows, StartRunner, LoadTable,
         ResolveBaseline, Persist, Crash, vars
<1> QED
  BY <1>3, <1>4, <1>5, <1>6

-----------------------------------------------------------------------------
(* The invariant holds *)

\* Nothing has been seeded, run or asked at the beginning.
LEMMA InitGuard ==
  ASSUME Init
  PROVE  GuardInv
<1>0. Cardinality(Jobs) \in Nat
  BY JobsAssumption, FS_CardinalityType
<1>1. StateOK
  BY <1>0, TableFacts DEF Init, StateOK
<1>2. SeedInv
  <2>1. \A i \in DOMAIN Tables : tables[Tables[i]] # 0
    BY TableFacts DEF Init, Absent
  <2>2. \A job \in Jobs : pc[job] \notin {"delete", "insert"}
    BY DEF Init
  <2> QED
    BY <2>1, <2>2 DEF SeedInv, EmptyOnlyMidSeed
<1>3. OrderInv
  <2>1. Begun = {} /\ Cardinality({}) = 0
    BY FS_EmptySet DEF Init, Begun
  <2> QED
    BY <2>1 DEF Init, OrderInv, Running
<1>4. SeededInv
  BY DEF Init, SeededInv, Running
<1>5. RowsInv
  <2>1. \A job \in Jobs, i \in DOMAIN Tables : ~Stored(job, i) /\ RowsOf(job, i) = {}
    BY DEF Init, Stored, RowsOf, Running
  <2> QED
    BY <2>1 DEF Init, RowsInv
<1>6. ApiInv
  <2>1. latest = NoJob /\ answer.run = NoJob /\ answer.scores = {}
    BY DEF Init
  <2> QED
    BY <2>1 DEF ApiInv
<1> QED
  BY <1>1, <1>2, <1>3, <1>4, <1>5, <1>6 DEF GuardInv

\* The types, the tables, the order of runs, the results and the API stay as
\* GuardInv describes them, whatever number of jobs seed and run at once.
THEOREM GuardSound == Spec => []GuardInv
<1>1. Init => GuardInv
  BY InitGuard
<1>2. GuardInv /\ [Next]_vars => GuardInv'
  BY StateStep, SeedStep, OrderStep, SeededStep, RowsStep, ApiStep DEF GuardInv
<1> QED
  BY <1>1, <1>2, PTL DEF Spec

\* However many jobs create, empty and fill the demo tables at once, a table is
\* empty only while one of them has it between emptying and filling.
THEOREM SeededOrSeeding == Spec => []EmptyOnlyMidSeed
<1>1. GuardInv => EmptyOnlyMidSeed
  BY DEF GuardInv, SeedInv
<1> QED
  BY <1>1, GuardSound, PTL

-----------------------------------------------------------------------------
(* What the API answers *)

\* The rows of one run and table carry one score.
LEMMA OneTableScore ==
  ASSUME GuardInv, NEW r \in results, NEW q \in results, r.run = q.run, r.table = q.table
  PROVE  r.tableScore = q.tableScore
<1>1. /\ r.run \in Jobs /\ r.table \in TableNames
      /\ \A job \in Jobs, i \in DOMAIN Tables :
           /\ ~Stored(job, i) => RowsOf(job, i) = {}
           /\ Stored(job, i) => \E n, base \in Nat : RowsOf(job, i) = RowsFor(job, i, n, base)
  BY DEF GuardInv, RowsInv
<1>2. PICK i \in DOMAIN Tables : r.table = Tables[i]
  BY <1>1, TableFacts
<1>3. r \in RowsOf(r.run, i) /\ q \in RowsOf(r.run, i)
  BY <1>2 DEF RowsOf
<1>4. PICK n, base \in Nat : RowsOf(r.run, i) = RowsFor(r.run, i, n, base)
  BY <1>1, <1>3
<1>5. PICK score : score = score_table(RunChecks(FrameOf(Tables[i], n), base))
  OBVIOUS
<1>6. \A result : Row(r.run, Tables[i], result, score).tableScore = score
  BY DEF Row
<1>7. \A row \in RowsFor(r.run, i, n, base) : row.tableScore = score
  BY <1>5, <1>6 DEF RowsFor
<1> QED
  BY <1>3, <1>4, <1>7

\* Between the two queries of a request other jobs may run and store: what is
\* answered is all the same of one run, with one score for each table.
THEOREM AnswersAreOfOneRun == Spec => []AnswerOfOneRun
<1>1. GuardInv => AnswerOfOneRun
  <2> SUFFICES ASSUME GuardInv PROVE AnswerOfOneRun
    OBVIOUS
  <2>1. answer.scores \subseteq fetch_scores(answer.run)
    BY DEF GuardInv, ApiInv
  <2>2. ASSUME NEW s \in answer.scores, NEW t \in answer.scores, s[1] = t[1]
        PROVE  s = t
    <3>1. PICK r \in results : r.run = answer.run /\ s = <<r.table, r.tableScore>>
      BY <2>1 DEF fetch_scores
    <3>2. PICK q \in results : q.run = answer.run /\ t = <<q.table, q.tableScore>>
      BY <2>1 DEF fetch_scores
    <3>3. r.run = q.run /\ r.table = q.table
      BY <2>2, <3>1, <3>2
    <3>4. r.tableScore = q.tableScore
      BY <3>3, OneTableScore
    <3> QED
      BY <3>1, <3>2, <3>3, <3>4
  <2> QED
    BY <2>1, <2>2 DEF AnswerOfOneRun
<1> QED
  BY <1>1, GuardSound, PTL

\* With the wall clock, the first query finds the run that began last of those
\* stored, and no answer is of an earlier run than the answer before.
THEOREM ApiFollowsLatest == Spec => WallclockLatestIsMostRecent
<1>1. GuardInv /\ [Next]_vars => [wallclock => GoesToMostRecent]_vars
  <2> SUFFICES ASSUME GuardInv, [Next]_vars, wallclock
               PROVE  GoesToMostRecent
    OBVIOUS
  <2>0. StateOK /\ ApiInv /\ RowsInv
    BY DEF GuardInv
  <2>1. \A row \in results : order'[row.run] = order[row.run]
    BY StoredRunsStay
  <2>2. answer.run # NoJob => /\ order'[answer.run] = order[answer.run]
                              /\ order[answer.run] \in Int
    <3>1. Cardinality(Jobs) \in Nat
      BY JobsAssumption, FS_CardinalityType
    <3> QED
      BY <2>0, <2>1, <3>1 DEF ApiInv, StateOK
  <2>3. CASE UNCHANGED readerVars
    <3>1. latest' = latest /\ answer' = answer
      BY <2>3 DEF readerVars
    <3> QED
      BY <2>2, <3>1 DEF GoesToMostRecent
  <2>4. CASE LatestRunId
    <3>1. answer' = answer /\ latest' \in LatestRunIds /\ order' = order
      BY <2>4 DEF LatestRunId, jobVars
    <3>2. \A row \in results : order[row.run] <= order[latest']
      BY <3>1, LatestBeganLast
    <3> QED
      BY <2>2, <3>1, <3>2 DEF GoesToMostRecent
  <2>5. CASE FetchScores
    <3>1. /\ latest # NoJob /\ latest' = NoJob /\ order' = order
          /\ answer' = [run |-> latest, scores |-> fetch_scores(latest)]
      BY <2>5 DEF FetchScores, jobVars
    <3>2. answer'.run = latest /\ latest' \notin Jobs
      BY <3>1, JobsAssumption
    <3>3. answer.run # NoJob => order[latest] >= order[answer.run]
      BY <2>0, <3>1 DEF ApiInv
    <3> QED
      BY <3>1, <3>2, <3>3 DEF GoesToMostRecent
  <2> QED
    BY <2>3, <2>4, <2>5 DEF Next, StartSeeder, CreateTable, TruncateTable, InsertRows, StartRunner,
       LoadTable, ResolveBaseline, Persist, Crash, vars
<1> QED
  BY <1>1, GuardSound, PTL DEF Spec, WallclockLatestIsMostRecent

-----------------------------------------------------------------------------
(* Six results *)

\* S is of six things.
AreSix(a, b, c, d, e, f, S) ==
  /\ a \notin {b, c, d, e, f} /\ b \notin {c, d, e, f} /\ c \notin {d, e, f}
  /\ d \notin {e, f} /\ e # f
  /\ S = {a, b, c, d, e, f}

\* Six things are six.
LEMMA SixCounted ==
  ASSUME NEW a, NEW b, NEW c, NEW d, NEW e, NEW f,
         a \notin {b, c, d, e, f}, b \notin {c, d, e, f}, c \notin {d, e, f}, d \notin {e, f}, e # f
  PROVE  IsFiniteSet({a, b, c, d, e, f}) /\ Cardinality({a, b, c, d, e, f}) = 6
<1>1. IsFiniteSet({f}) /\ Cardinality({f}) = 1
  BY FS_Singleton
<1>2. IsFiniteSet({e, f}) /\ Cardinality({e, f}) = 2
  <2>1. {e, f} = {f} \cup {e}
    OBVIOUS
  <2> QED
    BY <1>1, <2>1, FS_AddElement
<1>3. IsFiniteSet({d, e, f}) /\ Cardinality({d, e, f}) = 3
  <2>1. {d, e, f} = {e, f} \cup {d}
    OBVIOUS
  <2> QED
    BY <1>2, <2>1, FS_AddElement
<1>4. IsFiniteSet({c, d, e, f}) /\ Cardinality({c, d, e, f}) = 4
  <2>1. {c, d, e, f} = {d, e, f} \cup {c}
    OBVIOUS
  <2> QED
    BY <1>3, <2>1, FS_AddElement
<1>5. IsFiniteSet({b, c, d, e, f}) /\ Cardinality({b, c, d, e, f}) = 5
  <2>1. {b, c, d, e, f} = {c, d, e, f} \cup {b}
    OBVIOUS
  <2> QED
    BY <1>4, <2>1, FS_AddElement
<1>6. {a, b, c, d, e, f} = {b, c, d, e, f} \cup {a}
  OBVIOUS
<1> QED
  BY <1>5, <1>6, FS_AddElement

\* The sum of six.
LEMMA SixSummed ==
  ASSUME NEW a, NEW b, NEW c, NEW d, NEW e, NEW f, NEW S, AreSix(a, b, c, d, e, f, S),
         NEW w, \A x \in S : w[x] \in Int, NEW h, TakesAny(h, w, S)
  PROVE  h[S] = w[a] + w[b] + w[c] + w[d] + w[e] + w[f]
<1>0. /\ a \notin {b, c, d, e, f} /\ b \notin {c, d, e, f} /\ c \notin {d, e, f}
      /\ d \notin {e, f} /\ e # f /\ S = {a, b, c, d, e, f}
      /\ h[{}] = 0
      /\ \A s \in SUBSET S : \A x \in s : h[s] = w[x] + h[s \ {x}]
  BY DEF AreSix, TakesAny
<1>1. h[S] = w[a] + h[{b, c, d, e, f}]
  <2>1. S \in SUBSET S /\ a \in S /\ S \ {a} = {b, c, d, e, f}
    BY <1>0
  <2> QED
    BY <1>0, <2>1
<1>2. h[{b, c, d, e, f}] = w[b] + h[{c, d, e, f}]
  <2>1. {b, c, d, e, f} \in SUBSET S /\ {b, c, d, e, f} \ {b} = {c, d, e, f}
    BY <1>0
  <2>2. b \in {b, c, d, e, f}
    BY <1>0
  <2> QED
    BY <1>0, <2>1, <2>2
<1>3. h[{c, d, e, f}] = w[c] + h[{d, e, f}]
  <2>1. {c, d, e, f} \in SUBSET S /\ {c, d, e, f} \ {c} = {d, e, f}
    BY <1>0
  <2>2. c \in {c, d, e, f}
    BY <1>0
  <2> QED
    BY <1>0, <2>1, <2>2
<1>4. h[{d, e, f}] = w[d] + h[{e, f}]
  <2>1. {d, e, f} \in SUBSET S /\ {d, e, f} \ {d} = {e, f}
    BY <1>0
  <2>2. d \in {d, e, f}
    BY <1>0
  <2> QED
    BY <1>0, <2>1, <2>2
<1>5. h[{e, f}] = w[e] + h[{f}]
  <2>1. {e, f} \in SUBSET S /\ {e, f} \ {e} = {f}
    BY <1>0
  <2>2. e \in {e, f}
    BY <1>0
  <2> QED
    BY <1>0, <2>1, <2>2
<1>6. h[{f}] = w[f] + h[{}]
  <2>1. {f} \in SUBSET S /\ {f} \ {f} = {}
    BY <1>0
  <2>2. f \in {f}
    BY <1>0
  <2> QED
    BY <1>0, <2>1, <2>2
<1>7. w[a] \in Int /\ w[b] \in Int /\ w[c] \in Int /\ w[d] \in Int /\ w[e] \in Int /\ w[f] \in Int
  BY <1>0
<1>8. h[S] = w[a] + (w[b] + (w[c] + (w[d] + (w[e] + (w[f] + 0)))))
  BY <1>0, <1>1, <1>2, <1>3, <1>4, <1>5, <1>6
<1> QED
  BY <1>7, <1>8

-----------------------------------------------------------------------------
(* The score of a table *)

\* What score_table adds up in its denominator, and (WeightedOf) in its numerator.
WeightOf(S) == [r \in S |-> Weight(r.check)]

WeightedOf(S) == [r \in S |-> Weight(r.check) * r.score]

\* The two sums of score_table.
LEMMA ScoreIsRatio ==
  ASSUME NEW S, IsFiniteSet(S), S # {}
  PROVE  \E f, g : /\ IsSum(f, WeightedOf(S), S) /\ IsSum(g, WeightOf(S), S)
                   /\ score_table(S) = f[S] \div g[S]
<1> DEFINE F(h) == h = [s \in SUBSET S |->
                          IF s = {} THEN 0
                          ELSE Weight(Pick(s).check) * Pick(s).score + h[s \ {Pick(s)}]]
           G(h) == h = [s \in SUBSET S |->
                          IF s = {} THEN 0 ELSE Weight(Pick(s).check) + h[s \ {Pick(s)}]]
<1>1. MapThenSumSet(LAMBDA r : Weight(r.check) * r.score, S) = (CHOOSE h : F(h))[S]
  BY DEF MapThenSumSet, MapThenFoldSet, Pick
<1>2. MapThenSumSet(LAMBDA r : Weight(r.check), S) = (CHOOSE h : G(h))[S]
  BY DEF MapThenSumSet, MapThenFoldSet, Pick
<1>3. ASSUME NEW h
      PROVE  F(h) <=> IsSum(h, WeightedOf(S), S)
  <2>1. \A s \in SUBSET S :
          s # {} => WeightedOf(S)[Pick(s)] = Weight(Pick(s).check) * Pick(s).score
    BY PickIn DEF WeightedOf
  <2>2. [s \in SUBSET S |-> IF s = {} THEN 0
                            ELSE Weight(Pick(s).check) * Pick(s).score + h[s \ {Pick(s)}]]
          = [s \in SUBSET S |-> IF s = {} THEN 0 ELSE WeightedOf(S)[Pick(s)] + h[s \ {Pick(s)}]]
    BY <2>1
  <2> QED
    BY <2>2 DEF IsSum
<1>4. ASSUME NEW h
      PROVE  G(h) <=> IsSum(h, WeightOf(S), S)
  <2>1. \A s \in SUBSET S : s # {} => WeightOf(S)[Pick(s)] = Weight(Pick(s).check)
    BY PickIn DEF WeightOf
  <2>2. [s \in SUBSET S |-> IF s = {} THEN 0 ELSE Weight(Pick(s).check) + h[s \ {Pick(s)}]]
          = [s \in SUBSET S |-> IF s = {} THEN 0 ELSE WeightOf(S)[Pick(s)] + h[s \ {Pick(s)}]]
    BY <2>1
  <2> QED
    BY <2>2 DEF IsSum
<1> HIDE DEF F, G
<1>5. PICK f : f = CHOOSE h : F(h)
  OBVIOUS
<1>6. PICK g : g = CHOOSE h : G(h)
  OBVIOUS
<1>7. IsSum(f, WeightedOf(S), S)
  BY <1>3, <1>5, SumExists
<1>8. IsSum(g, WeightOf(S), S)
  BY <1>4, <1>6, SumExists
<1>9. score_table(S) = f[S] \div g[S]
  BY <1>1, <1>2, <1>5, <1>6 DEF score_table
<1> QED
  BY <1>7, <1>8, <1>9

\* Weights are one, two or three.
LEMMA WeightRange ==
  \A check : Weight(check) \in 1 .. 3
<1>1. ASSUME NEW check PROVE Weight(check) \in 1 .. 3
  <2>1. CASE check = "schema"
    BY <2>1 DEF Weight
  <2>2. CASE check = "quantity_range"
    BY <2>2 DEF Weight
  <2>3. CASE check # "schema" /\ check # "quantity_range"
    BY <2>3 DEF Weight
  <2> QED
    BY <2>1, <2>2, <2>3
<1> QED
  BY <1>1

\* A score up to Full, times a weight.
LEMMA WeightedScore ==
  ASSUME NEW k \in 1 .. 3, NEW z \in 0 .. Full
  PROVE  k * z \in Int /\ 0 <= k * z /\ k * z <= Full * k
<1>1. z \in Int /\ 0 <= z /\ z <= 10000 /\ Full = 10000
  BY DEF Full
<1>2. CASE k = 1
  BY <1>1, <1>2
<1>3. CASE k = 2
  BY <1>1, <1>3
<1>4. CASE k = 3
  BY <1>1, <1>4
<1> QED
  BY <1>2, <1>3, <1>4

\* One more term keeps a sum within Full times the sum of the weights.
LEMMA TermAdded ==
  ASSUME NEW a \in Int, NEW b \in Int, 0 <= a, 0 <= b, a <= Full * b,
         NEW c \in Int, NEW k \in Int, 0 <= c, k >= 1, c <= Full * k
  PROVE  /\ c + a \in Int /\ k + b \in Int
         /\ 0 <= c + a /\ 0 <= k + b /\ c + a <= Full * (k + b) /\ k + b >= 1
  BY DEF Full

\* Scores up to Full, weighted, sum up to no more than Full for each weight.
LEMMA SumsBounded ==
  ASSUME NEW S, IsFiniteSet(S), \A r \in S : r.score \in 0 .. Full,
         NEW f, IsSum(f, WeightedOf(S), S), NEW g, IsSum(g, WeightOf(S), S)
  PROVE  \A s \in SUBSET S : /\ f[s] \in Int /\ g[s] \in Int
                             /\ 0 <= f[s] /\ 0 <= g[s] /\ f[s] <= Full * g[s]
                             /\ s # {} => g[s] >= 1
<1> DEFINE P(s) == /\ f[s] \in Int /\ g[s] \in Int
                   /\ 0 <= f[s] /\ 0 <= g[s] /\ f[s] <= Full * g[s]
                   /\ s # {} => g[s] >= 1
<1>1. PICK T : T = {t \in SUBSET S : ~P(t)}
  OBVIOUS
<1>2. SUFFICES ASSUME T # {} PROVE FALSE
  BY <1>1
<1>3. PICK t \in T : \A y \in T : y \subseteq t => y = t
  <2>1. T \subseteq SUBSET S
    BY <1>1
  <2> QED
    BY <1>2, <2>1, LeastSubset
<1>4. t \in SUBSET S
  BY <1>1
<1>5. t # {}
  <2>1. t = {} => f[t] = 0 /\ g[t] = 0
    BY <1>4, SumUnfolds
  <2>2. t = {} => P(t)
    BY <2>1, SMTT(30) DEF Full
  <2> QED
    BY <1>1, <2>2
<1>6. PICK c : c = Pick(t)
  OBVIOUS
<1>7. c \in t /\ c \in S
  BY <1>4, <1>5, <1>6, PickIn
<1>8. PICK u : u = t \ {c}
  OBVIOUS
<1>9. P(u)
  BY <1>1, <1>3, <1>4, <1>7, <1>8
<1>10. f[t] = WeightedOf(S)[c] + f[u]
  <2>1. PICK w : w = WeightedOf(S)
    OBVIOUS
  <2>2. IsSum(f, w, S)
    BY <2>1
  <2>3. f[t] = w[Pick(t)] + f[t \ {Pick(t)}]
    BY <1>4, <1>5, <2>2, SumUnfolds
  <2> QED
    BY <1>6, <1>8, <2>1, <2>3
<1>11. g[t] = WeightOf(S)[c] + g[u]
  <2>1. PICK w : w = WeightOf(S)
    OBVIOUS
  <2>2. IsSum(g, w, S)
    BY <2>1
  <2>3. g[t] = w[Pick(t)] + g[t \ {Pick(t)}]
    BY <1>4, <1>5, <2>2 DEF IsSum
  <2> QED
    BY <1>6, <1>8, <2>1, <2>3
<1>12. PICK k \in 1 .. 3, z \in 0 .. Full : k = Weight(c.check) /\ z = c.score
  BY <1>7, WeightRange
<1>13. WeightedOf(S)[c] = k * z /\ WeightOf(S)[c] = k
  BY <1>7, <1>12 DEF WeightedOf, WeightOf
<1>14. k * z \in Int /\ 0 <= k * z /\ k * z <= Full * k
  BY WeightedScore
<1>15. f[t] = k * z + f[u] /\ g[t] = k + g[u] /\ k \in Int /\ k >= 1
  BY <1>10, <1>11, <1>12, <1>13, SMTT(30)
<1>16. P(t)
  <2>1. f[u] \in Int /\ g[u] \in Int /\ 0 <= f[u] /\ 0 <= g[u] /\ f[u] <= Full * g[u]
    BY <1>9
  <2>2. PICK kz \in Int : kz = k * z
    BY <1>14
  <2>3. 0 <= kz /\ kz <= Full * k /\ k \in Int /\ k >= 1
    BY <1>14, <1>15, <2>2
  <2>4. PICK a \in Int, b \in Int : a = f[u] /\ b = g[u]
    BY <2>1
  <2>5. 0 <= a /\ 0 <= b /\ a <= Full * b
    BY <2>1, <2>4
  <2>6. f[t] = kz + a /\ g[t] = k + b
    BY <1>15, <2>2, <2>4
  <2>7. /\ kz + a \in Int /\ k + b \in Int
        /\ 0 <= kz + a /\ 0 <= k + b /\ kz + a <= Full * (k + b) /\ k + b >= 1
    BY <2>3, <2>5, TermAdded
  <2> QED
    BY <2>6, <2>7, Zenon
<1> QED
  BY <1>1, <1>16

\* A quotient of a part that is at most Full for each of the whole.
LEMMA QuotientBounded ==
  ASSUME NEW a \in Int, NEW b \in Int, b >= 1, 0 <= a, a <= Full * b
  PROVE  a \div b \in 0 .. Full
<1>1. PICK q : q = a \div b
  OBVIOUS
<1>2. q \in Int /\ b * q <= a /\ a < b * q + b
  BY <1>1
<1>3. q >= 0
  <2>1. ASSUME q <= -1 PROVE FALSE
    <3>1. b * q <= b * (-1)
      BY <1>2, <2>1
    <3> QED
      BY <1>2, <3>1
  <2> QED
    BY <1>2, <2>1
<1>4. q <= Full
  <2>1. ASSUME q >= Full + 1 PROVE FALSE
    <3>1. b * q >= b * (Full + 1)
      BY <1>2, <2>1 DEF Full
    <3> QED
      BY <1>2, <3>1 DEF Full
  <2> QED
    BY <1>2, <2>1 DEF Full
<1> QED
  BY <1>1, <1>2, <1>3, <1>4 DEF Full

\* The score of a table is between nothing and Full.
LEMMA ScoreInRange ==
  ASSUME NEW S, IsFiniteSet(S), S # {}, \A r \in S : r.score \in 0 .. Full
  PROVE  score_table(S) \in 0 .. Full
<1>1. PICK f, g : /\ IsSum(f, WeightedOf(S), S) /\ IsSum(g, WeightOf(S), S)
                  /\ score_table(S) = f[S] \div g[S]
  BY ScoreIsRatio
<1>2. f[S] \in Int /\ g[S] \in Int /\ 0 <= f[S] /\ f[S] <= Full * g[S] /\ g[S] >= 1
  <2>1. S \in SUBSET S
    OBVIOUS
  <2> QED
    BY <1>1, <2>1, SumsBounded
<1> QED
  BY <1>1, <1>2, QuotientBounded

-----------------------------------------------------------------------------
(* The checks *)

\* A result as CheckResult leaves it: a name, a flag, and a score within bounds.
Clamped(r, check) ==
  r = [check |-> check, passed |-> r.passed, score |-> r.score]
  /\ r.passed \in BOOLEAN /\ r.score \in 0 .. Full

\* The constructor brings a score within bounds, and keeps one that is.
LEMMA CheckResultClamps ==
  ASSUME NEW check, NEW passed \in BOOLEAN, NEW score \in Int
  PROVE  /\ Clamped(CheckResult(check, passed, score), check)
         /\ CheckResult(check, passed, score).passed = passed
         /\ score \in 0 .. Full => CheckResult(check, passed, score).score = score
         /\ score <= 0 => CheckResult(check, passed, score).score = 0
         /\ score >= Full => CheckResult(check, passed, score).score = Full
<1>1. \A a, b \in Int : Min({a, b}) = (IF a <= b THEN a ELSE b) /\ Max({a, b}) = (IF a >= b THEN a ELSE b)
  BY DEF Min, Max
<1>2. 0 \in Int /\ Full \in Int /\ Full = 10000
  BY DEF Full
<1>3. PICK k : k = Min({score, Full})
  OBVIOUS
<1>4. k = (IF score <= Full THEN score ELSE Full) /\ k \in Int
  BY <1>1, <1>2, <1>3
<1>5. PICK m : m = Max({0, k})
  OBVIOUS
<1>6. m = IF 0 >= k THEN 0 ELSE k
  BY <1>1, <1>2, <1>4, <1>5
<1>7. /\ m \in 0 .. Full
      /\ score \in 0 .. Full => m = score
      /\ score <= 0 => m = 0
      /\ score >= Full => m = Full
  BY <1>2, <1>4, <1>6
<1>8. CheckResult(check, passed, score) = [check |-> check, passed |-> passed, score |-> m]
  BY <1>3, <1>5 DEF CheckResult
<1> QED
  BY <1>7, <1>8 DEF Clamped

\* The score of a result is that it was made with, brought within bounds.
LEMMA ScoreMade ==
  ASSUME NEW r, NEW check, NEW score \in Int,
         \E passed \in BOOLEAN : r = CheckResult(check, passed, score)
  PROVE  /\ score \in 0 .. Full => r.score = score
         /\ score <= 0 => r.score = 0
         /\ score >= Full => r.score = Full
<1>1. PICK passed \in BOOLEAN : r = CheckResult(check, passed, score)
  OBVIOUS
<1> QED
  BY <1>1, CheckResultClamps

\* What a clamped result is made of makes it again.
LEMMA ClampedAgain ==
  ASSUME NEW r, NEW check, Clamped(r, check)
  PROVE  r.check = check /\ CheckResult(r.check, r.passed, r.score) = r
<1>1. r.passed \in BOOLEAN /\ r.score \in 0 .. Full /\ r.score \in Int /\ r.check = check
  <2>1. r.passed \in BOOLEAN /\ r.score \in 0 .. Full
    BY DEF Clamped
  <2>2. r.score \in Int
    <3>1. 0 .. Full \subseteq Int
      OBVIOUS
    <3> QED
      BY <2>1, <3>1
  <2>3. r.check = check
    BY DEF Clamped
  <2> QED
    BY <2>1, <2>2, <2>3
<1>2. PICK z : z = CheckResult(check, r.passed, r.score)
  OBVIOUS
<1>3. Clamped(z, check) /\ z.passed = r.passed /\ z.score = r.score
  BY <1>1, <1>2, CheckResultClamps
<1> QED
  BY <1>1, <1>2, <1>3 DEF Clamped

\* A fraction is a number.
LEMMA RatioInt ==
  ASSUME NEW part \in Int, NEW whole \in Int, whole > 0
  PROVE  Ratio(part, whole) \in Int
  BY DEF Ratio, Full

\* Frames hold numbers, and a table of the seed rows no less than nothing.
LEMMA FrameTyped ==
  ASSUME NEW t \in TableNames, NEW n \in Nat, NEW frame, frame = FrameOf(t, n)
  PROVE  /\ frame.rows \in Nat /\ frame.nulls \in Nat /\ frame.amounts \in Nat
         /\ frame.quantities \in Nat /\ frame.age \in Int /\ frame.psi \in Nat
         /\ Amounts(frame) \in Nat
<1>1. Elapsed \in Int
  BY ClockAssumption
<1>2. CASE t = "orders_clean"
  BY <1>1, <1>2 DEF FrameOf, SeedFrame, Amounts
<1>3. CASE t = "orders_drifted"
  BY <1>1, <1>3 DEF FrameOf, SeedFrame, Amounts
<1> QED
  BY <1>2, <1>3 DEF TableNames

\* Each check makes one result of its name.
LEMMA ChecksClamped ==
  ASSUME NEW frame, frame.rows \in Nat, frame.nulls \in Nat, frame.amounts \in Nat,
         frame.quantities \in Nat, frame.age \in Int, frame.psi \in Nat, Amounts(frame) \in Nat,
         NEW base \in Nat
  PROVE  /\ Clamped(schema_check(frame), "schema")
         /\ Clamped(null_check(frame), "null")
         /\ Clamped(range_check("amount_range", Amounts(frame), frame.amounts), "amount_range")
         /\ Clamped(range_check("quantity_range", frame.rows, frame.quantities), "quantity_range")
         /\ Clamped(freshness_check(frame), "freshness")
         /\ Clamped(drift_check(frame, base), "drift")
<1>0. Full \in Int
  BY DEF Full
<1>1. Clamped(schema_check(frame), "schema")
  <2>1. TypedColumns(frame) \in Int /\ SchemaColumns \in Int /\ SchemaColumns > 0
    BY DEF TypedColumns, SchemaColumns
  <2>2. Ratio(TypedColumns(frame), SchemaColumns) \in Int
    BY <2>1, RatioInt
  <2> QED
    BY <2>2, CheckResultClamps DEF schema_check
<1>2. Clamped(null_check(frame), "null")
  <2>1. CASE frame.rows = 0
    BY <1>0, <2>1, CheckResultClamps DEF null_check
  <2>2. CASE frame.rows # 0
    <3>1. Full - Ratio(frame.nulls, frame.rows) \in Int
      BY <1>0, <2>2, RatioInt
    <3> QED
      BY <2>2, <3>1, CheckResultClamps DEF null_check
  <2> QED
    BY <2>1, <2>2
<1>3. ASSUME NEW check, NEW values \in Nat, NEW inRange \in Nat
      PROVE  Clamped(range_check(check, values, inRange), check)
  <2>1. CASE values = 0
    BY <1>0, <2>1, CheckResultClamps DEF range_check
  <2>2. CASE values # 0
    <3>1. Ratio(inRange, values) \in Int
      BY <2>2, RatioInt
    <3> QED
      BY <2>2, <3>1, CheckResultClamps DEF range_check
  <2> QED
    BY <2>1, <2>2
<1>4. Clamped(freshness_check(frame), "freshness")
  <2>1. CASE frame.rows = 0
    <3>1. FALSE \in BOOLEAN /\ 0 \in Int
      OBVIOUS
    <3> QED
      BY <2>1, <3>1, CheckResultClamps DEF freshness_check
  <2>2. CASE frame.rows # 0
    <3>1. MaxAgeHours \in Int /\ MaxAgeHours > 0 /\ frame.age - MaxAgeHours \in Int
      BY DEF MaxAgeHours
    <3>2. Full - Ratio(frame.age - MaxAgeHours, MaxAgeHours) \in Int
      BY <1>0, <3>1, RatioInt
    <3>3. (frame.age <= MaxAgeHours) \in BOOLEAN
      OBVIOUS
    <3> QED
      BY <2>2, <3>2, <3>3, CheckResultClamps DEF freshness_check
  <2> QED
    BY <2>1, <2>2
<1>5. Clamped(drift_check(frame, base), "drift")
  <2>1. CASE base = 0 \/ Amounts(frame) = 0
    BY <1>0, <2>1, CheckResultClamps DEF drift_check
  <2>2. CASE ~(base = 0 \/ Amounts(frame) = 0)
    <3>1. Ratio(frame.psi, 100) \in Int
      BY RatioInt
    <3>2. Full - Ratio(frame.psi, 100) \in Int
      BY <1>0, <3>1
    <3>3. (frame.psi <= PsiThreshold) \in BOOLEAN
      OBVIOUS
    <3> QED
      BY <2>2, <3>2, <3>3, CheckResultClamps DEF drift_check
  <2> QED
    BY <2>1, <2>2
<1> QED
  BY <1>1, <1>2, <1>3, <1>4, <1>5

\* The names of the checks of a battery.
CheckNames == {"schema", "null", "amount_range", "quantity_range", "freshness", "drift"}

\* A battery is six results, each as CheckResult leaves it.
LEMMA BatteryFacts ==
  ASSUME NEW t \in TableNames, NEW n \in Nat, NEW base \in Nat,
         NEW S, S = RunChecks(FrameOf(t, n), base)
  PROVE  /\ IsFiniteSet(S) /\ S # {}
         /\ \A r \in S : Clamped(r, r.check)
         /\ {r.check : r \in S} = CheckNames
<1>1. PICK frame : frame = FrameOf(t, n)
  OBVIOUS
<1>2. PICK a, b, c, d, e, f :
        /\ a = schema_check(frame) /\ b = null_check(frame)
        /\ c = range_check("amount_range", Amounts(frame), frame.amounts)
        /\ d = range_check("quantity_range", frame.rows, frame.quantities)
        /\ e = freshness_check(frame) /\ f = drift_check(frame, base)
  OBVIOUS
<1>3. /\ Clamped(a, "schema") /\ Clamped(b, "null") /\ Clamped(c, "amount_range")
      /\ Clamped(d, "quantity_range") /\ Clamped(e, "freshness") /\ Clamped(f, "drift")
  BY <1>1, <1>2, FrameTyped, ChecksClamped
<1>4. S = {a, b, c, d, e, f}
  BY <1>1, <1>2 DEF RunChecks
<1>5. /\ a.check = "schema" /\ b.check = "null" /\ c.check = "amount_range"
      /\ d.check = "quantity_range" /\ e.check = "freshness" /\ f.check = "drift"
  BY <1>3, ClampedAgain
<1>6. IsFiniteSet(S)
  <2>1. /\ a \notin {b, c, d, e, f} /\ b \notin {c, d, e, f} /\ c \notin {d, e, f}
        /\ d \notin {e, f} /\ e # f
    BY <1>5
  <2>2. IsFiniteSet({a, b, c, d, e, f})
    BY <2>1, SixCounted
  <2> QED
    BY <1>4, <2>2
<1>7. \A r \in S : Clamped(r, r.check)
  BY <1>3, <1>4, <1>5
<1>8. {r.check : r \in S} = CheckNames
  BY <1>4, <1>5 DEF CheckNames
<1>9. S # {}
  BY <1>4
<1> QED
  BY <1>6, <1>7, <1>8, <1>9

-----------------------------------------------------------------------------
(* What the results are *)

\* The rows of a table are a battery's, each with the score of all.
LEMMA RowsAreOfABattery ==
  ASSUME GuardInv, NEW job \in Jobs, NEW i \in DOMAIN Tables, Stored(job, i)
  PROVE  \E n, base \in Nat : \E S, score :
           /\ S = RunChecks(FrameOf(Tables[i], n), base)
           /\ score = score_table(S) /\ score \in 0 .. Full
           /\ RowsOf(job, i) = {Row(job, Tables[i], r, score) : r \in S}
           /\ IsFiniteSet(S) /\ S # {}
           /\ \A r \in S : Clamped(r, r.check)
           /\ {r.check : r \in S} = CheckNames
           /\ job \notin disturbed => n >= 1 /\ base >= 1
<1>1. PICK n, base \in Nat : /\ RowsOf(job, i) = RowsFor(job, i, n, base)
                             /\ job \notin disturbed => n >= 1 /\ base >= 1
  BY DEF GuardInv, RowsInv
<1>2. PICK S : S = RunChecks(FrameOf(Tables[i], n), base)
  OBVIOUS
<1>3. PICK score : score = score_table(S)
  OBVIOUS
<1>4. RowsOf(job, i) = {Row(job, Tables[i], r, score) : r \in S}
  BY <1>1, <1>2, <1>3 DEF RowsFor
<1>5. Tables[i] \in TableNames
  BY TableFacts
<1>6. /\ IsFiniteSet(S) /\ S # {}
      /\ \A r \in S : Clamped(r, r.check)
      /\ {r.check : r \in S} = CheckNames
  BY <1>2, <1>5, BatteryFacts
<1>7. \A r \in S : r.score \in 0 .. Full
  BY <1>6 DEF Clamped
<1>8. score \in 0 .. Full
  BY <1>3, <1>6, <1>7, ScoreInRange
<1> QED
  BY <1>1, <1>2, <1>3, <1>4, <1>6, <1>8

\* Every row is one of those.
LEMMA RowIsStored ==
  ASSUME GuardInv, NEW row \in results
  PROVE  \E i \in DOMAIN Tables :
           /\ row.run \in Jobs /\ row.table = Tables[i] /\ row.table \in TableNames
           /\ Stored(row.run, i) /\ row \in RowsOf(row.run, i)
<1>1. row.run \in Jobs /\ row.table \in TableNames
  BY DEF GuardInv, RowsInv
<1>2. PICK i \in DOMAIN Tables : row.table = Tables[i]
  BY <1>1, TableFacts
<1>3. row \in RowsOf(row.run, i)
  BY <1>2 DEF RowsOf
<1>4. Stored(row.run, i)
  BY <1>1, <1>3 DEF GuardInv, RowsInv
<1> QED
  BY <1>1, <1>2, <1>3, <1>4

\* The fields of a row.
LEMMA RowFields ==
  ASSUME NEW job, NEW t, NEW r, NEW score, NEW row, row = Row(job, t, r, score)
  PROVE  /\ row.run = job /\ row.table = t /\ row.tableScore = score
         /\ row.check = r.check /\ row.passed = r.passed /\ row.score = r.score
  BY DEF Row

\* Scores, of checks and of tables, are fractions of the full score.
LEMMA ScoresTyped ==
  ASSUME GuardInv, NEW row \in results
  PROVE  /\ row.passed \in BOOLEAN
         /\ row.score \in 0 .. Full /\ row.tableScore \in 0 .. Full
<1>1. PICK i \in DOMAIN Tables : row.run \in Jobs /\ Stored(row.run, i) /\ row \in RowsOf(row.run, i)
  BY RowIsStored
<1>2. PICK S, score : /\ score \in 0 .. Full
                      /\ RowsOf(row.run, i) = {Row(row.run, Tables[i], r, score) : r \in S}
                      /\ \A r \in S : Clamped(r, r.check)
  BY <1>1, RowsAreOfABattery
<1>3. PICK r \in S : row = Row(row.run, Tables[i], r, score)
  BY <1>1, <1>2
<1>4. row.passed = r.passed /\ row.score = r.score /\ row.tableScore = score
  BY <1>3, RowFields
<1>5. r.passed \in BOOLEAN /\ r.score \in 0 .. Full
  BY <1>2 DEF Clamped
<1> QED
  BY <1>2, <1>4, <1>5

\* The types of everything, the computed scores too.
THEOREM GuardTyped == Spec => []TypeOK
<1>1. GuardInv => TypeOK
  <2> SUFFICES ASSUME GuardInv PROVE TypeOK
    OBVIOUS
  <2>1. StateOK
    BY DEF GuardInv
  <2>2. \A row \in results :
          /\ row.run \in Jobs /\ row.table \in TableNames
          /\ row.passed \in BOOLEAN
          /\ {row.score, row.tableScore} \subseteq 0 .. Full
    BY RowIsStored, ScoresTyped
  <2>3. ASSUME NEW score \in answer.scores
        PROVE  score \in TableNames \X (0 .. Full)
    <3>1. answer.scores \subseteq fetch_scores(answer.run)
      BY DEF GuardInv, ApiInv
    <3>2. PICK row \in results : score = <<row.table, row.tableScore>>
      BY <3>1 DEF fetch_scores
    <3> QED
      BY <2>2, <3>2
  <2> QED
    BY <2>1, <2>2, <2>3 DEF StateOK, TypeOK
<1> QED
  BY <1>1, GuardSound, PTL

\* Six names.
LEMMA NamesCounted == Cardinality(CheckNames) = 6
<1>1. PICK a, b, c, d, e, f : /\ a = "schema" /\ b = "null" /\ c = "amount_range"
                              /\ d = "quantity_range" /\ e = "freshness" /\ f = "drift"
  OBVIOUS
<1>2. /\ a \notin {b, c, d, e, f} /\ b \notin {c, d, e, f} /\ c \notin {d, e, f}
      /\ d \notin {e, f} /\ e # f
  BY <1>1
<1>3. Cardinality({a, b, c, d, e, f}) = 6
  BY <1>2, SixCounted
<1> QED
  BY <1>1, <1>3 DEF CheckNames

\* The results of a table are whole whenever there are any, and there are some
\* just when the job's run has passed the table, however it was interleaved with
\* other jobs and wherever it died.
THEOREM RunsAreWhole == Spec => []ResultsWhole
<1>1. GuardInv => ResultsWhole
  <2> SUFFICES ASSUME GuardInv, NEW job \in Jobs, NEW i \in DOMAIN Tables
               PROVE  LET rows == {row \in results : row.run = job /\ row.table = Tables[i]} IN
                        /\ rows # {} =>
                             /\ Cardinality({row.check : row \in rows}) = 6
                             /\ {row.tableScore : row \in rows} =
                                  {score_table({CheckResult(r.check, r.passed, r.score) : r \in rows})}
                        /\ rows = {} <=> (pc[job] # "done" /\ ~(pc[job] \in Running /\ i < at[job]))
    BY DEF ResultsWhole
  <2>1. PICK rows : rows = RowsOf(job, i)
    OBVIOUS
  <2>2. ~Stored(job, i) => rows = {}
    BY <2>1 DEF GuardInv, RowsInv
  <2>3. ASSUME Stored(job, i)
        PROVE  /\ rows # {}
               /\ Cardinality({row.check : row \in rows}) = 6
               /\ {row.tableScore : row \in rows} =
                    {score_table({CheckResult(r.check, r.passed, r.score) : r \in rows})}
    <3>1. PICK S, score :
            /\ score = score_table(S)
            /\ RowsOf(job, i) = {Row(job, Tables[i], r, score) : r \in S}
            /\ S # {}
            /\ \A r \in S : Clamped(r, r.check)
            /\ {r.check : r \in S} = CheckNames
      BY <2>3, RowsAreOfABattery
    <3>2. rows = {Row(job, Tables[i], r, score) : r \in S}
      BY <2>1, <3>1
    <3>3. \A r \in S : /\ Row(job, Tables[i], r, score).check = r.check
                       /\ Row(job, Tables[i], r, score).passed = r.passed
                       /\ Row(job, Tables[i], r, score).score = r.score
                       /\ Row(job, Tables[i], r, score).tableScore = score
      BY RowFields
    <3>4. rows # {}
      BY <3>1, <3>2
    <3>5. {row.check : row \in rows} = {r.check : r \in S}
      BY <3>2, <3>3
    <3>6. {row.tableScore : row \in rows} = {score}
      BY <3>1, <3>2, <3>3
    <3>7. {CheckResult(r.check, r.passed, r.score) : r \in rows}
            = {CheckResult(r.check, r.passed, r.score) : r \in S}
      BY <3>2, <3>3
    <3>8. {CheckResult(r.check, r.passed, r.score) : r \in S} = S
      <4>1. \A r \in S : CheckResult(r.check, r.passed, r.score) = r
        BY <3>1, ClampedAgain
      <4> QED
        BY <4>1
    <3> QED
      BY <3>1, <3>4, <3>5, <3>6, <3>7, <3>8, NamesCounted
  <2>4. rows = {row \in results : row.run = job /\ row.table = Tables[i]}
    BY <2>1 DEF RowsOf
  <2>5. Stored(job, i) <=> ~(pc[job] # "done" /\ ~(pc[job] \in Running /\ i < at[job]))
    BY DEF Stored
  <2> QED
    BY <2>2, <2>3, <2>4, <2>5
<1> QED
  BY <1>1, GuardSound, PTL

-----------------------------------------------------------------------------
(* The trend chart *)

\* A set of one number has it as its maximum.
LEMMA MaxOfOne ==
  ASSUME NEW z \in Int
  PROVE  Max({z}) = z
  BY DEF Max

\* A finite set has as many elements as one that it maps to one to one.
LEMMA SameCount ==
  ASSUME NEW S, NEW T, IsFiniteSet(S), NEW f \in [S -> T],
         \A x, y \in S : f[x] = f[y] => x = y, \A z \in T : \E x \in S : f[x] = z
  PROVE  Cardinality(T) = Cardinality(S)
<1>1. f \in Bijection(S, T)
  BY DEF Bijection, Injection, Surjection, IsInjective
<1> QED
  BY <1>1, FS_Bijection DEF ExistsBijection

\* With the wall clock, two runs that stored something have two timestamps.
LEMMA TimestampsApart ==
  ASSUME GuardInv, wallclock, NEW r \in results, NEW q \in results, RunTs(r.run) = RunTs(q.run)
  PROVE  r.run = q.run
<1>1. r.run \in Jobs /\ q.run \in Jobs
  BY RowIsStored
<1>2. order[r.run] = order[q.run] /\ order[r.run] > 0
  <2>1. order[r.run] > 0
    <3>1. PICK i \in DOMAIN Tables : Stored(r.run, i)
      BY RowIsStored
    <3> QED
      BY <1>1, <3>1 DEF GuardInv, OrderInv, Stored
  <2> QED
    BY <2>1 DEF RunTs
<1> QED
  BY <1>1, <1>2 DEF GuardInv, OrderInv

\* A score that was stored is the whole of its group, and its group's point.
LEMMA TrendOfRow ==
  ASSUME GuardInv, NEW row \in results
  PROVE  Max({r.tableScore : r \in {q \in results : q.run = row.run /\ q.table = row.table}})
           = row.tableScore
<1>1. \A r \in {q \in results : q.run = row.run /\ q.table = row.table} : r.tableScore = row.tableScore
  BY OneTableScore
<1>2. {r.tableScore : r \in {q \in results : q.run = row.run /\ q.table = row.table}} = {row.tableScore}
  BY <1>1
<1>3. row.tableScore \in Int
  <2>1. 0 .. Full \subseteq Int
    OBVIOUS
  <2> QED
    BY <2>1, ScoresTyped
<1> QED
  BY <1>2, <1>3, MaxOfOne

\* The point of the trend that a row contributes.
Point(row) == [ts |-> RunTs(row.run), table |-> row.table, tableScore |-> row.tableScore]

\* The points of the trends are those of the rows.
LEMMA TrendsAreOfRows ==
  ASSUME GuardInv
  PROVE  fetch_trends = {Point(row) : row \in results}
<1> DEFINE Best(run, table) ==
      Max({row.tableScore : row \in {r \in results : r.run = run /\ r.table = table}})
<1>1. \A row \in results : Best(row.run, row.table) = row.tableScore
  BY TrendOfRow
<1> HIDE DEF Best
<1> DEFINE P(key) == [ts |-> RunTs(key[1]), table |-> key[2], tableScore |-> Best(key[1], key[2])]
<1>2. fetch_trends = {P(key) : key \in {<<row.run, row.table>> : row \in results}}
  BY DEF fetch_trends, Best
<1>3. \A row \in results : P(<<row.run, row.table>>) = Point(row)
  BY <1>1 DEF Point
<1> HIDE DEF P
<1>4. {P(key) : key \in {<<row.run, row.table>> : row \in results}} = {Point(row) : row \in results}
  BY <1>3
<1> QED
  BY <1>2, <1>4

\* With the wall clock no point hides another.
LEMMA ChartIsTrends ==
  ASSUME GuardInv, wallclock
  PROVE  TrendChart = {Point(row) : row \in results}
<1>1. ASSUME NEW r \in results, NEW q \in results,
             Point(q).ts = Point(r).ts, Point(q).table = Point(r).table
      PROVE  Point(q).tableScore <= Point(r).tableScore
  <2>1. RunTs(q.run) = RunTs(r.run) /\ q.table = r.table
    BY <1>1 DEF Point
  <2>2. q.run = r.run
    BY <2>1, TimestampsApart
  <2>3. q.tableScore = r.tableScore
    BY <2>1, <2>2, OneTableScore
  <2>4. r.tableScore \in Int
    <3>1. 0 .. Full \subseteq Int
      OBVIOUS
    <3> QED
      BY <3>1, ScoresTyped
  <2> QED
    BY <2>3, <2>4 DEF Point
<1> QED
  BY <1>1, TrendsAreOfRows DEF TrendChart

\* With the wall clock, each score that a run stored of a table is a point of the
\* dashboard's chart, and there are no others.
THEOREM TrendShowsAll == Spec => []TrendShowsEveryRun
<1>1. GuardInv => TrendShowsEveryRun
  <2> SUFFICES ASSUME GuardInv, wallclock PROVE TrendShowsEveryRun
    BY DEF TrendShowsEveryRun
  <2>1. PICK chart : chart = TrendChart
    OBVIOUS
  <2>2. PICK stored : stored = {<<row.run, row.table, row.tableScore>> : row \in results}
    OBVIOUS
  <2>3. chart = {Point(row) : row \in results}
    BY <2>1, ChartIsTrends
  <2>4. PICK f : f = [s \in stored |-> [ts |-> RunTs(s[1]), table |-> s[2], tableScore |-> s[3]]]
    OBVIOUS
  <2>5. \A row \in results : f[<<row.run, row.table, row.tableScore>>] = Point(row)
    BY <2>2, <2>4 DEF Point
  <2>6. f \in [stored -> chart] /\ \A p \in chart : \E s \in stored : f[s] = p
    <3>1. \A s \in stored : f[s] \in chart
      BY <2>2, <2>3, <2>5
    <3>2. f \in [stored -> chart]
      BY <2>4, <3>1
    <3> QED
      BY <2>2, <2>3, <2>5, <3>2
  <2>7. ASSUME NEW s \in stored, NEW t \in stored, f[s] = f[t]
        PROVE  s = t
    <3>1. PICK r \in results : s = <<r.run, r.table, r.tableScore>>
      BY <2>2
    <3>2. PICK q \in results : t = <<q.run, q.table, q.tableScore>>
      BY <2>2
    <3>3. Point(r) = Point(q)
      BY <2>5, <2>7, <3>1, <3>2
    <3>4. RunTs(r.run) = RunTs(q.run) /\ r.table = q.table /\ r.tableScore = q.tableScore
      BY <3>3 DEF Point
    <3>5. r.run = q.run
      BY <3>4, TimestampsApart
    <3> QED
      BY <3>1, <3>2, <3>4, <3>5
  <2>8. IsFiniteSet(stored)
    <3>1. IsFiniteSet(TableNames)
      <4>1. TableNames = {"orders_clean"} \cup {"orders_drifted"}
        BY DEF TableNames
      <4> QED
        BY <4>1, FS_Singleton, FS_AddElement
    <3>2. IsFiniteSet(Jobs \X TableNames)
      BY <3>1, JobsAssumption, FS_Product
    <3>3. PICK K : K = {<<row.run, row.table>> : row \in results}
      OBVIOUS
    <3>4. K \in SUBSET (Jobs \X TableNames)
      BY <3>3, RowIsStored
    <3>5. IsFiniteSet(K)
      BY <3>2, <3>4, FS_Subset
    <3>6. PICK g : g = [s \in stored |-> <<s[1], s[2]>>]
      OBVIOUS
    <3>7. g \in [stored -> K]
      BY <2>2, <3>3, <3>6
    <3>8. ASSUME NEW s \in stored, NEW t \in stored, g[s] = g[t]
          PROVE  s = t
      <4>1. PICK r \in results : s = <<r.run, r.table, r.tableScore>>
        BY <2>2
      <4>2. PICK q \in results : t = <<q.run, q.table, q.tableScore>>
        BY <2>2
      <4>3. r.run = q.run /\ r.table = q.table
        BY <3>6, <3>8, <4>1, <4>2
      <4>4. r.tableScore = q.tableScore
        BY <4>3, OneTableScore
      <4> QED
        BY <4>1, <4>2, <4>3, <4>4
    <3>9. g \in Injection(stored, K)
      BY <3>7, <3>8 DEF Injection, IsInjective
    <3> QED
      BY <3>5, <3>9, FS_Injection
  <2>9. Cardinality(chart) = Cardinality(stored)
    BY <2>6, <2>7, <2>8, SameCount
  <2>10. \A r \in stored : [ts |-> RunTs(r[1]), table |-> r[2], tableScore |-> r[3]] \in chart
    BY <2>4, <2>6
  <2> QED
    BY <2>1, <2>2, <2>9, <2>10 DEF TrendShowsEveryRun
<1> QED
  BY <1>1, GuardSound, PTL

-----------------------------------------------------------------------------
(* The scores of VERIFICATION.md *)

\* A quotient, rounded down.
LEMMA QuotientIs ==
  ASSUME NEW a \in Int, NEW b \in Int, NEW k \in Int, b > 0, b * k <= a, a < b * k + b
  PROVE  a \div b = k
<1>1. PICK q : q = a \div b
  OBVIOUS
<1>2. q \in Int /\ b * q <= a /\ a < b * q + b
  BY <1>1
<1>3. ASSUME q + 1 <= k PROVE FALSE
  <2>1. b * (q + 1) <= b * k
    BY <1>2, <1>3
  <2>2. b * (q + 1) = b * q + b
    BY <1>2
  <2> QED
    BY <1>2, <2>1, <2>2
<1>4. ASSUME k + 1 <= q PROVE FALSE
  <2>1. b * (k + 1) <= b * q
    BY <1>2, <1>4
  <2>2. b * (k + 1) = b * k + b
    BY <1>2
  <2> QED
    BY <1>2, <2>1, <2>2
<1> QED
  BY <1>1, <1>2, <1>3, <1>4

\* A fraction of a multiple of the seed rows is the seed's, rounded down.
LEMMA SeedRatios ==
  ASSUME NEW n \in Nat, n >= 1
  PROVE  /\ Ratio(0, n * 1000) = 0
         /\ Ratio(n * 1000, n * 1000) = Full
         /\ Ratio(n * 80, n * 1000) = 800
         /\ Ratio(n * 849, n * 920) = 9228
<1>1. n * 1000 \in Int /\ n * 1000 > 0 /\ n * 920 \in Int /\ n * 920 > 0
  OBVIOUS
<1>2. (Full * 0) \div (n * 1000) = 0
  <2>1. (n * 1000) * 0 <= Full * 0 /\ Full * 0 < (n * 1000) * 0 + n * 1000 /\ Full * 0 \in Int
    BY <1>1 DEF Full
  <2> QED
    BY <1>1, <2>1, QuotientIs
<1>3. (Full * (n * 1000)) \div (n * 1000) = Full
  <2>1. /\ (n * 1000) * Full <= Full * (n * 1000)
        /\ Full * (n * 1000) < (n * 1000) * Full + n * 1000
        /\ Full * (n * 1000) \in Int /\ Full \in Int
    BY <1>1 DEF Full
  <2> QED
    BY <1>1, <2>1, QuotientIs
<1>4. (Full * (n * 80)) \div (n * 1000) = 800
  <2>1. /\ (n * 1000) * 800 <= Full * (n * 80)
        /\ Full * (n * 80) < (n * 1000) * 800 + n * 1000
        /\ Full * (n * 80) \in Int /\ 800 \in Int
    BY <1>1 DEF Full
  <2> QED
    BY <1>1, <2>1, QuotientIs
<1>5. (Full * (n * 849)) \div (n * 920) = 9228
  <2>1. /\ (n * 920) * 9228 <= Full * (n * 849)
        /\ Full * (n * 849) < (n * 920) * 9228 + n * 920
        /\ Full * (n * 849) \in Int /\ 9228 \in Int
    BY <1>1 DEF Full
  <2> QED
    BY <1>1, <2>1, QuotientIs
<1> QED
  BY <1>2, <1>3, <1>4, <1>5 DEF Ratio

\* The score of six results with these names.
LEMMA ScoreOfSix ==
  ASSUME NEW a, NEW b, NEW c, NEW d, NEW e, NEW f,
         a.check = "schema", b.check = "null", c.check = "amount_range",
         d.check = "quantity_range", e.check = "freshness", f.check = "drift",
         a.score \in Int, b.score \in Int, c.score \in Int,
         d.score \in Int, e.score \in Int, f.score \in Int
  PROVE  score_table({a, b, c, d, e, f})
           = (3 * a.score + 2 * b.score + 2 * c.score + d.score + 2 * e.score + 2 * f.score) \div 12
<1>1. PICK S : S = {a, b, c, d, e, f}
  OBVIOUS
<1>2. /\ a \notin {b, c, d, e, f} /\ b \notin {c, d, e, f} /\ c \notin {d, e, f}
      /\ d \notin {e, f} /\ e # f
  OBVIOUS
<1>3. IsFiniteSet(S) /\ S # {}
  <2>1. IsFiniteSet({a, b, c, d, e, f})
    BY <1>2, SixCounted
  <2> QED
    BY <1>1, <2>1
<1>4. PICK h, g : /\ IsSum(h, WeightedOf(S), S) /\ IsSum(g, WeightOf(S), S)
                  /\ score_table(S) = h[S] \div g[S]
  BY <1>3, ScoreIsRatio
<1>5. /\ Weight(a.check) = 3 /\ Weight(b.check) = 2 /\ Weight(c.check) = 2
      /\ Weight(d.check) = 1 /\ Weight(e.check) = 2 /\ Weight(f.check) = 2
  BY DEF Weight
<1>6. PICK w : w = WeightedOf(S)
  OBVIOUS
<1>7. /\ w[a] = 3 * a.score /\ w[b] = 2 * b.score /\ w[c] = 2 * c.score
      /\ w[d] = 1 * d.score /\ w[e] = 2 * e.score /\ w[f] = 2 * f.score
  BY <1>1, <1>5, <1>6 DEF WeightedOf
<1>8. PICK v : v = WeightOf(S)
  OBVIOUS
<1>9. v[a] = 3 /\ v[b] = 2 /\ v[c] = 2 /\ v[d] = 1 /\ v[e] = 2 /\ v[f] = 2
  BY <1>1, <1>5, <1>8 DEF WeightOf
<1>10. /\ a.score \in Int /\ b.score \in Int /\ c.score \in Int
       /\ d.score \in Int /\ e.score \in Int /\ f.score \in Int
  OBVIOUS
<1>11. \A x \in S : w[x] \in Int
  BY <1>1, <1>7, <1>10
<1>12. \A x \in S : v[x] \in Int
  BY <1>1, <1>9
<1>13. h[S] = w[a] + w[b] + w[c] + w[d] + w[e] + w[f]
  <2>1. IsIntSum(h, w, S)
    BY <1>3, <1>4, <1>6, <1>11 DEF IsIntSum
  <2>2. TakesAny(h, w, S)
    BY <2>1, SumTakes
  <2>3. AreSix(a, b, c, d, e, f, S)
    BY <1>1, <1>2 DEF AreSix
  <2> QED
    BY <1>11, <2>2, <2>3, SixSummed
<1>14. g[S] = v[a] + v[b] + v[c] + v[d] + v[e] + v[f]
  <2>1. IsIntSum(g, v, S)
    BY <1>3, <1>4, <1>8, <1>12 DEF IsIntSum
  <2>2. TakesAny(g, v, S)
    BY <2>1, SumTakes
  <2>3. AreSix(a, b, c, d, e, f, S)
    BY <1>1, <1>2 DEF AreSix
  <2> QED
    BY <1>12, <2>2, <2>3, SixSummed
<1>15. g[S] = 12
  BY <1>9, <1>14
<1>16. h[S] = 3 * a.score + 2 * b.score + 2 * c.score + d.score + 2 * e.score + 2 * f.score
  BY <1>7, <1>10, <1>13
<1> QED
  BY <1>1, <1>4, <1>15, <1>16

\* The seed rows, in whatever number of copies, score what VERIFICATION.md:61 says
\* of them, but for the drifted ones with nothing to compare them with.
LEMMA SeedScores ==
  ASSUME ~wallclock, NEW t \in TableNames, NEW n \in Nat, n >= 1, NEW base \in Nat
  PROVE  score_table(RunChecks(FrameOf(t, n), base))
           = IF t = "orders_drifted" /\ base = 0 THEN 8071 ELSE Golden[t]
<1>0. /\ Full \in Int /\ Full + Full \in Int /\ 9200 \in 0 .. Full /\ 9228 \in 0 .. Full
      /\ Full \in 0 .. Full /\ Full + Full >= Full /\ -30000 \in Int /\ -39900 \in Int
  BY DEF Full
<1>1. PICK frame : frame = FrameOf(t, n)
  OBVIOUS
<1>2. PICK a, b, c, d, e, f :
        /\ a = schema_check(frame) /\ b = null_check(frame)
        /\ c = range_check("amount_range", Amounts(frame), frame.amounts)
        /\ d = range_check("quantity_range", frame.rows, frame.quantities)
        /\ e = freshness_check(frame) /\ f = drift_check(frame, base)
  OBVIOUS
<1>3. /\ Clamped(a, "schema") /\ Clamped(b, "null") /\ Clamped(c, "amount_range")
      /\ Clamped(d, "quantity_range") /\ Clamped(e, "freshness") /\ Clamped(f, "drift")
  BY <1>1, <1>2, FrameTyped, ChecksClamped
<1>4. /\ a.check = "schema" /\ b.check = "null" /\ c.check = "amount_range"
      /\ d.check = "quantity_range" /\ e.check = "freshness" /\ f.check = "drift"
  BY <1>3, ClampedAgain
<1>5. RunChecks(FrameOf(t, n), base) = {a, b, c, d, e, f}
  BY <1>1, <1>2 DEF RunChecks
<1>6. frame.rows = n * 1000 /\ frame.quantities = n * 1000 /\ frame.rows > 0
  BY <1>1 DEF FrameOf, SeedFrame
<1>7. Amounts(frame) \in Nat /\ Amounts(frame) > 0
  <2>1. CASE t = "orders_clean"
    BY <1>1, <2>1 DEF FrameOf, SeedFrame, Amounts
  <2>2. CASE t # "orders_clean"
    BY <1>1, <2>2 DEF FrameOf, SeedFrame, Amounts
  <2> QED
    BY <2>1, <2>2
<1>8. frame.rows # 0 /\ Amounts(frame) # 0
  BY <1>6, <1>7
<1>13. ASSUME base = 0 PROVE f.score = Full
  <2>1. \E p \in BOOLEAN : f = CheckResult("drift", p, Full)
    BY <1>2, <1>13 DEF drift_check
  <2> QED
    BY <1>0, <2>1, ScoreMade
<1>9. a.score = Full
  <2>1. TypedColumns(frame) = SchemaColumns
    <3>1. ~(frame.rows = 0) /\ ~(frame.rows > 0 /\ Amounts(frame) = 0)
      BY <1>6, <1>7
    <3> QED
      BY <3>1 DEF TypedColumns
  <2>2. Ratio(TypedColumns(frame), SchemaColumns) = Full
    BY <2>1 DEF Ratio, Full, SchemaColumns
  <2>3. \E p \in BOOLEAN : a = CheckResult("schema", p, Full)
    BY <1>2, <2>1, <2>2 DEF schema_check
  <2> QED
    BY <1>0, <2>3, ScoreMade
<1>10. d.score = Full
  <2>1. Ratio(frame.quantities, frame.rows) = Full
    BY <1>6, SeedRatios
  <2>2. \E p \in BOOLEAN : d = CheckResult("quantity_range", p, Full)
    BY <1>2, <1>6, <2>1, ZenonT(60) DEF range_check
  <2> QED
    BY <1>0, <2>2, ScoreMade
<1>11. CASE t = "orders_clean"
  <2>1. /\ frame.nulls = 0 /\ frame.amounts = n * 1000 /\ Amounts(frame) = n * 1000
        /\ frame.age = 0 /\ frame.psi = 0
    BY <1>1, <1>11 DEF FrameOf, SeedFrame, Amounts
  <2>2. b.score = Full
    <3>1. Full - Ratio(frame.nulls, frame.rows) = Full
      BY <1>6, <2>1, SeedRatios DEF Full
    <3>2. Full - Ratio(frame.nulls, frame.rows) \in Int /\ (frame.nulls = 0) \in BOOLEAN
      BY <1>0, <3>1
    <3>3. Full - Ratio(frame.nulls, frame.rows) \in 0 .. Full => null_check(frame).score = Full - Ratio(frame.nulls, frame.rows)
      BY <1>8, <3>2, CheckResultClamps DEF null_check
    <3> QED
      BY <1>0, <1>2, <3>1, <3>3
  <2>3. c.score = Full
    <3>1. Ratio(frame.amounts, Amounts(frame)) = Full
      BY <2>1, SeedRatios
    <3>2. Ratio(frame.amounts, Amounts(frame)) \in Int /\ (frame.amounts = Amounts(frame)) \in BOOLEAN
      BY <1>0, <3>1
    <3>3. Ratio(frame.amounts, Amounts(frame)) \in 0 .. Full => range_check("amount_range", Amounts(frame), frame.amounts).score = Ratio(frame.amounts, Amounts(frame))
      BY <1>8, <3>2, CheckResultClamps DEF range_check
    <3> QED
      BY <1>0, <1>2, <3>1, <3>3
  <2>4. e.score = Full
    <3>1. Full - Ratio(frame.age - MaxAgeHours, MaxAgeHours) = Full + Full
      BY <2>1 DEF Ratio, Full, MaxAgeHours
    <3>2. Full - Ratio(frame.age - MaxAgeHours, MaxAgeHours) \in Int /\ (frame.age <= MaxAgeHours) \in BOOLEAN
      BY <1>0, <3>1
    <3>3. Full - Ratio(frame.age - MaxAgeHours, MaxAgeHours) >= Full => freshness_check(frame).score = Full
      BY <1>8, <3>2, CheckResultClamps DEF freshness_check
    <3> QED
      BY <1>0, <1>2, <3>1, <3>3
  <2>5. f.score = Full
    <3>1. Full - Ratio(frame.psi, 100) = Full
      BY <2>1 DEF Ratio, Full
    <3>2. Full - Ratio(frame.psi, 100) \in Int /\ (frame.psi <= PsiThreshold) \in BOOLEAN
      BY <1>0, <3>1
    <3>3. base # 0 /\ Full - Ratio(frame.psi, 100) \in 0 .. Full => drift_check(frame, base).score = Full - Ratio(frame.psi, 100)
      BY <1>8, <3>2, CheckResultClamps, ZenonT(60) DEF drift_check
    <3> QED
      BY <1>0, <1>2, <1>13, <3>1, <3>3
  <2>6. score_table({a, b, c, d, e, f})
          = (3 * Full + 2 * Full + 2 * Full + Full + 2 * Full + 2 * Full) \div 12
    <3>1. /\ a.score \in Int /\ b.score \in Int /\ c.score \in Int
          /\ d.score \in Int /\ e.score \in Int /\ f.score \in Int
      BY <1>0, <1>9, <1>10, <2>2, <2>3, <2>4, <2>5
    <3>2. score_table({a, b, c, d, e, f})
            = (3 * a.score + 2 * b.score + 2 * c.score + d.score + 2 * e.score + 2 * f.score) \div 12
      BY <1>4, <3>1, ScoreOfSix, SMTT(30)
    <3> QED
      BY <1>9, <1>10, <2>2, <2>3, <2>4, <2>5, <3>2
  <2>7. (3 * Full + 2 * Full + 2 * Full + Full + 2 * Full + 2 * Full) \div 12 = 10000
    BY DEF Full
  <2> QED
    BY <1>5, <1>11, <2>6, <2>7 DEF Golden
<1>12. CASE t = "orders_drifted"
  <2>1. /\ frame.nulls = n * 80 /\ frame.amounts = n * 849 /\ Amounts(frame) = n * 920
        /\ frame.age = 240 /\ frame.psi = 499
    BY <1>1, <1>12 DEF FrameOf, SeedFrame, Amounts
  <2>2. b.score = 9200
    <3>1. Full - Ratio(frame.nulls, frame.rows) = 9200
      BY <1>6, <2>1, SeedRatios DEF Full
    <3>2. Full - Ratio(frame.nulls, frame.rows) \in Int /\ (frame.nulls = 0) \in BOOLEAN
      BY <1>0, <3>1
    <3>3. Full - Ratio(frame.nulls, frame.rows) \in 0 .. Full => null_check(frame).score = Full - Ratio(frame.nulls, frame.rows)
      BY <1>8, <3>2, CheckResultClamps DEF null_check
    <3> QED
      BY <1>0, <1>2, <3>1, <3>3
  <2>3. c.score = 9228
    <3>1. Ratio(frame.amounts, Amounts(frame)) = 9228
      BY <2>1, SeedRatios
    <3>2. Ratio(frame.amounts, Amounts(frame)) \in Int /\ (frame.amounts = Amounts(frame)) \in BOOLEAN
      BY <1>0, <3>1
    <3>3. Ratio(frame.amounts, Amounts(frame)) \in 0 .. Full => range_check("amount_range", Amounts(frame), frame.amounts).score = Ratio(frame.amounts, Amounts(frame))
      BY <1>8, <3>2, CheckResultClamps DEF range_check
    <3> QED
      BY <1>0, <1>2, <3>1, <3>3
  <2>4. e.score = 0
    <3>1. Full - Ratio(frame.age - MaxAgeHours, MaxAgeHours) = -30000
      BY <2>1 DEF Ratio, Full, MaxAgeHours
    <3>2. Full - Ratio(frame.age - MaxAgeHours, MaxAgeHours) \in Int /\ (frame.age <= MaxAgeHours) \in BOOLEAN
      BY <1>0, <3>1
    <3>3. Full - Ratio(frame.age - MaxAgeHours, MaxAgeHours) <= 0 => freshness_check(frame).score = 0
      BY <1>8, <3>2, CheckResultClamps DEF freshness_check
    <3> QED
      BY <1>0, <1>2, <3>1, <3>3
  <2>5. f.score = IF base = 0 THEN Full ELSE 0
    <3>1. Full - Ratio(frame.psi, 100) = -39900
      BY <2>1 DEF Ratio, Full
    <3>2. Full - Ratio(frame.psi, 100) \in Int /\ (frame.psi <= PsiThreshold) \in BOOLEAN
      BY <1>0, <3>1
    <3>3. base # 0 /\ Full - Ratio(frame.psi, 100) <= 0 => drift_check(frame, base).score = 0
      BY <1>8, <3>2, CheckResultClamps DEF drift_check
    <3> QED
      BY <1>0, <1>2, <1>13, <3>1, <3>3
  <2>6. score_table({a, b, c, d, e, f})
          = (3 * Full + 2 * 9200 + 2 * 9228 + Full + 2 * 0 + 2 * f.score) \div 12
    <3>1. /\ a.score \in Int /\ b.score \in Int /\ c.score \in Int
          /\ d.score \in Int /\ e.score \in Int /\ f.score \in Int
      BY <1>0, <1>9, <1>10, <2>2, <2>3, <2>4, <2>5
    <3>2. score_table({a, b, c, d, e, f})
            = (3 * a.score + 2 * b.score + 2 * c.score + d.score + 2 * e.score + 2 * f.score) \div 12
      BY <1>4, <3>1, ScoreOfSix, SMTT(30)
    <3> QED
      BY <1>9, <1>10, <2>2, <2>3, <2>4, <3>2
  <2>7. /\ (3 * Full + 2 * 9200 + 2 * 9228 + Full + 2 * 0 + 2 * 0) \div 12 = 6404
        /\ (3 * Full + 2 * 9200 + 2 * 9228 + Full + 2 * 0 + 2 * Full) \div 12 = 8071
    BY DEF Full
  <2>8. CASE base = 0
    BY <1>5, <1>12, <2>5, <2>6, <2>7, <2>8
  <2>9. CASE base # 0
    BY <1>5, <1>12, <2>5, <2>6, <2>7, <2>9 DEF Golden, TableNames
  <2> QED
    BY <2>8, <2>9
<1> QED
  BY <1>11, <1>12 DEF TableNames

\* An empty table scores the same whatever it is compared with: the schema and
\* freshness checks fail, the other four have nothing to find.
LEMMA EmptyScores ==
  ASSUME NEW t \in TableNames, NEW base \in Nat
  PROVE  score_table(RunChecks(FrameOf(t, 0), base)) = 6333
<1>0. Full = 10000 /\ Full \in Int /\ Full \in 0 .. Full /\ 0 \in 0 .. Full /\ 2000 \in 0 .. Full
  BY DEF Full
<1>1. PICK frame : frame = FrameOf(t, 0)
  OBVIOUS
<1>2. PICK a, b, c, d, e, f :
        /\ a = schema_check(frame) /\ b = null_check(frame)
        /\ c = range_check("amount_range", Amounts(frame), frame.amounts)
        /\ d = range_check("quantity_range", frame.rows, frame.quantities)
        /\ e = freshness_check(frame) /\ f = drift_check(frame, base)
  OBVIOUS
<1>3. /\ Clamped(a, "schema") /\ Clamped(b, "null") /\ Clamped(c, "amount_range")
      /\ Clamped(d, "quantity_range") /\ Clamped(e, "freshness") /\ Clamped(f, "drift")
  BY <1>1, <1>2, FrameTyped, ChecksClamped
<1>4. /\ a.check = "schema" /\ b.check = "null" /\ c.check = "amount_range"
      /\ d.check = "quantity_range" /\ e.check = "freshness" /\ f.check = "drift"
  BY <1>3, ClampedAgain
<1>5. RunChecks(FrameOf(t, 0), base) = {a, b, c, d, e, f}
  BY <1>1, <1>2 DEF RunChecks
<1>6. frame.rows = 0 /\ Amounts(frame) = 0
  BY <1>1 DEF FrameOf, SeedFrame, Amounts
<1>7. a.score = 2000
  <2>1. TypedColumns(frame) = 1
    BY <1>6 DEF TypedColumns
  <2>2. Ratio(TypedColumns(frame), SchemaColumns) = 2000
    BY <2>1 DEF Ratio, Full, SchemaColumns
  <2>3. Ratio(TypedColumns(frame), SchemaColumns) \in Int
        /\ (TypedColumns(frame) = SchemaColumns) \in BOOLEAN
    BY <2>2
  <2>4. Ratio(TypedColumns(frame), SchemaColumns) \in 0 .. Full =>
          schema_check(frame).score = Ratio(TypedColumns(frame), SchemaColumns)
    BY <2>3, CheckResultClamps DEF schema_check
  <2> QED
    BY <1>0, <1>2, <2>2, <2>4
<1>8. b.score = Full /\ c.score = Full /\ d.score = Full /\ f.score = Full
  <2>1. /\ b = CheckResult("null", TRUE, Full) /\ c = CheckResult("amount_range", TRUE, Full)
        /\ d = CheckResult("quantity_range", TRUE, Full) /\ f = CheckResult("drift", TRUE, Full)
    BY <1>2, <1>6 DEF null_check, range_check, drift_check
  <2>2. TRUE \in BOOLEAN /\ Full \in Int /\ Full \in 0 .. Full
    BY <1>0
  <2>3. \A check : CheckResult(check, TRUE, Full).score = Full
    BY <2>2, CheckResultClamps
  <2> QED
    BY <2>1, <2>3
<1>9. e.score = 0
  <2>1. e = CheckResult("freshness", FALSE, 0)
    BY <1>2, <1>6 DEF freshness_check
  <2>2. FALSE \in BOOLEAN /\ 0 \in Int /\ 0 \in 0 .. Full
    BY <1>0
  <2>3. CheckResult("freshness", FALSE, 0).score = 0
    BY <2>2, CheckResultClamps
  <2> QED
    BY <2>1, <2>3
<1>10. score_table({a, b, c, d, e, f})
         = (3 * a.score + 2 * b.score + 2 * c.score + d.score + 2 * e.score + 2 * f.score) \div 12
  <2>1. /\ a.score \in Int /\ b.score \in Int /\ c.score \in Int
        /\ d.score \in Int /\ e.score \in Int /\ f.score \in Int
    BY <1>0, <1>7, <1>8, <1>9
  <2> QED
    BY <1>4, <2>1, ScoreOfSix, SMTT(30)
<1>11. (3 * 2000 + 2 * Full + 2 * Full + Full + 2 * 0 + 2 * Full) \div 12 = 6333
  BY DEF Full
<1>12. 3 * a.score + 2 * b.score + 2 * c.score + d.score + 2 * e.score + 2 * f.score
         = 3 * 2000 + 2 * Full + 2 * Full + Full + 2 * 0 + 2 * Full
  BY <1>7, <1>8, <1>9
<1> QED
  BY <1>5, <1>10, <1>11, <1>12

\* A battery's schema check passes unless the table was empty, and its drift
\* check passes without a baseline.
LEMMA BatteryVerdicts ==
  ASSUME NEW t \in TableNames, NEW n \in Nat, NEW base \in Nat, NEW S,
         S = RunChecks(FrameOf(t, n), base)
  PROVE  /\ \E r \in S : r.check = "schema"
         /\ \A r \in S : r.check = "schema" => (r.passed <=> n >= 1)
         /\ base = 0 => \E r \in S : r.check = "drift" /\ r.passed
<1>1. PICK frame : frame = FrameOf(t, n)
  OBVIOUS
<1>2. PICK a, b, c, d, e, f :
        /\ a = schema_check(frame) /\ b = null_check(frame)
        /\ c = range_check("amount_range", Amounts(frame), frame.amounts)
        /\ d = range_check("quantity_range", frame.rows, frame.quantities)
        /\ e = freshness_check(frame) /\ f = drift_check(frame, base)
  OBVIOUS
<1>3. /\ Clamped(a, "schema") /\ Clamped(b, "null") /\ Clamped(c, "amount_range")
      /\ Clamped(d, "quantity_range") /\ Clamped(e, "freshness") /\ Clamped(f, "drift")
  BY <1>1, <1>2, FrameTyped, ChecksClamped
<1>4. /\ a.check = "schema" /\ b.check = "null" /\ c.check = "amount_range"
      /\ d.check = "quantity_range" /\ e.check = "freshness" /\ f.check = "drift"
  BY <1>3, ClampedAgain
<1>5. S = {a, b, c, d, e, f}
  BY <1>1, <1>2 DEF RunChecks
<1>6. a.passed <=> n >= 1
  <2>1. frame.rows = n * 1000 /\ Amounts(frame) \in Nat /\ (n >= 1 => Amounts(frame) > 0)
    <3>1. CASE t = "orders_clean"
      BY <1>1, <3>1 DEF FrameOf, SeedFrame, Amounts
    <3>2. CASE t # "orders_clean"
      BY <1>1, <3>2 DEF FrameOf, SeedFrame, Amounts
    <3> QED
      BY <3>1, <3>2
  <2>2. TypedColumns(frame) = SchemaColumns <=> n >= 1
    BY <2>1 DEF TypedColumns, SchemaColumns
  <2>3. Ratio(TypedColumns(frame), SchemaColumns) \in Int
    <3>1. TypedColumns(frame) \in Int
      BY DEF TypedColumns, SchemaColumns
    <3> QED
      BY <3>1, RatioInt DEF SchemaColumns
  <2>4. a.passed = (TypedColumns(frame) = SchemaColumns)
    BY <1>2, <2>3, CheckResultClamps DEF schema_check
  <2> QED
    BY <2>2, <2>4
<1>7. base = 0 => f.passed
  <2>1. base = 0 => f = CheckResult("drift", TRUE, Full)
    BY <1>2 DEF drift_check
  <2>2. Full \in Int
    BY DEF Full
  <2> QED
    BY <2>1, <2>2, CheckResultClamps
<1> QED
  BY <1>4, <1>5, <1>6, <1>7

\* With REFERENCE_NOW, however many jobs seed and run at once and wherever they
\* die, a run that nobody disturbed stores the two scores of VERIFICATION.md.
THEOREM UndisturbedRunsAreGolden == Spec => []GoldenUnlessDisturbed
<1>1. GuardInv => GoldenUnlessDisturbed
  <2> SUFFICES ASSUME GuardInv, ~wallclock, NEW row \in results, row.run \notin disturbed
               PROVE  row.tableScore = Golden[row.table]
    BY DEF GoldenUnlessDisturbed
  <2>1. PICK i \in DOMAIN Tables :
          /\ row.run \in Jobs /\ row.table = Tables[i] /\ row.table \in TableNames
          /\ Stored(row.run, i) /\ row \in RowsOf(row.run, i)
    BY RowIsStored
  <2>2. PICK n, base \in Nat : \E S, score :
           /\ S = RunChecks(FrameOf(Tables[i], n), base)
           /\ score = score_table(S) /\ score \in 0 .. Full
           /\ RowsOf(row.run, i) = {Row(row.run, Tables[i], r, score) : r \in S}
           /\ IsFiniteSet(S) /\ S # {}
           /\ \A r \in S : Clamped(r, r.check)
           /\ {r.check : r \in S} = CheckNames
           /\ row.run \notin disturbed => n >= 1 /\ base >= 1
    <3>1. row.run \in Jobs /\ Stored(row.run, i)
      BY <2>1
    <3> QED
      BY <3>1, RowsAreOfABattery
  <2>3. PICK S, score : /\ S = RunChecks(FrameOf(Tables[i], n), base)
                        /\ score = score_table(S)
                        /\ RowsOf(row.run, i) = {Row(row.run, Tables[i], r, score) : r \in S}
                        /\ n >= 1 /\ base >= 1
    BY <2>2
  <2>4. row.tableScore = score
    <3>1. PICK r \in S : row = Row(row.run, Tables[i], r, score)
      BY <2>1, <2>3
    <3> QED
      BY <3>1, RowFields
  <2>5. score_table(RunChecks(FrameOf(row.table, n), base)) = Golden[row.table]
    <3>1. base # 0
      BY <2>3
    <3> QED
      BY <2>1, <2>3, <3>1, SeedScores
  <2> QED
    BY <2>1, <2>3, <2>4, <2>5
<1> QED
  BY <1>1, GuardSound, PTL

\* With REFERENCE_NOW, whatever the seeding jobs and runs do to one another, a
\* table read while it was empty lowers the score and fails the schema check, and
\* only an empty baseline raises one, that of the drifted orders.
THEOREM DisturbanceIsShown == Spec => []DisturbanceShows
<1>1. ASSUME GuardInv, ~wallclock, NEW row \in results
      PROVE  LET passed(check) ==
                   \E r \in results : r.run = row.run /\ r.table = row.table /\ r.check = check /\ r.passed
             IN  /\ row.tableScore < Golden[row.table] <=> ~passed("schema")
                 /\ row.tableScore > Golden[row.table] =>
                      row.table = "orders_drifted" /\ row.run \in disturbed /\ passed("drift")
  <2> DEFINE passed(check) ==
               \E r \in results : r.run = row.run /\ r.table = row.table /\ r.check = check /\ r.passed
  <2>1. PICK i \in DOMAIN Tables :
          /\ row.run \in Jobs /\ row.table = Tables[i] /\ row.table \in TableNames
          /\ Stored(row.run, i) /\ row \in RowsOf(row.run, i)
    BY <1>1, RowIsStored
  <2>2. PICK n, base \in Nat : \E S, score :
           /\ S = RunChecks(FrameOf(Tables[i], n), base)
           /\ score = score_table(S) /\ score \in 0 .. Full
           /\ RowsOf(row.run, i) = {Row(row.run, Tables[i], r, score) : r \in S}
           /\ IsFiniteSet(S) /\ S # {}
           /\ \A r \in S : Clamped(r, r.check)
           /\ {r.check : r \in S} = CheckNames
           /\ row.run \notin disturbed => n >= 1 /\ base >= 1
    <3>1. row.run \in Jobs /\ Stored(row.run, i)
      BY <2>1
    <3> QED
      BY <1>1, <3>1, RowsAreOfABattery
  <2>3. PICK S, score : /\ S = RunChecks(FrameOf(Tables[i], n), base)
                        /\ score = score_table(S)
                        /\ RowsOf(row.run, i) = {Row(row.run, Tables[i], r, score) : r \in S}
                        /\ row.run \notin disturbed => n >= 1 /\ base >= 1
    BY <2>2
  <2>4. row.tableScore = score
    <3>1. PICK r \in S : row = Row(row.run, Tables[i], r, score)
      BY <2>1, <2>3
    <3> QED
      BY <3>1, RowFields
  <2>5. \A check : passed(check) <=> \E r \in S : r.check = check /\ r.passed
    <3>1. \A check : passed(check) <=> \E x \in RowsOf(row.run, i) : x.check = check /\ x.passed
      BY <2>1 DEF RowsOf
    <3>2. \A r \in S : /\ Row(row.run, Tables[i], r, score).check = r.check
                       /\ Row(row.run, Tables[i], r, score).passed = r.passed
      BY RowFields
    <3> QED
      BY <2>3, <3>1, <3>2
  <2>6. /\ passed("schema") <=> n >= 1
        /\ base = 0 => passed("drift")
    <3>1. /\ \E r \in S : r.check = "schema"
          /\ \A r \in S : r.check = "schema" => (r.passed <=> n >= 1)
          /\ base = 0 => \E r \in S : r.check = "drift" /\ r.passed
      BY <2>1, <2>3, BatteryVerdicts
    <3> QED
      BY <2>5, <3>1
  <2>7. Golden[row.table] = IF row.table = "orders_clean" THEN 10000 ELSE 6404
    BY <2>1 DEF Golden
  <2>8. CASE n = 0
    <3>1. score = 6333
      BY <2>1, <2>3, <2>8, EmptyScores
    <3> QED
      BY <2>4, <2>6, <2>7, <2>8, <3>1
  <2>9. CASE n # 0
    <3>1. score = IF row.table = "orders_drifted" /\ base = 0 THEN 8071 ELSE Golden[row.table]
      BY <1>1, <2>1, <2>3, <2>9, SeedScores
    <3>2. CASE row.table = "orders_drifted" /\ base = 0
      <4>1. row.run \in disturbed /\ Golden[row.table] = 6404
        BY <2>3, <2>7, <3>2
      <4> QED
        BY <2>4, <2>6, <2>9, <3>1, <3>2, <4>1
    <3>3. CASE ~(row.table = "orders_drifted" /\ base = 0)
      BY <2>4, <2>6, <2>7, <2>9, <3>1, <3>3
    <3> QED
      BY <3>2, <3>3
  <2> QED
    BY <2>8, <2>9
<1>2. GuardInv => DisturbanceShows
  BY <1>1 DEF DisturbanceShows
<1> QED
  BY <1>2, GuardSound, PTL

-----------------------------------------------------------------------------
(* Samples, for the drift statistics *)

\* A sample says of every value how often it occurs.
Sample == [Values -> Nat]

SamplesInv == baseline_array \in Sample /\ current_array \in Sample

\* The empty samples are samples.
LEMMA SamplesInit == DriftInit => SamplesInv
<1>1. [v \in Values |-> 0] \in Sample
  BY DEF Sample
<1> QED
  BY <1>1 DEF DriftInit, SamplesInv

\* The samples stay samples.
LEMMA SamplesStep == SamplesInv /\ [DriftNext]_driftVars => SamplesInv'
  BY DEF SamplesInv, Sample, DriftNext, driftVars, ObserveBaseline, ObserveCurrent

\* There are finitely many values, and they are not negative.
LEMMA ValuesFinite == IsFiniteSet(Values) /\ Values \subseteq Int /\ MaxValue \in Values
<1>1. 0 \in Int /\ MaxValue \in Int /\ 0 <= MaxValue
  BY DriftAssumption
<1>2. IsFiniteSet(Values)
  BY <1>1, FS_Interval DEF Values
<1> QED
  BY <1>1, <1>2 DEF Values

\* Counting is summing.
LEMMA CountIsSum == \A f, S : CountOf(f, S) = SumOver(f, S)
  BY DEF CountOf, MapThenSumSet, MapThenFoldSet, SumOver, IsSum, Pick

\* A count of observations is a natural number.
LEMMA CountsSummable ==
  ASSUME NEW sample \in Sample, NEW T \in SUBSET Values
  PROVE  IsFiniteSet(T) /\ Summable(sample, T) /\ CountOf(sample, T) \in Nat
<1>1. IsFiniteSet(T)
  BY ValuesFinite, FS_Subset
<1>2. \A v \in T : sample[v] \in Nat
  BY DEF Sample
<1> QED
  BY <1>1, <1>2, CountIsSum, SumPositive DEF Summable

\* A size is one of a natural number of observations.
LEMMA SizeNat ==
  ASSUME NEW sample \in Sample
  PROVE  Size(sample) \in Nat
  BY CountsSummable DEF Size

-----------------------------------------------------------------------------
(* Quantiles *)

\* At most as much as there is lies at or below a point; all of it at the top.
LEMMA UpToTop == \A sample : UpTo(sample, MaxValue) = Size(sample)
<1>1. {v \in Values : v <= MaxValue} = Values
  BY DriftAssumption DEF Values
<1> QED
  BY <1>1 DEF UpTo, Size

\* Every index of the sorted sample has a value.
LEMMA NthIsValue ==
  ASSUME NEW sample \in Sample, NEW i \in Int, i < Size(sample)
  PROVE  Nth(sample, i) \in Values
<1> DEFINE Above == {v \in Values : UpTo(sample, v) > i}
<1>1. MaxValue \in Above
  BY ValuesFinite, UpToTop, SizeNat
<1>2. Above \in SUBSET Int /\ IsFiniteSet(Above)
  <2>1. Above \subseteq Values
    OBVIOUS
  <2> HIDE DEF Above
  <2>2. Above \subseteq Int
    BY <2>1, ValuesFinite
  <2>3. IsFiniteSet(Above)
    BY <2>1, ValuesFinite, FS_Subset
  <2> QED
    BY <2>2, <2>3
<1>3. Min(Above) \in Above
  <2> HIDE DEF Above
  <2> QED
    BY <1>1, <1>2, Extremes
<1> QED
  BY <1>3 DEF Nth

\* A quotient of a product bounded by a multiple of the divisor.
LEMMA QuotientAtMost ==
  ASSUME NEW n \in Nat, NEW b \in Nat \ {0}, NEW k \in 0 .. b
  PROVE  (n * k) \div b \in 0 .. n
<1>1. n * k \in Nat /\ n * k <= n * b
  OBVIOUS
<1>2. PICK p \in Nat : p = n * k
  BY <1>1
<1>3. PICK q \in Int, r \in 0 .. b - 1 : p = b * q + r /\ q = p \div b
  OBVIOUS
<1>4. q >= 0
  <2>1. q < 0 => b * q <= b * (-1)
    OBVIOUS
  <2> QED
    BY <1>3, <2>1
<1>5. q <= n
  <2>1. q >= n + 1 => b * q >= b * (n + 1)
    OBVIOUS
  <2>2. b * (n + 1) = n * b + b
    OBVIOUS
  <2> QED
    BY <1>1, <1>2, <1>3, <2>1, <2>2
<1> QED
  BY <1>2, <1>3, <1>4, <1>5

\* A quantile lies between two values, in the unit of the edges.
LEMMA QuantileIsInt ==
  ASSUME NEW sample \in Sample, Size(sample) > 0, NEW k \in 0 .. Bins
  PROVE  Quantile(sample, k) \in Int
<1>1. PICK n \in Nat : Size(sample) = n + 1
  <2>1. Size(sample) \in Nat
    BY SizeNat
  <2>2. Size(sample) - 1 \in Nat /\ Size(sample) = (Size(sample) - 1) + 1
    BY <2>1
  <2> QED
    BY <2>2
<1>2. Size(sample) - 1 = n
  BY <1>1
<1>3. (n * k) \div Bins \in 0 .. n
  BY DriftAssumption, QuotientAtMost
<1>4. PICK p \in Int, r \in Int : p = (n * k) \div Bins /\ r = (n * k) % Bins
  BY DriftAssumption, <1>3
<1>5. Min({p + 1, n}) \in {p + 1, n} /\ Min({p + 1, n}) <= n
  BY <1>4 DEF Min
<1>6. PICK q \in Int : q = Min({p + 1, n}) /\ q < Size(sample)
  BY <1>1, <1>4, <1>5
<1>7. Nth(sample, p) \in Int /\ Nth(sample, q) \in Int
  <2>1. p < Size(sample)
    BY <1>1, <1>3, <1>4
  <2>2. Nth(sample, p) \in Values
    BY <2>1, NthIsValue
  <2>3. Nth(sample, q) \in Values
    BY <1>6, NthIsValue
  <2> QED
    BY <2>2, <2>3, ValuesFinite
<1>8. Quantile(sample, k) = Bins * Nth(sample, p) + r * (Nth(sample, q) - Nth(sample, p))
  BY <1>2, <1>4, <1>6 DEF Quantile
<1>9. PICK x \in Int, z \in Int : x = Nth(sample, p) /\ z = Nth(sample, q)
  BY <1>7
<1>10. Bins * x + r * (z - x) \in Int
  BY DriftAssumption
<1> QED
  BY <1>8, <1>9, <1>10

\* There are finitely many edges, and they reach beyond every value.
LEMMA EdgesOpen ==
  ASSUME NEW sample \in Sample, Size(sample) > 0
  PROVE  /\ BinEdges(sample) \in SUBSET Int /\ IsFiniteSet(BinEdges(sample))
         /\ NegInf \in BinEdges(sample) /\ PosInf \in BinEdges(sample)
<1> DEFINE quantiles == {Quantile(sample, k) : k \in 0 .. Bins}
           edges == IF Cardinality(quantiles) < 2
                      THEN {Min(quantiles) - Bins \div 2, Min(quantiles) + Bins \div 2 + 1}
                      ELSE quantiles
<1>1. IsFiniteSet(0 .. Bins) /\ 0 \in 0 .. Bins
  <2>1. 0 \in Int /\ Bins \in Int
    BY DriftAssumption
  <2> QED
    BY <2>1, DriftAssumption, FS_Interval
<1>2. IsFiniteSet(quantiles)
  <2>1. PICK f : f = [k \in 0 .. Bins |-> Quantile(sample, k)]
    OBVIOUS
  <2>2. quantiles = {f[k] : k \in 0 .. Bins}
    BY <2>1
  <2> HIDE DEF quantiles
  <2> QED
    BY <1>1, <2>2, FiniteRange
<1>3. quantiles \in SUBSET Int
  BY QuantileIsInt
<1>4. quantiles # {}
  BY <1>1
<1>5. edges \in SUBSET Int /\ IsFiniteSet(edges)
  <2> HIDE DEF quantiles
  <2>1. Min(quantiles) \in Int
    BY <1>2, <1>3, <1>4, Extremes
  <2>2. Bins \div 2 \in Int
    BY DriftAssumption
  <2>3. Min(quantiles) - Bins \div 2 \in Int /\ Min(quantiles) + Bins \div 2 + 1 \in Int
    BY <2>1, <2>2
  <2>4. IsFiniteSet({Min(quantiles) - Bins \div 2, Min(quantiles) + Bins \div 2 + 1})
    BY PairFinite
  <2> QED
    BY <1>2, <1>3, <2>3, <2>4
<1>6. BinEdges(sample) = (edges \ {Min(edges), Max(edges)}) \cup {NegInf, PosInf}
  BY DEF BinEdges
<1> HIDE DEF edges
<1>7. IsFiniteSet(edges \ {Min(edges), Max(edges)}) /\ IsFiniteSet({NegInf, PosInf})
  <2>1. edges \ {Min(edges), Max(edges)} \subseteq edges
    OBVIOUS
  <2> QED
    BY <1>5, <2>1, FS_Subset, PairFinite
<1>8. IsFiniteSet(BinEdges(sample))
  BY <1>6, <1>7, FS_Union
<1>9. NegInf \in Int /\ PosInf \in Int
  BY DriftAssumption DEF NegInf, PosInf
<1> QED
  BY <1>5, <1>6, <1>8, <1>9

-----------------------------------------------------------------------------
(* Histograms *)

\* Edges that a histogram may be taken over: some reach beyond every value.
OpenEdges(E) ==
  /\ E \in SUBSET Int /\ IsFiniteSet(E)
  /\ NegInf \in E /\ PosInf \in E

\* In units of 1 / Bins, a value lies strictly between the infinities.
LEMMA ValuesBetween ==
  \A v \in Values : Bins * v \in Int /\ NegInf <= Bins * v /\ Bins * v < PosInf
<1> SUFFICES ASSUME NEW v \in Values
             PROVE  Bins * v \in Int /\ NegInf <= Bins * v /\ Bins * v < PosInf
  OBVIOUS
<1>1. v \in Nat /\ v <= MaxValue /\ MaxValue \in Nat /\ Bins \in Nat /\ Bins >= 1
  BY DriftAssumption DEF Values
<1>2. Bins * v <= Bins * MaxValue /\ Bins * v >= 0
  BY <1>1
<1>3. Bins * (MaxValue + 1) = Bins * MaxValue + Bins /\ Bins * MaxValue \in Nat
  BY <1>1
<1> QED
  BY <1>1, <1>2, <1>3 DEF NegInf, PosInf

\* Every edge but the last has a next one.
LEMMA NextEdge ==
  ASSUME NEW E, OpenEdges(E), NEW low \in E \ {Max(E)},
         NEW high, high = Min({e \in E : e > low})
  PROVE  high \in E /\ high > low /\ \A e \in E : e > low => high <= e
<1> DEFINE Later == {e \in E : e > low}
<1>1. E \in SUBSET Int /\ IsFiniteSet(E) /\ E # {}
  BY DEF OpenEdges
<1>2. Max(E) \in E /\ \A e \in E : e <= Max(E)
  BY <1>1, Extremes
<1>3. Max(E) \in Later
  <2>1. PICK m \in Int : m = Max(E)
    BY <1>1, <1>2
  <2>2. low \in Int /\ low <= m /\ low # m
    BY <1>1, <1>2, <2>1
  <2>3. m > low
    BY <2>2
  <2> QED
    BY <1>2, <2>1, <2>3
<1>4. Later \subseteq E
  OBVIOUS
<1>5. Min(Later) \in Later /\ \A e \in Later : Min(Later) <= e
  <2> HIDE DEF Later
  <2>1. Later \in SUBSET Int /\ IsFiniteSet(Later)
    BY <1>1, <1>4, FS_Subset
  <2> QED
    BY <1>3, <2>1, Extremes
<1> QED
  BY <1>5

\* No value is counted in two bins.
LEMMA BinsDisjoint ==
  ASSUME NEW E, OpenEdges(E), NEW low \in E \ {Max(E)}, NEW other \in E \ {Max(E)}, low < other,
         NEW v \in Bin(E, low), v \in Bin(E, other)
  PROVE  FALSE
<1>1. E \in SUBSET Int /\ IsFiniteSet(E) /\ E # {}
  BY DEF OpenEdges
<1>2. Max(E) \in E /\ \A e \in E : e <= Max(E)
  BY <1>1, Extremes
<1>3. PICK high : high = Min({e \in E : e > low})
  OBVIOUS
<1>4. high \in Int /\ high <= other
  BY <1>1, <1>3, NextEdge, ZenonT(60)
<1>5. Bins * v < high \/ (high = Max(E) /\ Bins * v = high)
  BY <1>3 DEF Bin
<1>6. v \in Values /\ other <= Bins * v
  BY DEF Bin
<1>7. Bins * v \in Int
  BY <1>6, ValuesBetween
<1>8. other \in Int /\ other # Max(E) /\ other <= Max(E) /\ Max(E) \in Int
  BY <1>1, <1>2
<1> QED
  BY <1>4, <1>5, <1>6, <1>7, <1>8

\* Every value is counted in one.
LEMMA BinsCover ==
  ASSUME NEW E, OpenEdges(E), NEW v \in Values
  PROVE  \E low \in E \ {Max(E)} : v \in Bin(E, low)
<1>1. E \in SUBSET Int /\ IsFiniteSet(E) /\ NegInf \in E /\ PosInf \in E
  BY DEF OpenEdges
<1>2. Max(E) \in E /\ \A e \in E : e <= Max(E)
  BY <1>1, Extremes
<1>3. PICK y \in Int : y = Bins * v /\ NegInf <= y /\ y < PosInf
  BY ValuesBetween
<1>4. y < Max(E)
  <2>1. PICK m \in Int : m = Max(E)
    BY <1>1, <1>2
  <2>2. PICK p \in Int : p = PosInf
    BY <1>1
  <2>3. p <= m /\ y < p
    BY <1>1, <1>2, <1>3, <2>1, <2>2
  <2>4. y < m
    BY <2>3
  <2> QED
    BY <2>1, <2>4
<1> DEFINE Below == {e \in E : e <= y}
<1>5. NegInf \in Below
  BY <1>1, <1>3
<1>6. Max(Below) \in Below /\ \A e \in Below : e <= Max(Below)
  <2>1. Below \subseteq E
    OBVIOUS
  <2> HIDE DEF Below
  <2>2. Below \in SUBSET Int /\ IsFiniteSet(Below)
    BY <1>1, <2>1, FS_Subset
  <2> QED
    BY <1>5, <2>2, Extremes
<1>7. PICK low \in E : low <= y /\ \A e \in E : e <= y => e <= low
  BY <1>6
<1>8. low \in E \ {Max(E)}
  BY <1>1, <1>4, <1>7
<1>9. PICK high : high = Min({e \in E : e > low})
  OBVIOUS
<1>10. high \in E /\ high > low
  BY <1>8, <1>9, NextEdge
<1>11. y < high
  <2>1. high \in Int /\ low \in Int
    BY <1>1, <1>10
  <2>2. ~(high <= y)
    BY <1>7, <1>10, <2>1
  <2> QED
    BY <2>1, <2>2
<1> QED
  BY <1>3, <1>7, <1>8, <1>9, <1>11 DEF Bin

\* A histogram over open edges counts every observation exactly once.
LEMMA HistogramComplete ==
  ASSUME NEW sample \in Sample, NEW E, OpenEdges(E)
  PROVE  LET counts == Histogram(sample, E) IN CountOf(counts, DOMAIN counts) = Size(sample)
<1>1. PICK K : K = E \ {Max(E)}
  OBVIOUS
<1>2. PICK counts : counts = Histogram(sample, E)
  OBVIOUS
<1>3. PICK key : key = [v \in Values |-> CHOOSE low \in K : v \in Bin(E, low)]
  OBVIOUS
<1>4. \A v \in Values : key[v] \in K /\ v \in Bin(E, key[v])
  BY <1>1, <1>3, BinsCover
<1>5. ASSUME NEW low \in K
      PROVE  {v \in Values : key[v] = low} = Bin(E, low)
  <2>1. ASSUME NEW v \in Bin(E, low)
        PROVE  v \in Values /\ key[v] = low
    <3>1. v \in Values
      BY DEF Bin
    <3>2. key[v] \in E \ {Max(E)} /\ low \in E \ {Max(E)} /\ v \in Bin(E, key[v])
      BY <1>1, <1>4, <3>1
    <3>3. ~(key[v] < low) /\ ~(low < key[v])
      BY <2>1, <3>2, BinsDisjoint
    <3>4. key[v] \in Int /\ low \in Int
      BY <3>2 DEF OpenEdges
    <3> QED
      BY <3>1, <3>3, <3>4
  <2> QED
    BY <1>4, <2>1
<1>6. DOMAIN counts = K /\ \A low \in K : counts[low] = SumOver(sample, Bin(E, low))
  BY <1>1, <1>2, CountIsSum DEF Histogram
<1>7. SumsOfParts(counts, K, key, sample, Values)
  BY <1>4, <1>5, <1>6 DEF SumsOfParts
<1>8. IsFiniteSet(K)
  BY <1>1, FS_RemoveElement DEF OpenEdges
<1>9. Summable(sample, Values)
  BY CountsSummable
<1>10. SumOver(counts, K) = SumOver(sample, Values)
  BY <1>7, <1>8, <1>9, SumPartition
<1> QED
  BY <1>2, <1>6, <1>10, CountIsSum DEF Size

\* For every bound on the values, every number of bins and every two samples:
\* no observation falls outside the bins, and none is counted twice.
THEOREM HistogramsLoseNothing == DriftSpec => []EveryValueCounted
<1>1. DriftInit => SamplesInv
  BY SamplesInit
<1>2. SamplesInv => EveryValueCounted
  <2> SUFFICES ASSUME SamplesInv, Size(baseline_array) > 0,
                      NEW sample \in {baseline_array, current_array}
               PROVE  LET counts == Histogram(sample, BinEdges(baseline_array))
                      IN  CountOf(counts, DOMAIN counts) = Size(sample)
    BY DEF EveryValueCounted
  <2>1. baseline_array \in Sample /\ sample \in Sample
    BY DEF SamplesInv
  <2>2. OpenEdges(BinEdges(baseline_array))
    BY <2>1, EdgesOpen DEF OpenEdges
  <2> QED
    BY <2>1, <2>2, HistogramComplete
<1> QED
  BY <1>1, <1>2, SamplesStep, PTL DEF DriftSpec

-----------------------------------------------------------------------------
(* Samples of the same distribution *)

\* In samples of the same distribution, any set of values has the same share.
LEMMA SharesEqual ==
  ASSUME NEW b \in Sample, NEW c \in Sample, SameDistribution(b, c), NEW T \in SUBSET Values
  PROVE  CountOf(b, T) * Size(c) = CountOf(c, T) * Size(b)
<1>1. PICK m \in Nat, n \in Nat : m = Size(b) /\ n = Size(c)
  BY SizeNat
<1>2. \A v \in T : b[v] \in Nat /\ c[v] \in Nat /\ b[v] * n = c[v] * m
  BY <1>1 DEF Sample, SameDistribution
<1>3. PICK u : u = [v \in T |-> b[v] * n]
  OBVIOUS
<1>4. Summable(b, T) /\ Summable(c, T)
  BY CountsSummable
<1>5. SumOver(u, T) = n * SumOver(b, T)
  <2>1. \A v \in T : u[v] = n * b[v]
    BY <1>2, <1>3
  <2> QED
    BY <1>4, <2>1, SumScale
<1>6. SumOver(u, T) = m * SumOver(c, T)
  <2>1. \A v \in T : u[v] = m * c[v]
    BY <1>2, <1>3
  <2> QED
    BY <1>4, <2>1, SumScale
<1>7. PICK p \in Int, q \in Int : p = SumOver(b, T) /\ q = SumOver(c, T)
  BY <1>4, SumOverInt
<1>8. p * n = q * m
  BY <1>5, <1>6, <1>7
<1> QED
  BY <1>1, <1>7, <1>8, CountIsSum

\* For every bound on the values and every number of bins: the PSI between two
\* samples of the same distribution is zero, whatever edges the quantiles gave.
THEOREM SameNeverDrifts == DriftSpec => []SameDistributionStable
<1>1. DriftInit => SamplesInv
  BY SamplesInit
<1>2. SamplesInv => SameDistributionStable
  <2> SUFFICES ASSUME SamplesInv, SameDistribution(baseline_array, current_array)
               PROVE  PsiIsZero(baseline_array, current_array)
    BY DEF SameDistributionStable
  <2>1. baseline_array \in Sample /\ current_array \in Sample
    BY DEF SamplesInv
  <2>2. PICK edges : edges = BinEdges(baseline_array)
    OBVIOUS
  <2>3. PICK e, a : e = Histogram(baseline_array, edges) /\ a = Histogram(current_array, edges)
    OBVIOUS
  <2>4. ASSUME NEW low \in DOMAIN e
        PROVE  a[low] * Size(baseline_array) = e[low] * Size(current_array)
    <3>1. /\ e[low] = CountOf(baseline_array, Bin(edges, low))
          /\ a[low] = CountOf(current_array, Bin(edges, low))
      BY <2>3 DEF Histogram
    <3>2. Bin(edges, low) \in SUBSET Values
      BY DEF Bin
    <3> QED
      BY <2>1, <3>1, <3>2, SharesEqual
  <2> QED
    BY <2>2, <2>3, <2>4 DEF PsiIsZero
<1> QED
  BY <1>1, <1>2, SamplesStep, PTL DEF DriftSpec

-----------------------------------------------------------------------------
(* Distribution functions *)

\* The observations up to a point.
LEMMA UpToNat ==
  ASSUME NEW sample \in Sample, NEW x
  PROVE  UpTo(sample, x) \in Nat
<1>1. {v \in Values : v <= x} \in SUBSET Values
  OBVIOUS
<1> QED
  BY <1>1, CountsSummable DEF UpTo

\* A gap is a natural number, and zero if and only if the shares are equal.
LEMMA GapIsAbs ==
  ASSUME NEW b \in Sample, NEW c \in Sample, NEW x
  PROVE  /\ Gap(b, c, x) \in Nat
         /\ Gap(b, c, x) = 0 <=> UpTo(b, x) * Size(c) = UpTo(c, x) * Size(b)
<1>1. PICK p \in Int : p = UpTo(b, x) * Size(c)
  BY UpToNat, SizeNat
<1>2. PICK q \in Int : q = UpTo(c, x) * Size(b)
  BY UpToNat, SizeNat
<1>3. Gap(b, c, x) = IF p - q < 0 THEN -(p - q) ELSE p - q
  BY <1>1, <1>2 DEF Gap, Abs
<1> QED
  BY <1>1, <1>2, <1>3

\* Between two points at which nothing occurs the distribution functions are
\* constant.
LEMMA UpToConstant ==
  ASSUME NEW sample \in Sample, NEW x \in Int, NEW y \in Int, y <= x,
         \A v \in Values : y < v /\ v <= x => sample[v] = 0
  PROVE  UpTo(sample, x) = UpTo(sample, y)
<1>1. PICK S, T : S = {v \in Values : v <= x} /\ T = {v \in Values : v <= y}
  OBVIOUS
<1>2. \A v \in Values : v \in Int
  BY ValuesFinite
<1>3. T \in SUBSET S
  BY <1>1, <1>2
<1>4. \A v \in S \ T : sample[v] = 0
  BY <1>1, <1>2
<1>5. S \in SUBSET Values
  BY <1>1
<1>6. Summable(sample, S)
  BY <1>5, CountsSummable
<1>7. SumOver(sample, S) = SumOver(sample, T)
  BY <1>3, <1>4, <1>6, SumRestrict
<1> QED
  BY <1>1, <1>7, CountIsSum DEF UpTo

\* One step of a distribution function.
LEMMA UpToNext ==
  ASSUME NEW sample \in Sample, NEW v \in Values
  PROVE  UpTo(sample, v) = sample[v] + UpTo(sample, v - 1) /\ sample[v] \in Nat
<1>1. PICK S : S = {u \in Values : u <= v}
  OBVIOUS
<1>2. {u \in Values : u <= v - 1} = S \ {v}
  <2>1. \A u \in Int : u <= v - 1 <=> u <= v /\ u # v
    BY ValuesFinite
  <2>2. \A u \in Values : u \in Int
    BY ValuesFinite
  <2> QED
    BY <1>1, <2>1, <2>2
<1>3. v \in S /\ S \in SUBSET Values
  BY <1>1, ValuesFinite
<1>4. SumOver(sample, S) = sample[v] + SumOver(sample, S \ {v})
  BY <1>3, CountsSummable, SumRemove
<1> QED
  BY <1>1, <1>2, <1>4, CountIsSum DEF UpTo, Sample

\* Something occurs in a sample that is not empty.
LEMMA ObservedSome ==
  ASSUME NEW sample \in Sample, Size(sample) > 0
  PROVE  Observed(sample) # {}
<1>1. ASSUME Observed(sample) = {} PROVE FALSE
  <2>1. \A v \in Values : sample[v] = 0
    BY <1>1 DEF Observed, Sample
  <2>2. SumOver(sample, Values) = 0
    BY <2>1, ValuesFinite, SumZero
  <2> QED
    BY <2>2, CountIsSum DEF Size
<1> QED
  BY <1>1

\* The gaps at the observed points, of which ks_statistic takes the largest.
LEMMA LargestObserved ==
  ASSUME NEW b \in Sample, NEW c \in Sample, Size(b) > 0, Size(c) > 0,
         NEW d, d = KsStatistic(b, c)
  PROVE  /\ d \in Nat
         /\ \E x \in AllPoints(b, c) : Gap(b, c, x) = d
         /\ \A x \in AllPoints(b, c) : Gap(b, c, x) <= d
<1> DEFINE Gaps == {Gap(b, c, x) : x \in AllPoints(b, c)}
<1>1. AllPoints(b, c) # {} /\ AllPoints(b, c) \subseteq Values
  BY ObservedSome DEF AllPoints, Observed
<1>2. IsFiniteSet(AllPoints(b, c))
  BY <1>1, ValuesFinite, FS_Subset
<1>3. IsFiniteSet(Gaps)
  <2>1. PICK f : f = [x \in AllPoints(b, c) |-> Gap(b, c, x)]
    OBVIOUS
  <2>2. Gaps = {f[x] : x \in AllPoints(b, c)}
    BY <2>1
  <2> HIDE DEF Gaps
  <2> QED
    BY <1>2, <2>2, FiniteRange
<1>4. Gaps \in SUBSET Nat /\ Gaps # {}
  BY <1>1, GapIsAbs
<1>5. d = Max(Gaps)
  <2>1. Size(b) # 0 /\ Size(c) # 0
    OBVIOUS
  <2> QED
    BY <2>1 DEF KsStatistic
<1>6. d \in Gaps /\ \A g \in Gaps : g <= d
  <2> HIDE DEF Gaps
  <2>1. Gaps \in SUBSET Int
    BY <1>4
  <2> QED
    BY <1>3, <1>4, <1>5, <2>1, Extremes
<1> QED
  BY <1>4, <1>6

\* A gap anywhere is one at an observed point, or there is none.
LEMMA GapAtObserved ==
  ASSUME NEW b \in Sample, NEW c \in Sample, NEW x \in Int
  PROVE  Gap(b, c, x) = 0 \/ \E p \in AllPoints(b, c) : Gap(b, c, x) = Gap(b, c, p)
<1>1. PICK P : P = {p \in AllPoints(b, c) : p <= x}
  OBVIOUS
<1>2. P \in SUBSET Int /\ P \subseteq Values /\ IsFiniteSet(P)
  <2>1. P \subseteq Values
    BY <1>1 DEF AllPoints, Observed
  <2> QED
    BY <2>1, ValuesFinite, FS_Subset
<1>3. \A v \in Values : v <= x /\ v \notin P => b[v] = 0 /\ c[v] = 0
  <2>1. ASSUME NEW v \in Values, v <= x, v \notin P
        PROVE  b[v] = 0 /\ c[v] = 0
    <3>1. ~(b[v] > 0) /\ ~(c[v] > 0)
      BY <1>1, <2>1 DEF AllPoints, Observed
    <3>2. b[v] \in Nat /\ c[v] \in Nat
      BY DEF Sample
    <3> QED
      BY <3>1, <3>2
  <2> QED
    BY <2>1
<1>4. CASE P = {}
  <2>1. PICK y \in Int : y = IF x < 0 THEN x ELSE -1
    OBVIOUS
  <2>2. y <= x /\ \A v \in Values : ~(v <= y)
    BY <2>1 DEF Values
  <2>3. UpTo(b, x) = UpTo(b, y) /\ UpTo(c, x) = UpTo(c, y)
    <3>1. \A v \in Values : y < v /\ v <= x => b[v] = 0 /\ c[v] = 0
      BY <1>3, <1>4
    <3> QED
      BY <2>2, <3>1, UpToConstant
  <2>4. UpTo(b, y) = 0 /\ UpTo(c, y) = 0
    <3>1. {v \in Values : v <= y} = {}
      BY <2>2
    <3> QED
      BY <3>1, CountIsSum, SumEmpty DEF UpTo
  <2>5. 0 * Size(c) = 0 * Size(b)
    BY SizeNat
  <2> QED
    BY <2>3, <2>4, <2>5, GapIsAbs
<1>5. CASE P # {}
  <2>1. PICK p \in P : \A q \in P : q <= p
    BY <1>2, <1>5, Extremes
  <2>2. p \in Int /\ p <= x /\ p \in AllPoints(b, c)
    BY <1>1, <1>2
  <2>3. \A v \in Values : p < v /\ v <= x => b[v] = 0 /\ c[v] = 0
    <3>1. \A v \in Values : p < v => v \notin P
      BY <1>2, <2>1, <2>2, ValuesFinite
    <3> QED
      BY <1>3, <3>1
  <2>4. UpTo(b, x) = UpTo(b, p) /\ UpTo(c, x) = UpTo(c, p)
    BY <2>2, <2>3, UpToConstant
  <2> QED
    BY <2>2, <2>4 DEF Gap
<1> QED
  BY <1>4, <1>5

\* Without a gap anywhere the distributions are the same.
LEMMA NoGapSame ==
  ASSUME NEW b \in Sample, NEW c \in Sample, \A x \in -1 .. MaxValue + 1 : Gap(b, c, x) = 0
  PROVE  SameDistribution(b, c)
<1>1. SUFFICES ASSUME NEW v \in Values PROVE b[v] * Size(c) = c[v] * Size(b)
  BY DEF SameDistribution
<1>2. v \in -1 .. MaxValue + 1 /\ v - 1 \in -1 .. MaxValue + 1
  BY DriftAssumption DEF Values
<1>3. /\ UpTo(b, v) * Size(c) = UpTo(c, v) * Size(b)
      /\ UpTo(b, v - 1) * Size(c) = UpTo(c, v - 1) * Size(b)
  BY <1>2, GapIsAbs
<1>4. PICK m \in Nat, n \in Nat : m = Size(b) /\ n = Size(c)
  BY SizeNat
<1>5. PICK p \in Nat, q \in Nat : p = UpTo(b, v - 1) /\ q = UpTo(c, v - 1)
  BY UpToNat
<1>6. PICK i \in Nat, j \in Nat :
        i = b[v] /\ j = c[v] /\ UpTo(b, v) = i + p /\ UpTo(c, v) = j + q
  BY <1>5, UpToNext
<1>7. (i + p) * n = (j + q) * m /\ p * n = q * m
  BY <1>3, <1>4, <1>5, <1>6
<1>8. (i + p) * n = i * n + p * n /\ (j + q) * m = j * m + q * m
  OBVIOUS
<1>9. i * n \in Nat /\ j * m \in Nat /\ p * n \in Nat
  OBVIOUS
<1>10. i * n = j * m
  BY <1>7, <1>8, <1>9
<1> QED
  BY <1>4, <1>6, <1>10

\* For every bound on the values and every two samples: ks_statistic, which
\* looks at the observed points only, finds the largest gap anywhere, and zero
\* exactly for samples of the same distribution.
THEOREM KsFindsLargestGap == DriftSpec => []KsIsLargestGap
<1>1. DriftInit => SamplesInv
  BY SamplesInit
<1>2. SamplesInv => KsIsLargestGap
  <2> SUFFICES ASSUME SamplesInv, Size(baseline_array) > 0, Size(current_array) > 0,
                      NEW d, d = KsStatistic(baseline_array, current_array)
               PROVE  /\ \A x \in -1 .. MaxValue + 1 : Gap(baseline_array, current_array, x) <= d
                      /\ \E x \in -1 .. MaxValue + 1 : Gap(baseline_array, current_array, x) = d
                      /\ d = 0 <=> SameDistribution(baseline_array, current_array)
    BY DEF KsIsLargestGap
  <2>1. PICK b \in Sample, c \in Sample : b = baseline_array /\ c = current_array
    BY DEF SamplesInv
  <2>2. /\ d \in Nat
        /\ \E x \in AllPoints(b, c) : Gap(b, c, x) = d
        /\ \A x \in AllPoints(b, c) : Gap(b, c, x) <= d
    BY <2>1, LargestObserved
  <2>3. ASSUME NEW x \in -1 .. MaxValue + 1
        PROVE  Gap(b, c, x) <= d /\ Gap(b, c, x) \in Nat
    <3>1. Gap(b, c, x) \in Nat
      BY GapIsAbs
    <3>2. Gap(b, c, x) = 0 \/ \E p \in AllPoints(b, c) : Gap(b, c, x) = Gap(b, c, p)
      <4>1. x \in Int
        OBVIOUS
      <4> QED
        BY <4>1, GapAtObserved
    <3> QED
      BY <2>2, <3>1, <3>2
  <2>4. \E x \in -1 .. MaxValue + 1 : Gap(b, c, x) = d
    <3>1. \A x \in AllPoints(b, c) : x \in -1 .. MaxValue + 1
      BY DriftAssumption DEF AllPoints, Observed, Values
    <3> QED
      BY <2>2, <3>1
  <2>5. d = 0 => SameDistribution(b, c)
    <3>1. ASSUME d = 0, NEW x \in -1 .. MaxValue + 1
          PROVE  Gap(b, c, x) = 0
      BY <2>3, <3>1
    <3> QED
      BY <3>1, NoGapSame
  <2>6. SameDistribution(b, c) => d = 0
    <3>1. ASSUME SameDistribution(b, c), NEW x
          PROVE  Gap(b, c, x) = 0
      <4>1. {v \in Values : v <= x} \in SUBSET Values
        OBVIOUS
      <4>2. UpTo(b, x) * Size(c) = UpTo(c, x) * Size(b)
        BY <3>1, <4>1, SharesEqual DEF UpTo
      <4> QED
        BY <4>2, GapIsAbs
    <3> QED
      BY <2>2, <3>1
  <2> QED
    BY <2>1, <2>3, <2>4, <2>5, <2>6
<1> QED
  BY <1>1, <1>2, SamplesStep, PTL DEF DriftSpec

=============================================================================
