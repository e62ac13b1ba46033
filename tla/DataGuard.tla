------------------------------ MODULE DataGuard ------------------------------
(***************************************************************************)
(* DataGuard around its database.  A job is one `seed && runner' command   *)
(* (make seed, make demo) or the runner alone.  The seeder creates,        *)
(* empties and fills the demo tables, each in a transaction of its own     *)
(* (seed.py, db.py).  The runner checks table by table, each table again   *)
(* with transactions of its own: a read, a second read for the drift       *)
(* baseline, and one insertion of the results (runner.py).  Nothing keeps  *)
(* two jobs apart, and the API reads the results while they run, also in   *)
(* two transactions (db.py, api/main.py).                                  *)
(*                                                                         *)
(* pc[job] is the transaction the job is about to begin, of table          *)
(* Tables[at[job]].  A job that died keeps both, and is in dead.           *)
(***************************************************************************)
EXTENDS Checks, FiniteSets

CONSTANTS
  Jobs,           \* the jobs, named
  NoJob,          \* no run_id (None)
  ClockModes,     \* the values of DATAGUARD_USE_WALLCLOCK = 1 to try
  Elapsed         \* hours from REFERENCE_NOW to the wall clock

ASSUME JobsAssumption == IsFiniteSet(Jobs) /\ NoJob \notin Jobs
ASSUME ClockAssumption == ClockModes \subseteq BOOLEAN /\ Elapsed \in Int

VARIABLES
  wallclock,   \* the environment of every job: runs take the wall clock as now
  tables,      \* durable: how often the seed rows are in each demo table
  results,     \* durable: dq_results
  pc,
  at,
  copies,      \* memory: the table as _load_table read it
  baseline,    \* memory: the baseline table as _resolve_baseline read it
  order,       \* how many runs had begun when the job's run began
  dead,        \* the jobs that failed or were killed
  disturbed,   \* history: the jobs whose run another job may have met half seeded
  latest,      \* the API: the run_id of its first query
  answer       \* the API: the last response to /scores

jobVars == <<pc, at, copies, baseline, order>>
readerVars == <<latest, answer>>
vars == <<wallclock, tables, results, jobVars, dead, disturbed, readerVars>>

-----------------------------------------------------------------------------
(* The demo tables *)

Tables == <<"orders_clean", "orders_drifted">>
TableNames == {"orders_clean", "orders_drifted"}
BaselineTable == "orders_clean"

Absent == -1    \* the table was never created

\* What the generators put into a table, seen from REFERENCE_NOW; every
\* fraction the checks look at is the same for any number of copies.
SeedFrame(table) ==
  IF table = "orders_clean"
    THEN [rows |-> 1000, nulls |-> 0, amounts |-> 1000, quantities |-> 1000,
          age |-> 0, psi |-> 0]
    ELSE [rows |-> 1000, nulls |-> 80, amounts |-> 849, quantities |-> 1000,
          age |-> 240, psi |-> 499]

\* The frame of a table that has the seed rows n times, at the run's now.
FrameOf(table, n) ==
  LET seed == SeedFrame(table) IN
    [rows       |-> n * seed.rows,
     nulls      |-> n * seed.nulls,
     amounts    |-> n * seed.amounts,
     quantities |-> n * seed.quantities,
     age        |-> seed.age + (IF wallclock THEN Elapsed ELSE 0),
     psi        |-> seed.psi]

-----------------------------------------------------------------------------
(* Runs *)

Seeding == {"create", "delete", "insert"}
Running == {"load", "resolve", "persist"}

\* run_ts: without the wall clock every run has the seeder's REFERENCE_NOW.
RunTs(job) == IF wallclock THEN order[job] ELSE 0

Begun == {job \in Jobs : order[job] > 0}

Row(job, table, result, tableScore) ==
  [run |-> job, table |-> table, check |-> result.check, passed |-> result.passed,
   score |-> result.score, tableScore |-> tableScore]

\* _persist: the rows of one table, with the score of all of them in each.
PersistedRows(job, table) ==
  LET checked == RunChecks(FrameOf(table, copies[job]), baseline[job])
      scores  == {score_table(checked)}
  IN  {Row(job, table, result, score) : result \in checked, score \in scores}

-----------------------------------------------------------------------------
(* Queries *)

\* Mutant of LatestRunIds: ORDER BY run_ts ASC.
OldestRunIds ==
  {row.run : row \in {r \in results : \A s \in results : RunTs(r.run) <= RunTs(s.run)}}

\* ORDER BY run_ts DESC LIMIT 1: which of several is anyone's guess.
LatestRunIds ==
  LET stored == {row.run : row \in results} IN
    {run \in stored : \A other \in stored : RunTs(run) >= RunTs(other)}

\* Mutant of fetch_scores: the rows of the run's timestamp.
FetchScoresByTs(run) ==
  {<<row.table, row.tableScore>> : row \in
     {r \in results : \E s \in results : s.run = run /\ RunTs(s.run) = RunTs(r.run)}}

fetch_scores(run) ==
  {<<row.table, row.tableScore>> : row \in {r \in results : r.run = run}}

\* One row per run and table, and the chart the dashboard draws of them, whose
\* axis is the timestamp alone.
fetch_trends ==
  {[ts |-> RunTs(key[1]), table |-> key[2],
    tableScore |-> Max({row.tableScore : row \in
                          {r \in results : r.run = key[1] /\ r.table = key[2]}})] :
     key \in {<<row.run, row.table>> : row \in results}}

\* Mutant of TrendChart: the maximum over all runs.
TrendChartOverall ==
  {p \in fetch_trends : \A q \in fetch_trends : q.table = p.table => q.tableScore <= p.tableScore}

TrendChart ==
  LET trends == fetch_trends IN
    {p \in trends : \A q \in trends :
       q.ts = p.ts /\ q.table = p.table => q.tableScore <= p.tableScore}

-----------------------------------------------------------------------------
TypeOK ==
  /\ wallclock \in ClockModes
  /\ tables \in [TableNames -> Nat \cup {Absent}]
  /\ \A row \in results :
       /\ row.run \in Jobs /\ row.table \in TableNames
       /\ row.passed \in BOOLEAN
       /\ {row.score, row.tableScore} \subseteq 0 .. Full
  /\ pc \in [Jobs -> {"idle", "done"} \cup Seeding \cup Running]
  /\ at \in [Jobs -> DOMAIN Tables]
  /\ copies \in [Jobs -> Nat]
  /\ baseline \in [Jobs -> Nat]
  /\ order \in [Jobs -> 0 .. Cardinality(Jobs)]
  /\ dead \subseteq Jobs
  /\ disturbed \subseteq Jobs
  /\ latest \in Jobs \cup {NoJob}
  /\ answer.run \in Jobs \cup {NoJob}
  /\ \A score \in answer.scores : score \in TableNames \X (0 .. Full)

Init ==
  /\ wallclock \in ClockModes
  /\ tables = [t \in TableNames |-> Absent]
  /\ results = {}
  /\ pc = [job \in Jobs |-> "idle"]
  /\ at = [job \in Jobs |-> 1]
  /\ copies = [job \in Jobs |-> 0]
  /\ baseline = [job \in Jobs |-> 0]
  /\ order = [job \in Jobs |-> 0]
  /\ dead = {}
  /\ disturbed = {}
  /\ latest = NoJob
  /\ answer = [run |-> NoJob, scores |-> {}]

-----------------------------------------------------------------------------
(* Seeding *)

\* The job lives and its next transaction is the one named.
At(job, transaction) == job \notin dead /\ pc[job] = transaction

Table(job) == Tables[at[job]]

Goto(job, transaction) == pc' = [pc EXCEPT ![job] = transaction]

\* The next table, or where to go when there is none.
NextTable(job, again, after) ==
  IF at[job] < Len(Tables)
    THEN Goto(job, again) /\ at' = [at EXCEPT ![job] = @ + 1]
    ELSE Goto(job, after) /\ at' = [at EXCEPT ![job] = 1]

StartSeeder(job) ==
  /\ At(job, "idle")
  /\ Goto(job, "create")
  /\ UNCHANGED <<wallclock, tables, results, at, copies, baseline, order, dead, disturbed, readerVars>>

CreateTable(job) ==
  /\ At(job, "create")
  /\ tables' = [tables EXCEPT ![Table(job)] = IF @ = Absent THEN 0 ELSE @]
  /\ Goto(job, "delete")
  /\ UNCHANGED <<wallclock, results, at, copies, baseline, order, dead, disturbed, readerVars>>

InRun(job) == job \notin dead /\ pc[job] \in Running

\* Mutant of TruncateTable: every demo table is emptied.
TruncateTables(job) ==
  /\ At(job, "delete")
  /\ tables' = [t \in TableNames |-> 0]
  /\ Goto(job, "insert")
  /\ disturbed' = disturbed \cup {other \in Jobs : InRun(other)}
  /\ UNCHANGED <<wallclock, results, at, copies, baseline, order, dead, readerVars>>

TruncateTable(job) ==
  /\ At(job, "delete")
  /\ tables' = [tables EXCEPT ![Table(job)] = 0]
  /\ Goto(job, "insert")
  /\ disturbed' = disturbed \cup {other \in Jobs : InRun(other)}
  /\ UNCHANGED <<wallclock, results, at, copies, baseline, order, dead, readerVars>>

HalfSeeded == \E t \in TableNames : tables[t] \in {Absent, 0}

\* The runner takes its run_id and its run_ts.
BeginRun(job) ==
  /\ order' = [order EXCEPT ![job] = Cardinality(Begun) + 1]
  /\ disturbed' = IF HalfSeeded' THEN disturbed \cup {job} ELSE disturbed

\* The last insertion ends the seeder, and the runner begins.
InsertRows(job) ==
  /\ At(job, "insert")
  /\ tables' = [tables EXCEPT ![Table(job)] = @ + 1]
  /\ NextTable(job, "create", "load")
  /\ IF pc'[job] = "load" THEN BeginRun(job) ELSE UNCHANGED <<order, disturbed>>
  /\ UNCHANGED <<wallclock, results, copies, baseline, dead, readerVars>>

StartRunner(job) ==
  /\ At(job, "idle")
  /\ Goto(job, "load")
  /\ UNCHANGED <<wallclock, tables, results, at, copies, baseline, dead, readerVars>>
  /\ BeginRun(job)

-----------------------------------------------------------------------------
(* Running the checks *)

\* SELECT * of a table that is there; otherwise the runner raises and ends.
Reading(job, table, read) ==
  IF tables[table] = Absent
    THEN /\ dead' = dead \cup {job}
         /\ UNCHANGED <<pc, copies, baseline>>
    ELSE /\ read
         /\ UNCHANGED dead

LoadTable(job) ==
  /\ At(job, "load")
  /\ Reading(job, Table(job),
       /\ copies' = [copies EXCEPT ![job] = tables[Table(job)]]
       /\ Goto(job, "resolve")
       /\ UNCHANGED baseline)
  /\ UNCHANGED <<wallclock, tables, results, at, order, disturbed, readerVars>>

ResolveBaseline(job) ==
  /\ At(job, "resolve")
  /\ Reading(job, BaselineTable,
       /\ baseline' = [baseline EXCEPT ![job] = tables[BaselineTable]]
       /\ Goto(job, "persist")
       /\ UNCHANGED copies)
  /\ UNCHANGED <<wallclock, tables, results, at, order, disturbed, readerVars>>

\* Mutant of Persist: a transaction per result.
PersistOneByOne(job) ==
  /\ At(job, "persist")
  /\ \E row \in PersistedRows(job, Table(job)) : results' = results \cup {row}
  /\ IF PersistedRows(job, Table(job)) \subseteq results'
       THEN NextTable(job, "load", "done")
       ELSE UNCHANGED <<pc, at>>
  /\ UNCHANGED <<wallclock, tables, copies, baseline, order, dead, disturbed, readerVars>>

Persist(job) ==
  /\ At(job, "persist")
  /\ results' = results \cup PersistedRows(job, Table(job))
  /\ NextTable(job, "load", "done")
  /\ UNCHANGED <<wallclock, tables, copies, baseline, order, dead, disturbed, readerVars>>

\* The job is killed, or a transaction of it fails and is rolled back.
Crash(job) ==
  /\ job \notin dead
  /\ pc[job] \in Seeding \cup Running
  /\ dead' = dead \cup {job}
  /\ UNCHANGED <<wallclock, tables, results, jobVars, disturbed, readerVars>>

-----------------------------------------------------------------------------
(* GET /scores, in two queries *)

LatestRunId ==
  /\ latest = NoJob
  /\ latest' \in LatestRunIds
  /\ UNCHANGED <<wallclock, tables, results, jobVars, dead, disturbed, answer>>

\* Mutant of FetchScores: the first query is not repeated.
FetchScoresOfCachedRun ==
  /\ latest # NoJob
  /\ answer' = [run |-> latest, scores |-> fetch_scores(latest)]
  /\ UNCHANGED <<wallclock, tables, results, jobVars, dead, disturbed, latest>>

FetchScores ==
  /\ latest # NoJob
  /\ answer' = [run |-> latest, scores |-> fetch_scores(latest)]
  /\ latest' = NoJob
  /\ UNCHANGED <<wallclock, tables, results, jobVars, dead, disturbed>>

-----------------------------------------------------------------------------

Next ==
  \/ \E job \in Jobs :
       \/ StartSeeder(job) \/ CreateTable(job) \/ TruncateTable(job) \/ InsertRows(job)
       \/ StartRunner(job) \/ LoadTable(job) \/ ResolveBaseline(job) \/ Persist(job)
       \/ Crash(job)
  \/ LatestRunId
  \/ FetchScores

Spec == Init /\ [][Next]_vars

\* The API is asked again and again; no job has to go on.
FairSpec == Spec /\ WF_vars(LatestRunId \/ FetchScores)

-----------------------------------------------------------------------------
(* Safety *)

\* A demo table that exists is empty only while a job is between creating or
\* emptying it and filling it, or because a job died there: however many jobs
\* seed at once, the end of the last leaves no table empty.
EmptyOnlyMidSeed ==
  \A i \in DOMAIN Tables :
    tables[Tables[i]] = 0 =>
      \E job \in Jobs : pc[job] \in {"delete", "insert"} /\ at[job] = i

\* The scores of VERIFICATION.md:61, in ten-thousandths.
Golden == [t \in TableNames |-> IF t = "orders_clean" THEN 10000 ELSE 6404]

\* With REFERENCE_NOW, a run scores the seed data and nothing else, whatever
\* number of jobs filled the tables, unless another job emptied a table while
\* the run went on or left one empty before it began.
GoldenUnlessDisturbed ==
  ~wallclock =>
    \A row \in results : row.run \notin disturbed => row.tableScore = Golden[row.table]

\* With REFERENCE_NOW, whatever a run met half seeded shows in what it stored: a
\* table read while it was empty scores less than the seed data and fails its
\* schema check, although three checks pass an empty table, and only the drifted
\* orders may score more, by a drift check that passed because the baseline,
\* read in another transaction, was empty (runner.py:71, null_check.py:44).
DisturbanceShows ==
  ~wallclock =>
    \A row \in results :
      LET passed(check) ==
            \E r \in results : r.run = row.run /\ r.table = row.table /\ r.check = check /\ r.passed
      IN  /\ row.tableScore < Golden[row.table] <=> ~passed("schema")
          /\ row.tableScore > Golden[row.table] =>
               row.table = "orders_drifted" /\ row.run \in disturbed /\ passed("drift")

\* A run reaches its end only with one score for each table, and the six check
\* results it was computed from; a run that died has them for the first tables
\* or for none, never a part of a table's.
ResultsWhole ==
  \A job \in Jobs, i \in DOMAIN Tables :
    LET rows == {row \in results : row.run = job /\ row.table = Tables[i]} IN
      /\ rows # {} =>
           /\ Cardinality({row.check : row \in rows}) = 6
           /\ {row.tableScore : row \in rows} =
                {score_table({CheckResult(r.check, r.passed, r.score) : r \in rows})}
      /\ rows = {} <=> (pc[job] # "done" /\ ~(pc[job] \in Running /\ i < at[job]))

\* What the API answers is of one run: no table has two scores in a response,
\* and what it said of a run remains what the run stored.
AnswerOfOneRun ==
  /\ \A s, t \in answer.scores : s[1] = t[1] => s = t
  /\ answer.scores \subseteq fetch_scores(answer.run)

\* What latest_run_id promises of a step (db.py:197, "the most recent").
GoesToMostRecent ==
  /\ latest' \in Jobs \ {latest} => \A row \in results : order[row.run] <= order[latest']
  /\ answer.run # NoJob => order[answer'.run] >= order[answer.run]

\* The latest run is the one that began last of those that stored anything, and
\* the API never goes back to an earlier one.
LatestIsMostRecent == [][GoesToMostRecent]_vars

\* So it is when runs take their timestamp from the wall clock.
WallclockLatestIsMostRecent == [][wallclock => GoesToMostRecent]_vars

\* With the wall clock, every run that stored a score of a table has a point of
\* its own in the trend chart, with that score (dashboard/app.py:96, runs "build
\* history").
TrendShowsEveryRun ==
  wallclock =>
    LET chart  == TrendChart
        stored == {<<row.run, row.table, row.tableScore>> : row \in results}
    IN  /\ Cardinality(chart) = Cardinality(stored)
        /\ \A r \in stored : [ts |-> RunTs(r[1]), table |-> r[2], tableScore |-> r[3]] \in chart

-----------------------------------------------------------------------------
(* Liveness *)

\* With the wall clock, a finished run, or one that began later, is what the API
\* answers in the end.
FinishedRunsAnswered ==
  \A job \in Jobs :
    wallclock /\ pc[job] = "done" ~>
      /\ answer.run # NoJob
      /\ order[answer.run] >= order[job]

=============================================================================
