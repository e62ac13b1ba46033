-------------------------------- MODULE Checks --------------------------------
(***************************************************************************)
(* The pure part of DataGuard: the battery of checks both expectation      *)
(* files configure (dataguard/checks/) and the quality score of a table    *)
(* (scoring.py).                                                           *)
(*                                                                         *)
(* A frame is what the checks can tell of a table read into memory: how    *)
(* many rows it has, how many of the amounts are NULL, how many amounts    *)
(* and quantities lie within their bounds, how old the newest timestamp is *)
(* (hours before the injected now), and the PSI of the amounts against the *)
(* seeded baseline (hundredths).  A score is a whole number of             *)
(* ten-thousandths, rounded down.                                          *)
(***************************************************************************)
EXTENDS Integers, Sequences, FiniteSets, FiniteSetsExt

Full == 10000

Ratio(part, whole) == (Full * part) \div whole

\* CheckResult.__post_init__ clamps the score.
CheckResult(check, passed, score) ==
  [check |-> check, passed |-> passed, score |-> Max({0, Min({score, Full})})]

Frame ==
  [rows : Nat, nulls : Nat, amounts : Nat, quantities : Nat, age : Int, psi : Nat]

Amounts(frame) == frame.rows - frame.nulls    \* the amounts that are not NULL

-----------------------------------------------------------------------------
(* The checks, as orders.yml and users.yml configure them *)

MaxAgeHours == 48
PsiThreshold == 20
SchemaColumns == 5

\* pandas gives a column of no values, or of NULLs only, the dtype object,
\* which only the status column is expected to have.
TypedColumns(frame) ==
  CASE frame.rows = 0                             -> 1
    [] frame.rows > 0 /\ Amounts(frame) = 0       -> SchemaColumns - 1
    [] OTHER                                      -> SchemaColumns

schema_check(frame) ==
  CheckResult("schema", TypedColumns(frame) = SchemaColumns,
              Ratio(TypedColumns(frame), SchemaColumns))

null_check(frame) ==
  IF frame.rows = 0
    THEN CheckResult("null", TRUE, Full)
    ELSE CheckResult("null", frame.nulls = 0, Full - Ratio(frame.nulls, frame.rows))

range_check(check, values, inRange) ==
  IF values = 0
    THEN CheckResult(check, TRUE, Full)
    ELSE CheckResult(check, inRange = values, Ratio(inRange, values))

\* Mutant of freshness_check: an empty table passes, as it does elsewhere.
FreshnessOfNothingPasses(frame) ==
  IF frame.rows = 0
    THEN CheckResult("freshness", TRUE, Full)
    ELSE CheckResult("freshness", frame.age <= MaxAgeHours,
                     Full - Ratio(frame.age - MaxAgeHours, MaxAgeHours))

\* Full within the limit, nothing from twice the limit on, linear between.
freshness_check(frame) ==
  IF frame.rows = 0
    THEN CheckResult("freshness", FALSE, 0)
    ELSE CheckResult("freshness", frame.age <= MaxAgeHours,
                     Full - Ratio(frame.age - MaxAgeHours, MaxAgeHours))

\* Without a baseline, or without a current value, there is nothing to compare.
drift_check(frame, baselineSize) ==
  IF baselineSize = 0 \/ Amounts(frame) = 0
    THEN CheckResult("drift", TRUE, Full)
    ELSE CheckResult("drift", frame.psi <= PsiThreshold, Full - Ratio(frame.psi, 100))

RunChecks(frame, baselineSize) ==
  { schema_check(frame),
    null_check(frame),
    range_check("amount_range", Amounts(frame), frame.amounts),
    range_check("quantity_range", frame.rows, frame.quantities),
    freshness_check(frame),
    drift_check(frame, baselineSize) }

-----------------------------------------------------------------------------
(* The score *)

\* Mutant of Weight: warnings weigh as little as infos.
WeightWarningsLess(check) == IF check = "schema" THEN 3 ELSE 1

\* Severity.WEIGHTS of the severities the expectation files give the checks:
\* critical, info, and warning for all others.
Weight(check) ==
  CASE check = "schema"         -> 3
    [] check = "quantity_range" -> 1
    [] OTHER                    -> 2

score_table(results) ==
  IF results = {}
    THEN Full
    ELSE MapThenSumSet(LAMBDA r : Weight(r.check) * r.score, results)
           \div MapThenSumSet(LAMBDA r : Weight(r.check), results)

=============================================================================
