------------------------------- MODULE Alerter -------------------------------
(***************************************************************************)
(* The alerter of StreamPulse (alerter/main.py, alerting.py) next to the   *)
(* metrics table it polls.  The table's other side is MetricsStore, the    *)
(* promise the processor is shown to keep.  A pass of the alerter is two   *)
(* steps: the rows are read and evaluated, and the alerts are inserted     *)
(* later, when the rows may have changed.                                  *)
(***************************************************************************)
EXTENDS MetricsStore

CONSTANTS
  EpmMax,           \* EPM_MAX, events per minute
  ConvMinPercent,   \* CONV_MIN, in whole percents
  LookbackWindows,  \* LOOKBACK_WINDOWS
  MaxNow,           \* bound on the clock, in seconds
  MaxFailures       \* bound on failed passes

ASSUME ThresholdAssumption == EpmMax \in Nat /\ ConvMinPercent \in Nat
ASSUME AlerterAssumption ==
  LookbackWindows \in Nat /\ MaxNow \in Nat /\ MaxFailures \in Nat

VARIABLES
  alerts,    \* durable: the alerts table, (ts, metric) -> value
  pending,   \* the alerts of this pass that are still to be inserted
  now,       \* time.time(), in seconds
  failures   \* how many of MaxFailures have happened

alerterVars == <<alerts, pending, now, failures>>
allVars == <<storeVars, alerterVars>>

\* The rules of build_thresholds, "gt" and "lt": neither limit itself breaches.
Breaches(metric, value) ==
  IF metric = EVENTS_PER_MINUTE
    THEN Less(<<EpmMax, 1>>, value)
    ELSE Less(value, <<ConvMinPercent, 100>>)

NoAlerts == [key \in {} |-> <<0, 1>>]

\* An alert carries the end of its window, a row carries the start.
AlertKey(rowKey) == <<WindowEnd(rowKey[1]), rowKey[2]>>
RowKey(alertKey) == <<alertKey[1] - WindowSeconds, alertKey[2]>>

\* Mutant of EvaluateThresholds: a rule is applied to every metric of its window.
EvaluateAnyMetric(rows) ==
  [key \in {AlertKey(k) : k \in {k \in DOMAIN rows :
             \E m \in MetricNames : <<k[1], m>> \in DOMAIN rows /\ Breaches(m, rows[<<k[1], m>>])}} |->
     rows[RowKey(key)]]

EvaluateThresholds(rows) ==
  [key \in {AlertKey(k) : k \in {k \in DOMAIN rows : Breaches(k[2], rows[k])}} |->
     rows[RowKey(key)]]

Recent(minWindowStart) == {key \in DOMAIN metrics : key[1] >= minWindowStart}

\* Mutant of FetchRecentMetrics: the oldest window of the lookback is left out.
FetchMetricsAfter(minWindowStart) ==
  [key \in {k \in Recent(minWindowStart) : k[1] # minWindowStart} |-> metrics[key]]

\* Mutant of FetchRecentMetrics: only the newest window is fetched.
FetchNewestMetrics(minWindowStart) ==
  [key \in {k \in Recent(minWindowStart) : \A l \in Recent(minWindowStart) : l[1] <= k[1]} |->
     metrics[key]]

FetchRecentMetrics(minWindowStart) == [key \in Recent(minWindowStart) |-> metrics[key]]

\* INSERT ... ON CONFLICT DO NOTHING: a row that is there already wins.
InsertAlerts(table, new) == Upsert(new, table)

AlerterTypeOK ==
  /\ StoreTypeOK
  /\ \A table \in {alerts, pending} :
       /\ \A key \in DOMAIN table : RowKey(key) \in WindowStarts \X MetricNames
       /\ table \in [DOMAIN table -> Nat \X Nat]
  /\ now \in Nat
  /\ failures \in Nat

AlerterInit ==
  /\ alerts = NoAlerts
  /\ pending = NoAlerts
  /\ now = 0
  /\ failures = 0

-----------------------------------------------------------------------------

MinWindowStart == now - LookbackWindows * WindowSeconds

\* The first half of a pass: one query, evaluated at once.  A pass without a
\* breach, and one whose query fails, ends here and leaves nothing behind.
Evaluate ==
  /\ pending = NoAlerts
  /\ pending' = EvaluateThresholds(FetchRecentMetrics(MinWindowStart))
  /\ UNCHANGED <<storeVars, alerts, now, failures>>

Insert ==
  /\ pending # NoAlerts
  /\ alerts' = InsertAlerts(alerts, pending)
  /\ pending' = NoAlerts
  /\ UNCHANGED <<storeVars, now, failures>>

\* The insertion raises, or the process ends, before or after the commit took
\* effect; the loop rolls back or reconnects and goes on with the next pass.
InsertFails ==
  /\ failures < MaxFailures
  /\ failures' = failures + 1
  /\ pending # NoAlerts
  /\ alerts' \in {alerts, InsertAlerts(alerts, pending)}
  /\ pending' = NoAlerts
  /\ UNCHANGED <<storeVars, now>>

ClockTicks ==
  /\ now < MaxNow
  /\ now' = now + 1
  /\ UNCHANGED <<storeVars, alerts, pending, failures>>

StoreStep == StoreNext /\ UNCHANGED alerterVars

AllInit == StoreInit /\ AlerterInit

AllNext == StoreStep \/ Evaluate \/ Insert \/ InsertFails \/ ClockTicks

AllSpec == AllInit /\ [][AllNext]_allVars

\* The alerter's loop goes on; neither the processor nor the clock need move.
AllFairSpec == AllSpec /\ WF_allVars(Evaluate) /\ WF_allVars(Insert)

-----------------------------------------------------------------------------
(* Safety *)

StartOf(alertKey) == RowKey(alertKey)[1]

Justified(table) ==
  \A key \in DOMAIN table :
    /\ Breaches(key[2], table[key])
    /\ \E messages \in (SUBSET EventsOf(StartOf(key))) \ {{}} :
         table[key] = MetricValue(Aggregate(messages), key[2])

\* Every alert names the window and the metric of a row, and a value of it that
\* some of the published events of that window, none counted twice, had and that
\* breaches that metric's limit, whichever pass stored it (alerting.py:50-82).
AlertsJustified == Justified(alerts)

\* Until the processor loses something, the rate stored for a window is at
\* least the one its alert reports, although the alert is never updated.
RateAlertsBelowRows ==
  ~lossy =>
    \A key \in DOMAIN alerts :
      key[2] = EVENTS_PER_MINUTE => ~Less(metrics[RowKey(key)], alerts[key])

-----------------------------------------------------------------------------
(* Liveness *)

Unreported(rowKey) ==
  /\ rowKey \in Recent(MinWindowStart)
  /\ Breaches(rowKey[2], metrics[rowKey])
  /\ AlertKey(rowKey) \notin DOMAIN alerts

\* A row that goes on breaching within the lookback is reported in the end,
\* even when insertions fail in between.
BreachesReported ==
  \A rowKey \in WindowStarts \X MetricNames : Unreported(rowKey) ~> ~Unreported(rowKey)

=============================================================================
