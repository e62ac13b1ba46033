----------------------------- MODULE AlerterProofs -----------------------------
(***************************************************************************)
(* Proofs about the alerter over the abstract metrics store, for every     *)
(* threshold, lookback, set of timestamps and number of failed passes.     *)
(***************************************************************************)
EXTENDS Alerter, EventLogProofs

-----------------------------------------------------------------------------
(* The invariant *)

\* Both rows of a window are written together, each as the metric of some of
\* the messages of the window.
StoreSound ==
  \A key \in DOMAIN metrics :
    /\ HasRows(metrics, key[1])
    /\ \E messages \in (SUBSET EventsOf(key[1])) \ {{}} :
         metrics[key] = MetricValue(Aggregate(messages), key[2])

\* Every rate in the table, when it was read, stood in a row that is still
\* there and has not fallen since.
BelowRows(table) ==
  \A key \in DOMAIN table :
    key[2] = EVENTS_PER_MINUTE =>
      /\ RowKey(key) \in DOMAIN metrics
      /\ ~Less(metrics[RowKey(key)], table[key])

\* What is true of the alerts is true of those that wait to be inserted: a pass
\* may insert them much later than it read the rows.
AlerterInv ==
  /\ AlerterTypeOK
  /\ StoreSound
  /\ Justified(alerts) /\ Justified(pending)
  /\ ~lossy => BelowRows(alerts) /\ BelowRows(pending)

-----------------------------------------------------------------------------
(* The tables *)

\* Alerts are keyed by window and metric, their values are fractions.
AlertsType(table) ==
  /\ \A key \in DOMAIN table : RowKey(key) \in WindowStarts \X MetricNames
  /\ table \in [DOMAIN table -> Nat \X Nat]

\* The rows that breach become alerts with the row's value.
LEMMA EvaluateYields ==
  ASSUME IsTable(metrics), NEW min
  PROVE  LET new == EvaluateThresholds(FetchRecentMetrics(min)) IN
           /\ AlertsType(new)
           /\ \A key \in DOMAIN new :
                /\ RowKey(key) \in DOMAIN metrics /\ new[key] = metrics[RowKey(key)]
                /\ RowKey(key)[2] = key[2]
                /\ Breaches(key[2], new[key])
<1> DEFINE rows == FetchRecentMetrics(min)
           breaching == {k \in DOMAIN rows : Breaches(k[2], rows[k])}
           new == EvaluateThresholds(rows)
<1>1. /\ DOMAIN rows \subseteq DOMAIN metrics
      /\ \A k \in DOMAIN rows : rows[k] = metrics[k]
  BY DEF FetchRecentMetrics, Recent
<1>2. \A k \in DOMAIN metrics : k = <<k[1], k[2]>> /\ k[1] \in Nat
  BY WindowStartType DEF IsTable
<1>3. ASSUME NEW k \in DOMAIN metrics
      PROVE  RowKey(AlertKey(k)) = k /\ AlertKey(k)[2] = k[2]
  BY <1>2, WindowSecondsAssumption DEF RowKey, AlertKey, WindowEnd
<1>4. new = [key \in {AlertKey(k) : k \in breaching} |-> rows[RowKey(key)]]
  BY DEF EvaluateThresholds
<1>5. ASSUME NEW key \in DOMAIN new
      PROVE  /\ RowKey(key) \in DOMAIN metrics /\ new[key] = metrics[RowKey(key)]
             /\ RowKey(key)[2] = key[2]
             /\ Breaches(key[2], new[key])
  <2>1. PICK k \in breaching : key = AlertKey(k)
    BY <1>4
  <2>2. k \in DOMAIN metrics /\ k \in DOMAIN rows /\ RowKey(key) = k /\ key[2] = k[2]
    BY <1>1, <1>3, <2>1
  <2>3. new[key] = metrics[k]
    BY <1>1, <1>4, <2>2
  <2> QED
    BY <1>1, <2>1, <2>2, <2>3
<1>6. AlertsType(new)
  <2>1. \A key \in DOMAIN new : new[key] \in Nat \X Nat /\ RowKey(key) \in WindowStarts \X MetricNames
    BY <1>5 DEF IsTable
  <2>2. new = [key \in DOMAIN new |-> new[key]]
    BY <1>4
  <2> QED
    BY <2>1, <2>2 DEF AlertsType
<1> QED
  BY <1>5, <1>6

\* Inserting keeps the alerts that are there and adds the others.
LEMMA InsertYields ==
  ASSUME NEW table, AlertsType(table), NEW new, AlertsType(new)
  PROVE  /\ AlertsType(InsertAlerts(table, new))
         /\ \A key \in DOMAIN InsertAlerts(table, new) :
              \/ key \in DOMAIN table /\ InsertAlerts(table, new)[key] = table[key]
              \/ key \in DOMAIN new /\ InsertAlerts(table, new)[key] = new[key]
  BY DEF InsertAlerts, Upsert, AlertsType

\* The table of no alerts is fine.
LEMMA NoAlertsHold == AlertsType(NoAlerts) /\ Justified(NoAlerts) /\ BelowRows(NoAlerts)
  BY DEF NoAlerts, AlertsType, Justified, BelowRows

\* The type invariant, part by part.
LEMMA TypeParts ==
  AlerterTypeOK <=> /\ StoreTypeOK /\ AlertsType(alerts) /\ AlertsType(pending)
                    /\ now \in Nat /\ failures \in Nat
  BY DEF AlerterTypeOK, AlertsType

-----------------------------------------------------------------------------
(* The store *)

\* A refresh writes rows of some of the messages, both rows of each window.
LEMMA RefreshSound ==
  ASSUME StoreTypeOK, StoreSound, StoreRefresh
  PROVE  IsTable(metrics') /\ StoreSound' /\ DOMAIN metrics \subseteq DOMAIN metrics'
<1>1. PICK starts \in (SUBSET WindowStarts) \ {{}} :
        \E counted \in [starts -> (SUBSET DOMAIN log) \ {{}}] :
          /\ \A start \in starts : counted[start] \subseteq EventsOf(start)
          /\ metrics' = Upsert(metrics, RowsOf(counted))
  BY DEF StoreRefresh
<1>2. PICK counted \in [starts -> (SUBSET DOMAIN log) \ {{}}] :
        /\ \A start \in starts : counted[start] \subseteq EventsOf(start)
        /\ metrics' = Upsert(metrics, RowsOf(counted))
  BY <1>1
<1>3. log' = log /\ log \in Seq(Message) /\ IsTable(metrics)
  BY DEF StoreRefresh, StoreTypeOK
<1>4. /\ DOMAIN RowsOf(counted) = starts \X MetricNames
      /\ \A key \in starts \X MetricNames :
           RowsOf(counted)[key] = MetricValue(Aggregate(counted[key[1]]), key[2])
  BY <1>2 DEF RowsOf
<1>5. \A key \in starts \X MetricNames : RowsOf(counted)[key] \in Nat \X Nat
  <2>1. \A start \in starts : Aggregate(counted[start]) \in Window
    BY <1>2, <1>3, AggregateType
  <2> QED
    BY <1>4, <2>1, MetricValueType
<1>6. IsTable(RowsOf(counted))
  <2>1. RowsOf(counted) = [key \in starts \X MetricNames |-> RowsOf(counted)[key]]
    BY <1>2, <1>4 DEF RowsOf
  <2> QED
    BY <1>1, <1>4, <1>5, <2>1 DEF IsTable
<1>7. IsTable(metrics')
  BY <1>2, <1>3, <1>6, UpsertType
<1>8. /\ DOMAIN metrics' = DOMAIN metrics \cup (starts \X MetricNames)
      /\ \A key \in starts \X MetricNames :
           metrics'[key] = MetricValue(Aggregate(counted[key[1]]), key[2])
      /\ \A key \in DOMAIN metrics : key \notin starts \X MetricNames => metrics'[key] = metrics[key]
  BY <1>2, <1>4 DEF Upsert
<1>9. /\ \A S : Aggregate(S)' = Aggregate(S)
      /\ \A start : EventsOf(start)' = EventsOf(start)
  BY <1>3, LogStable
<1>10. ASSUME NEW key \in DOMAIN metrics'
       PROVE  /\ {key[1]} \X MetricNames \subseteq DOMAIN metrics'
              /\ \E S \in (SUBSET EventsOf(key[1])) \ {{}} :
                   metrics'[key] = MetricValue(Aggregate(S), key[2])
  <2>1. CASE key \in starts \X MetricNames
    BY <1>2, <1>8, <2>1
  <2>2. CASE key \notin starts \X MetricNames
    BY <1>8, <2>2 DEF StoreSound, HasRows
  <2> QED
    BY <2>1, <2>2
<1>11. \A S, metric : MetricValue(Aggregate(S), metric)' = MetricValue(Aggregate(S), metric)
  BY <1>9 DEF MetricValue, EventsPerMinute, ConversionRate
<1>12. StoreSound'
  BY <1>9, <1>10, <1>11 DEF StoreSound, HasRows
<1> QED
  BY <1>7, <1>8, <1>12

-----------------------------------------------------------------------------
(* One alert *)

\* The value is the metric of some messages of the window.
Counted(start, metric, value) ==
  \E messages \in (SUBSET EventsOf(start)) \ {{}} :
    value = MetricValue(Aggregate(messages), metric)

\* Messages do not change, and none is taken away.
LEMMA CountedStays ==
  ASSUME log \in Seq(Message), log' = log \/ PublishMessage
  PROVE  \A start, metric, value : Counted(start, metric, value) => Counted(start, metric, value)'
<1>1. /\ \A S \in SUBSET DOMAIN log : Aggregate(S)' = Aggregate(S)
      /\ \A start : EventsOf(start) \subseteq EventsOf(start)'
      /\ \A start : EventsOf(start) \subseteq DOMAIN log
  BY LogStable, PublishMessageStable DEF EventsOf
<1>2. ASSUME NEW start, NEW metric, NEW S \in (SUBSET EventsOf(start)) \ {{}}
      PROVE  /\ S \in (SUBSET EventsOf(start)') \ {{}}
             /\ MetricValue(Aggregate(S), metric)' = MetricValue(Aggregate(S), metric)
  <2>1. Aggregate(S)' = Aggregate(S)
    BY <1>1, <1>2
  <2> QED
    BY <1>1, <1>2, <2>1 DEF MetricValue, EventsPerMinute, ConversionRate
<1> QED
  BY <1>2 DEF Counted

\* A rate that was counted has the window size as its denominator.
LEMMA CountedRate ==
  ASSUME log \in Seq(Message), NEW start, NEW value, Counted(start, EVENTS_PER_MINUTE, value)
  PROVE  /\ Cardinality(EventsOf(start)) \in Nat
         /\ \E n \in Nat : value = <<60 * n, WindowSeconds>> /\ n <= Cardinality(EventsOf(start))
<1>1. PICK S \in (SUBSET EventsOf(start)) \ {{}} : value = EventsPerMinute(Aggregate(S))
  BY DEF Counted, MetricValue
<1>2. EventsOf(start) \in SUBSET DOMAIN log
  BY DEF EventsOf
<1>3. IsFiniteSet(EventsOf(start)) /\ Cardinality(EventsOf(start)) \in Nat
  BY <1>2, MessagesFinite, FS_CardinalityType
<1>4. Cardinality(S) \in Nat /\ Cardinality(S) <= Cardinality(EventsOf(start))
  BY <1>1, <1>3, FS_Subset, FS_CardinalityType
<1>5. value = <<60 * Cardinality(S), WindowSeconds>>
  BY <1>1 DEF EventsPerMinute, Aggregate
<1> QED
  BY <1>3, <1>4, <1>5

\* Rates over one denominator are ordered as their numerators are.
LEMMA RateOrder ==
  ASSUME NEW a \in Nat, NEW b \in Nat
  PROVE  Less(<<60 * a, WindowSeconds>>, <<60 * b, WindowSeconds>>) <=> a < b
<1>1. WindowSeconds \in Nat /\ WindowSeconds >= 1
  BY WindowSecondsAssumption
<1>2. Less(<<60 * a, WindowSeconds>>, <<60 * b, WindowSeconds>>)
        <=> (60 * a) * WindowSeconds < (60 * b) * WindowSeconds
  BY DEF Less
<1>3. ASSUME a < b PROVE (60 * a) * WindowSeconds < (60 * b) * WindowSeconds
  <2>1. (60 * a + 1) * WindowSeconds <= (60 * b) * WindowSeconds
    BY <1>1, <1>3
  <2>2. (60 * a + 1) * WindowSeconds = (60 * a) * WindowSeconds + WindowSeconds
    BY <1>1
  <2> QED
    BY <1>1, <2>1, <2>2
<1>4. ASSUME b <= a PROVE (60 * b) * WindowSeconds <= (60 * a) * WindowSeconds
  BY <1>1, <1>4
<1> QED
  BY <1>1, <1>2, <1>3, <1>4

\* While nothing is lost, no step of the store lets a row fall below a value
\* it was above: rates only rise over the same denominator.
LEMMA RowsStayAbove ==
  ASSUME AlerterTypeOK, StoreSound, StoreSound', StoreRefresh, ~lossy,
         NEW rowKey \in DOMAIN metrics, rowKey[2] = EVENTS_PER_MINUTE,
         NEW value, Counted(rowKey[1], EVENTS_PER_MINUTE, value), ~Less(metrics[rowKey], value),
         rowKey \in DOMAIN metrics'
  PROVE  ~Less(metrics'[rowKey], value)
<1>1. IsTable(metrics) /\ log \in Seq(Message) /\ log' = log
  BY DEF AlerterTypeOK, StoreTypeOK, StoreRefresh
<1>2. rowKey = <<rowKey[1], EVENTS_PER_MINUTE>> /\ rowKey[1] \in WindowStarts
  BY <1>1 DEF IsTable
<1>3. HasRows(metrics, rowKey[1])
  BY DEF StoreSound
<1>4. ~Less(metrics'[rowKey], metrics[rowKey])
  BY <1>2, <1>3 DEF StoreRefresh, RateFalls
<1>5. Counted(rowKey[1], EVENTS_PER_MINUTE, metrics[rowKey])
  BY DEF StoreSound, Counted
<1>6. Counted(rowKey[1], EVENTS_PER_MINUTE, metrics'[rowKey])
  <2>1. PICK S \in (SUBSET EventsOf(rowKey[1])') \ {{}} :
           metrics'[rowKey] = MetricValue(Aggregate(S)', EVENTS_PER_MINUTE)
    BY DEF StoreSound, MetricValue, EventsPerMinute, ConversionRate
  <2>2. Aggregate(S)' = Aggregate(S) /\ EventsOf(rowKey[1])' = EventsOf(rowKey[1])
    BY <1>1, LogStable
  <2> QED
    BY <2>1, <2>2 DEF Counted
<1>7. PICK a \in Nat : value = <<60 * a, WindowSeconds>>
  BY <1>1, CountedRate
<1>8. PICK b \in Nat : metrics[rowKey] = <<60 * b, WindowSeconds>>
  BY <1>1, <1>5, CountedRate
<1>9. PICK c \in Nat : metrics'[rowKey] = <<60 * c, WindowSeconds>>
  BY <1>1, <1>6, CountedRate
<1>10. ~(b < a)
  <2>1. ~Less(<<60 * b, WindowSeconds>>, <<60 * a, WindowSeconds>>)
    BY <1>7, <1>8
  <2> QED
    BY <2>1, RateOrder
<1>11. ~(c < b)
  <2>1. ~Less(<<60 * c, WindowSeconds>>, <<60 * b, WindowSeconds>>)
    BY <1>4, <1>8, <1>9
  <2> QED
    BY <2>1, RateOrder
<1>12. ~(c < a)
  BY <1>10, <1>11
<1>13. ~Less(<<60 * c, WindowSeconds>>, <<60 * a, WindowSeconds>>)
  BY <1>12, RateOrder
<1> QED
  BY <1>7, <1>9, <1>13

\* What justified an alert still does after messages were published.
LEMMA JustifiedStays ==
  ASSUME log \in Seq(Message), log' = log \/ PublishMessage,
         NEW table, Justified(table)
  PROVE  \A key \in DOMAIN table :
           /\ Breaches(key[2], table[key])
           /\ Counted(StartOf(key), key[2], table[key])'
<1>1. ASSUME NEW key \in DOMAIN table
      PROVE  Breaches(key[2], table[key]) /\ Counted(StartOf(key), key[2], table[key])
  BY DEF Justified, Counted
<1>2. \A start, metric, value : Counted(start, metric, value) => Counted(start, metric, value)'
  BY CountedStays
<1> QED
  BY <1>1, <1>2

-----------------------------------------------------------------------------
(* The steps *)

\* Nothing is stored and nothing waits at the start.
LEMMA AlerterStarts == AllInit => AlerterInv
<1> SUFFICES ASSUME AllInit PROVE AlerterInv
  OBVIOUS
<1>1. log = << >> /\ metrics = NoRows /\ lossy = FALSE
  BY DEF AllInit, StoreInit
<1>2. alerts = NoAlerts /\ pending = NoAlerts /\ now = 0 /\ failures = 0
  BY DEF AllInit, AlerterInit
<1>3. StoreTypeOK /\ StoreSound
  <2>1. DOMAIN metrics = {} /\ metrics = [key \in {} |-> <<0, 1>>]
    BY <1>1 DEF NoRows
  <2>2. IsTable(metrics)
    BY <2>1 DEF IsTable
  <2>3. StoreSound
    BY <2>1 DEF StoreSound
  <2>4. log \in Seq(Message)
    BY <1>1
  <2>5. lossy \in BOOLEAN
    BY <1>1
  <2> QED
    BY <2>2, <2>3, <2>4, <2>5 DEF StoreTypeOK
<1> QED
  BY <1>2, <1>3, NoAlertsHold, TypeParts DEF AlerterInv

\* The tables of alerts stay justified while the store moves under them.
LEMMA StoreKeepsAlerts ==
  ASSUME AlerterInv, UNCHANGED alerterVars, log' = log \/ PublishMessage
  PROVE  AlertsType(alerts)' /\ AlertsType(pending)' /\ Justified(alerts)' /\ Justified(pending)'
<1>1. /\ log \in Seq(Message) /\ Justified(alerts) /\ Justified(pending)
      /\ AlertsType(alerts) /\ AlertsType(pending)
  BY TypeParts DEF AlerterInv, StoreTypeOK
<1>2. alerts' = alerts /\ pending' = pending
  BY DEF alerterVars
<1>3. Justified(alerts)'
  BY <1>1, <1>2, JustifiedStays DEF Justified, Counted
<1>4. Justified(pending)'
  BY <1>1, <1>2, JustifiedStays DEF Justified, Counted
<1> QED
  BY <1>1, <1>2, <1>3, <1>4 DEF AlertsType

\* No step of the store's other side breaks the invariant.
LEMMA StoreKeeps ==
  ASSUME AlerterInv, StoreStep
  PROVE  AlerterInv'
<1>1. /\ StoreTypeOK /\ StoreSound /\ now' = now /\ failures' = failures
      /\ now \in Nat /\ failures \in Nat
      /\ alerts' = alerts /\ pending' = pending /\ UNCHANGED alerterVars
  BY TypeParts DEF AlerterInv, StoreStep, alerterVars
<1>2. CASE StorePublish
  <2>1. PublishMessage /\ metrics' = metrics /\ lossy' = lossy
    BY <1>2 DEF StorePublish
  <2>2. AlertsType(alerts)' /\ AlertsType(pending)' /\ Justified(alerts)' /\ Justified(pending)'
    BY <1>1, <2>1, StoreKeepsAlerts
  <2>3. StoreTypeOK'
    <3>1. log' \in Seq(Message)
      BY <1>1, <2>1 DEF PublishMessage, StoreTypeOK
    <3> QED
      BY <1>1, <2>1, <3>1 DEF StoreTypeOK
  <2>4. StoreSound'
    <3>1. \A key \in DOMAIN metrics :
             HasRows(metrics, key[1]) /\ Counted(key[1], key[2], metrics[key])
      BY <1>1 DEF StoreSound, Counted
    <3>2. \A start, metric, value : Counted(start, metric, value) => Counted(start, metric, value)'
      BY <1>1, <2>1, CountedStays DEF StoreTypeOK
    <3>3. \A key \in DOMAIN metrics : \A value :
             value = metrics[key] => Counted(key[1], key[2], value)'
      BY <3>1, <3>2
    <3> QED
      BY <2>1, <3>1, <3>3 DEF StoreSound, Counted, HasRows
  <2>5. ~lossy' => BelowRows(alerts)' /\ BelowRows(pending)'
    BY <1>1, <2>1 DEF AlerterInv, BelowRows
  <2> QED
    BY <1>1, <2>2, <2>3, <2>4, <2>5, TypeParts DEF AlerterInv, AlerterTypeOK, AlertsType
<1>3. CASE StoreRefresh
  <2>1. log' = log /\ lossy' = lossy
    BY <1>3 DEF StoreRefresh
  <2>2. AlertsType(alerts)' /\ AlertsType(pending)' /\ Justified(alerts)' /\ Justified(pending)'
    BY <1>1, <2>1, StoreKeepsAlerts
  <2>3. IsTable(metrics') /\ StoreSound' /\ DOMAIN metrics \subseteq DOMAIN metrics'
    BY <1>1, <1>3, RefreshSound
  <2>4. StoreTypeOK'
    BY <1>1, <2>1, <2>3 DEF StoreTypeOK
  <2>5. ASSUME ~lossy, NEW table, AlertsType(table), Justified(table), BelowRows(table),
               NEW key \in DOMAIN table, key[2] = EVENTS_PER_MINUTE
        PROVE  RowKey(key) \in DOMAIN metrics' /\ ~Less(metrics'[RowKey(key)], table[key])
    <3>1. RowKey(key) \in DOMAIN metrics /\ ~Less(metrics[RowKey(key)], table[key])
      BY <2>5 DEF BelowRows
    <3>2. RowKey(key)[2] = EVENTS_PER_MINUTE /\ RowKey(key)[1] = StartOf(key)
      BY <2>5 DEF RowKey, StartOf
    <3>3. Counted(RowKey(key)[1], EVENTS_PER_MINUTE, table[key])
      BY <2>5, <3>2 DEF Justified, Counted
    <3> QED
      BY <1>3, <2>3, <2>5, <3>1, <3>2, <3>3, RowsStayAbove DEF AlerterInv
  <2>6. ~lossy' => BelowRows(alerts)' /\ BelowRows(pending)'
    <3>1. ASSUME ~lossy'
          PROVE  /\ AlertsType(alerts) /\ Justified(alerts) /\ BelowRows(alerts)
                 /\ AlertsType(pending) /\ Justified(pending) /\ BelowRows(pending)
      BY <2>1, <3>1, TypeParts DEF AlerterInv
    <3> QED
      BY <1>1, <2>1, <2>5, <3>1 DEF BelowRows
  <2> QED
    BY <1>1, <2>2, <2>3, <2>4, <2>6 DEF AlerterInv, AlerterTypeOK, AlertsType
<1>4. CASE StoreLoses
  <2>1. lossy' = TRUE /\ log' = log /\ metrics' = metrics
    BY <1>4 DEF StoreLoses
  <2>2. AlertsType(alerts)' /\ AlertsType(pending)' /\ Justified(alerts)' /\ Justified(pending)'
    BY <1>1, <2>1, StoreKeepsAlerts
  <2>3. StoreTypeOK'
    BY <1>1, <2>1 DEF StoreTypeOK
  <2>4. StoreSound'
    <3>1. \A S, metric : MetricValue(Aggregate(S), metric)' = MetricValue(Aggregate(S), metric)
      BY <2>1, LogStable DEF MetricValue, EventsPerMinute, ConversionRate
    <3> QED
      BY <1>1, <2>1, <3>1, LogStable DEF StoreSound, HasRows
  <2> QED
    BY <1>1, <2>1, <2>2, <2>3, <2>4 DEF AlerterInv, AlerterTypeOK, AlertsType
<1> QED
  BY <1>2, <1>3, <1>4 DEF StoreStep, StoreNext

\* What the alerter's own steps leave alone keeps its part of the invariant.
LEMMA StoreUntouched ==
  ASSUME AlerterInv, UNCHANGED storeVars
  PROVE  /\ StoreTypeOK' /\ StoreSound'
         /\ \A table : Justified(table) => Justified(table)'
         /\ \A table : BelowRows(table) => BelowRows(table)'
<1>1. log' = log /\ metrics' = metrics /\ lossy' = lossy
  BY DEF storeVars
<1>2. \A S, metric : MetricValue(Aggregate(S), metric)' = MetricValue(Aggregate(S), metric)
  BY <1>1, LogStable DEF MetricValue, EventsPerMinute, ConversionRate
<1>3. StoreTypeOK'
  BY <1>1 DEF AlerterInv, AlerterTypeOK, StoreTypeOK
<1>4. StoreSound'
  <2>1. StoreSound /\ \A start : EventsOf(start)' = EventsOf(start)
    BY <1>1, LogStable DEF AlerterInv
  <2> QED
    BY <1>1, <1>2, <2>1 DEF StoreSound, HasRows
<1>5. \A table : Justified(table) => Justified(table)'
  BY <1>1, <1>2, LogStable DEF Justified
<1>6. \A table : BelowRows(table) => BelowRows(table)'
  BY <1>1 DEF BelowRows
<1> QED
  BY <1>3, <1>4, <1>5, <1>6

\* A read of the rows collects breaching ones, and they are still there.
LEMMA EvaluateKeeps ==
  ASSUME AlerterInv, Evaluate
  PROVE  AlerterInv'
<1> DEFINE new == EvaluateThresholds(FetchRecentMetrics(MinWindowStart))
<1>1. /\ pending' = new /\ alerts' = alerts /\ now' = now /\ failures' = failures
      /\ UNCHANGED storeVars
  BY DEF Evaluate
<1>2. /\ IsTable(metrics) /\ StoreSound /\ AlertsType(alerts) /\ Justified(alerts)
      /\ now \in Nat /\ failures \in Nat
      /\ lossy' = lossy /\ metrics' = metrics /\ log' = log
      /\ ~lossy => BelowRows(alerts)
  BY <1>1, TypeParts DEF AlerterInv, StoreTypeOK, storeVars
<1>3. /\ AlertsType(new)
      /\ \A key \in DOMAIN new :
           /\ RowKey(key) \in DOMAIN metrics /\ new[key] = metrics[RowKey(key)]
           /\ RowKey(key)[2] = key[2]
           /\ Breaches(key[2], new[key])
  BY <1>2, EvaluateYields
<1> HIDE DEF new
<1>4. Justified(new)
  <2>1. ASSUME NEW key \in DOMAIN new
        PROVE  Counted(StartOf(key), key[2], new[key])
    BY <1>2, <1>3, <2>1 DEF StoreSound, Counted, StartOf
  <2> QED
    BY <1>3, <2>1 DEF Justified, Counted
<1>5. BelowRows(new)
  <2>1. \A key \in DOMAIN new : new[key] \in Nat \X Nat
    BY <1>3 DEF AlertsType
  <2>2. \A value \in Nat \X Nat : ~Less(value, value)
    BY DEF Less
  <2> QED
    BY <1>3, <2>1, <2>2 DEF BelowRows
<1>6. /\ StoreTypeOK' /\ StoreSound'
      /\ \A table : Justified(table) => Justified(table)'
      /\ \A table : BelowRows(table) => BelowRows(table)'
  BY <1>1, StoreUntouched
<1>7. Justified(alerts)' /\ Justified(pending)'
  BY <1>1, <1>2, <1>4, <1>6 DEF Justified
<1>8. ~lossy' => BelowRows(alerts)' /\ BelowRows(pending)'
  BY <1>1, <1>2, <1>5, <1>6 DEF BelowRows
<1>9. AlertsType(alerts)' /\ AlertsType(pending)'
  BY <1>1, <1>2, <1>3 DEF AlertsType
<1> QED
  BY <1>1, <1>2, <1>6, <1>7, <1>8, <1>9 DEF AlerterInv, AlerterTypeOK, AlertsType

\* A table to which the alerts that waited were added keeps what both had.
LEMMA InsertSound ==
  ASSUME AlerterInv
  PROVE  LET table == InsertAlerts(alerts, pending) IN
           /\ AlertsType(table) /\ Justified(table)
           /\ ~lossy => BelowRows(table)
<1> DEFINE table == InsertAlerts(alerts, pending)
<1>1. /\ AlertsType(alerts) /\ AlertsType(pending) /\ Justified(alerts) /\ Justified(pending)
      /\ ~lossy => BelowRows(alerts) /\ BelowRows(pending)
  BY TypeParts DEF AlerterInv
<1>2. /\ AlertsType(table)
      /\ \A key \in DOMAIN table :
           \/ key \in DOMAIN alerts /\ table[key] = alerts[key]
           \/ key \in DOMAIN pending /\ table[key] = pending[key]
  BY <1>1, InsertYields
<1> HIDE DEF table
<1>3. Justified(table)
  BY <1>1, <1>2 DEF Justified
<1>4. ~lossy => BelowRows(table)
  BY <1>1, <1>2 DEF BelowRows
<1> QED
  BY <1>2, <1>3, <1>4 DEF table

\* An insertion, and one that fails on either side of its commit.
LEMMA InsertKeeps ==
  ASSUME AlerterInv, Insert \/ InsertFails
  PROVE  AlerterInv'
<1>1. /\ alerts' = alerts \/ alerts' = InsertAlerts(alerts, pending)
      /\ pending' = NoAlerts /\ now' = now /\ UNCHANGED storeVars
      /\ failures' = failures \/ failures' = failures + 1
  BY DEF Insert, InsertFails
<1>2. /\ now \in Nat /\ failures \in Nat /\ lossy' = lossy
      /\ AlertsType(alerts) /\ Justified(alerts)
      /\ ~lossy => BelowRows(alerts)
  BY <1>1, TypeParts DEF AlerterInv, storeVars
<1>3. PICK table : table = alerts'
  OBVIOUS
<1>4. AlertsType(table) /\ Justified(table) /\ (~lossy => BelowRows(table))
  <2>1. CASE table = alerts
    BY <1>2, <2>1
  <2>2. CASE table = InsertAlerts(alerts, pending)
    BY <2>2, InsertSound, Zenon
  <2>3. table = alerts \/ table = InsertAlerts(alerts, pending)
    BY <1>1, <1>3
  <2> QED
    BY <2>1, <2>2, <2>3
<1>5. /\ StoreTypeOK' /\ StoreSound'
      /\ \A t : Justified(t) => Justified(t)'
      /\ \A t : BelowRows(t) => BelowRows(t)'
  BY <1>1, StoreUntouched
<1>6. Justified(alerts)' /\ Justified(pending)'
  BY <1>1, <1>3, <1>4, <1>5, NoAlertsHold DEF Justified
<1>7. ~lossy' => BelowRows(alerts)' /\ BelowRows(pending)'
  BY <1>1, <1>2, <1>3, <1>4, <1>5, NoAlertsHold DEF BelowRows
<1>8. AlertsType(alerts)' /\ AlertsType(pending)'
  BY <1>1, <1>3, <1>4, NoAlertsHold DEF AlertsType
<1> QED
  BY <1>1, <1>2, <1>5, <1>6, <1>7, <1>8 DEF AlerterInv, AlerterTypeOK, AlertsType

\* The clock, and a step that changes nothing.
LEMMA IdleKeeps ==
  ASSUME AlerterInv, ClockTicks \/ UNCHANGED allVars
  PROVE  AlerterInv'
<1>1. /\ alerts' = alerts /\ pending' = pending /\ UNCHANGED storeVars
      /\ now' = now \/ now' = now + 1
      /\ failures' = failures
  BY DEF ClockTicks, allVars, alerterVars
<1>2. /\ now \in Nat /\ failures \in Nat /\ lossy' = lossy
      /\ AlertsType(alerts) /\ AlertsType(pending) /\ Justified(alerts) /\ Justified(pending)
      /\ ~lossy => BelowRows(alerts) /\ BelowRows(pending)
  BY <1>1, TypeParts DEF AlerterInv, storeVars
<1>3. /\ StoreTypeOK' /\ StoreSound'
      /\ \A t : Justified(t) => Justified(t)'
      /\ \A t : BelowRows(t) => BelowRows(t)'
  BY <1>1, StoreUntouched
<1>4. Justified(alerts)' /\ Justified(pending)'
  BY <1>1, <1>2, <1>3 DEF Justified
<1>5. ~lossy' => BelowRows(alerts)' /\ BelowRows(pending)'
  BY <1>1, <1>2, <1>3 DEF BelowRows
<1>6. AlertsType(alerts)' /\ AlertsType(pending)'
  BY <1>1, <1>2 DEF AlertsType
<1> QED
  BY <1>1, <1>2, <1>3, <1>4, <1>5, <1>6 DEF AlerterInv, AlerterTypeOK, AlertsType

-----------------------------------------------------------------------------
(* The theorems *)

\* The invariant holds in every state of the alerter next to the store.
THEOREM AlerterSound == AllSpec => []AlerterInv
<1>1. AllInit => AlerterInv
  BY AlerterStarts
<1>2. AlerterInv /\ [AllNext]_allVars => AlerterInv'
  BY StoreKeeps, EvaluateKeeps, InsertKeeps, IdleKeeps DEF AllNext
<1> QED
  BY <1>1, <1>2, PTL DEF AllSpec

\* Rows, alerts and clock keep their types.
THEOREM AlerterTypeCorrect == AllSpec => []AlerterTypeOK
<1>1. AlerterInv => AlerterTypeOK
  BY DEF AlerterInv
<1> QED
  BY <1>1, AlerterSound, PTL

\* Every alert in the table was raised for a breaching metric of published
\* events of its window.
THEOREM AlertsJustifiedAlways == AllSpec => []AlertsJustified
<1>1. AlerterInv => AlertsJustified
  BY DEF AlerterInv, AlertsJustified
<1> QED
  BY <1>1, AlerterSound, PTL

\* Until something is lost, no stored rate falls below the rate of its alert.
THEOREM RateAlertsStayBelowRows == AllSpec => []RateAlertsBelowRows
<1>1. AlerterInv => RateAlertsBelowRows
  BY DEF AlerterInv, RateAlertsBelowRows, BelowRows
<1> QED
  BY <1>1, AlerterSound, PTL

=============================================================================
