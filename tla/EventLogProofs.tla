---------------------------- MODULE EventLogProofs ----------------------------
(***************************************************************************)
(* Lemmas about the operators of Windowing and EventLog, on which the      *)
(* proofs about the processor and the alerter rest.                        *)
(***************************************************************************)
EXTENDS EventLog, FiniteSetTheorems, TLAPS

-----------------------------------------------------------------------------
(* The pure operators *)

\* A window starts at a natural number, one of the starts that occur.
LEMMA WindowStartType ==
  /\ \A ts \in Timestamps : WindowStart(ts) \in WindowStarts
  /\ WindowStarts \subseteq Nat
  BY WindowSecondsAssumption, TimestampsAssumption DEF WindowStart, WindowStarts

\* Counting one more event of a known type keeps a window a window.
LEMMA CountingType ==
  ASSUME NEW window \in Window, NEW type \in EventTypes
  PROVE  Counting(window, type) \in Window
  BY DEF Counting, Window

\* The empty window, from which _ingest starts one.
LEMMA EmptyWindowType == EmptyWindow \in Window
  BY DEF EmptyWindow, Window

\* _ingest keeps the window map one, and opens at most the event's window.
LEMMA IngestType ==
  ASSUME NEW ws, IsWindowMap(ws), NEW event \in Event
  PROVE  /\ IsWindowMap(Ingest(ws, event))
         /\ DOMAIN Ingest(ws, event) = DOMAIN ws \cup {WindowStart(event.ts)}
<1> DEFINE start == WindowStart(event.ts)
           before == IF start \in DOMAIN ws THEN ws[start] ELSE EmptyWindow
<1>1. start \in WindowStarts /\ event.type \in EventTypes
  BY WindowStartType DEF Event
<1>2. before \in Window
  BY EmptyWindowType DEF IsWindowMap
<1>3. Counting(before, event.type) \in Window
  BY <1>1, <1>2, CountingType
<1>4. Ingest(ws, event) = [s \in DOMAIN ws \cup {start} |->
                             IF s = start THEN Counting(before, event.type) ELSE ws[s]]
  BY DEF Ingest
<1> QED
  BY <1>1, <1>3, <1>4 DEF IsWindowMap

\* _evict keeps some of the windows, unchanged.
LEMMA EvictType ==
  ASSUME NEW ws, IsWindowMap(ws)
  PROVE  /\ IsWindowMap(Evict(ws))
         /\ DOMAIN Evict(ws) \subseteq DOMAIN ws
         /\ \A s \in DOMAIN Evict(ws) : Evict(ws)[s] = ws[s]
  BY DEF IsWindowMap, Evict, Retained

\* A metric of a window is a fraction of natural numbers.
LEMMA MetricValueType ==
  ASSUME NEW window \in Window, NEW metric \in MetricNames
  PROVE  MetricValue(window, metric) \in Nat \X Nat
<1>1. EventsPerMinute(window) \in Nat \X Nat
  BY WindowSecondsAssumption DEF EventsPerMinute, Window
<1>2. ConversionRate(window) \in Nat \X Nat
  BY DEF ConversionRate, Window, EventTypes
<1> QED
  BY <1>1, <1>2 DEF MetricValue

\* compute_metrics yields, for every window, both its rows.
LEMMA ComputeMetricsType ==
  ASSUME NEW ws, IsWindowMap(ws)
  PROVE  /\ IsTable(ComputeMetrics(ws))
         /\ DOMAIN ComputeMetrics(ws) = (DOMAIN ws) \X MetricNames
<1>2. \A key \in (DOMAIN ws) \X MetricNames :
        key[1] \in DOMAIN ws /\ key[2] \in MetricNames /\ ws[key[1]] \in Window
  BY DEF IsWindowMap
<1>3. \A key \in (DOMAIN ws) \X MetricNames :
        MetricValue(ws[key[1]], key[2]) \in Nat \X Nat
  BY <1>2, MetricValueType
<1> QED
  BY <1>3 DEF ComputeMetrics, IsTable, IsWindowMap

\* An upsert keeps the table a table.
LEMMA UpsertType ==
  ASSUME NEW table, IsTable(table), NEW rows, IsTable(rows)
  PROVE  IsTable(Upsert(table, rows))
  BY DEF Upsert, IsTable

-----------------------------------------------------------------------------
(* Aggregates of sets of messages *)

\* A set of messages of the log is finite.
LEMMA MessagesFinite ==
  ASSUME log \in Seq(Message), NEW S \in SUBSET DOMAIN log
  PROVE  IsFiniteSet(S)
<1>1. DOMAIN log = 1 .. Len(log) /\ Len(log) \in Nat
  OBVIOUS
<1>2. IsFiniteSet(1 .. Len(log))
  BY <1>1, FS_Interval
<1> QED
  BY <1>1, <1>2, FS_Subset

\* The aggregate of messages is a window.
LEMMA AggregateType ==
  ASSUME log \in Seq(Message), NEW S \in SUBSET DOMAIN log
  PROVE  Aggregate(S) \in Window
<1>1. IsFiniteSet(S) /\ Cardinality(S) \in Nat
  BY MessagesFinite, FS_CardinalityType
<1>2. \A type \in EventTypes : Cardinality({i \in S : log[i].type = type}) \in Nat
  BY <1>1, FS_Subset, FS_CardinalityType
<1> QED
  BY <1>1, <1>2 DEF Aggregate, Window

\* One more message counts once, in the total and under its type: what
\* _ingest does to a window is what it does to the aggregate.
LEMMA AggregateAdd ==
  ASSUME log \in Seq(Message), NEW S \in SUBSET DOMAIN log, NEW i \in DOMAIN log, i \notin S, IsEvent(i)
  PROVE  Aggregate(S \cup {i}) = Counting(Aggregate(S), log[i].type)
<1> DEFINE Of(type) == {j \in S : log[j].type = type}
           NowOf(type) == {j \in S \cup {i} : log[j].type = type}
<1>1. IsFiniteSet(S) /\ Cardinality(S \cup {i}) = Cardinality(S) + 1
  BY MessagesFinite, FS_AddElement
<1>2. log[i].type \in EventTypes
  BY DEF IsEvent, Event
<1>3. ASSUME NEW type \in EventTypes
      PROVE  Cardinality(NowOf(type)) =
               IF type = log[i].type THEN Cardinality(Of(type)) + 1 ELSE Cardinality(Of(type))
  <2>1. IsFiniteSet(Of(type)) /\ i \notin Of(type)
    BY <1>1, FS_Subset
  <2>2. CASE type = log[i].type
    <3>1. NowOf(type) = Of(type) \cup {i}
      BY <2>2
    <3> QED
      BY <2>1, <2>2, <3>1, FS_AddElement
  <2>3. CASE type # log[i].type
    <3>1. NowOf(type) = Of(type)
      BY <2>3
    <3> QED
      BY <2>3, <3>1
  <2> QED
    BY <2>2, <2>3
<1>4. Aggregate(S) = [total |-> Cardinality(S), counts |-> [type \in EventTypes |-> Cardinality(Of(type))]]
  BY DEF Aggregate
<1>5. Aggregate(S \cup {i}) =
        [total |-> Cardinality(S \cup {i}), counts |-> [type \in EventTypes |-> Cardinality(NowOf(type))]]
  BY DEF Aggregate
<1>6. [type \in EventTypes |-> Cardinality(NowOf(type))]
        = [[type \in EventTypes |-> Cardinality(Of(type))] EXCEPT ![log[i].type] = @ + 1]
  <2> HIDE DEF Of, NowOf
  <2> QED
    BY <1>2, <1>3
<1>7. /\ Aggregate(S).total + 1 = Cardinality(S \cup {i})
      /\ [Aggregate(S).counts EXCEPT ![log[i].type] = @ + 1]
           = [type \in EventTypes |-> Cardinality(NowOf(type))]
  <2> HIDE DEF Of, NowOf
  <2> QED
    BY <1>1, <1>4, <1>6
<1> QED
  <2> HIDE DEF Of, NowOf
  <2> QED
    BY <1>5, <1>7, Zenon DEF Counting

\* A window that has counted nothing is the aggregate of no message.
LEMMA AggregateNone == Aggregate({}) = EmptyWindow
<1>1. \A type : {i \in {} : log[i].type = type} = {}
  OBVIOUS
<1> QED
  BY <1>1, FS_EmptySet DEF Aggregate, EmptyWindow

\* Of two finite sets of messages the larger has the higher rate.
LEMMA RateMonotone ==
  ASSUME log \in Seq(Message), NEW T \in SUBSET DOMAIN log, NEW S \in SUBSET T
  PROVE  ~Less(EventsPerMinute(Aggregate(T)), EventsPerMinute(Aggregate(S)))
<1>1. IsFiniteSet(T) /\ IsFiniteSet(S)
  BY MessagesFinite
<1>2. PICK m \in Nat, n \in Nat : m = Cardinality(S) /\ n = Cardinality(T)
  BY <1>1, FS_CardinalityType
<1>3. m <= n
  BY <1>1, <1>2, FS_Subset
<1>4. /\ EventsPerMinute(Aggregate(S)) = <<60 * m, WindowSeconds>>
      /\ EventsPerMinute(Aggregate(T)) = <<60 * n, WindowSeconds>>
  BY <1>2 DEF EventsPerMinute, Aggregate
<1>5. (60 * m) * WindowSeconds <= (60 * n) * WindowSeconds
  BY <1>3, WindowSecondsAssumption
<1> QED
  BY <1>4, <1>5, WindowSecondsAssumption DEF Less

\* What the log says does not change with anything but the log.
LEMMA LogStable ==
  ASSUME log' = log
  PROVE  /\ \A S : Aggregate(S)' = Aggregate(S)
         /\ \A start : EventsOf(start)' = EventsOf(start)
  BY DEF Aggregate, EventsOf, IsEvent

\* Publishing changes no aggregate of messages published before, and takes no
\* message away from a window.
LEMMA PublishMessageStable ==
  ASSUME log \in Seq(Message), PublishMessage
  PROVE  /\ \A S \in SUBSET DOMAIN log : Aggregate(S)' = Aggregate(S)
         /\ \A start : EventsOf(start) \subseteq EventsOf(start)'
<1>1. PICK message \in Message : log' = Append(log, message)
  BY DEF PublishMessage
<1>2. /\ DOMAIN log = 1 .. Len(log) /\ Len(log) \in Nat
      /\ DOMAIN log \subseteq DOMAIN log'
      /\ \A i \in DOMAIN log : log'[i] = log[i]
  BY <1>1
<1>3. ASSUME NEW S \in SUBSET DOMAIN log
      PROVE  Aggregate(S)' = Aggregate(S)
  <2>1. \A type : {i \in S : log'[i].type = type} = {i \in S : log[i].type = type}
    BY <1>2
  <2> QED
    BY <2>1 DEF Aggregate
<1>4. \A start : EventsOf(start) \subseteq EventsOf(start)'
  BY <1>2 DEF EventsOf, IsEvent
<1> QED
  BY <1>3, <1>4

=============================================================================
