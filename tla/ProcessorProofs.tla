--------------------------- MODULE ProcessorProofs ---------------------------
(***************************************************************************)
(* Proofs about the processor, for every window size, retention, set of    *)
(* timestamps, log and number of faults: first its types, that rows count  *)
(* distinct events and that a flush bounds the memory; then what memory    *)
(* and rows know of the messages consumed - that windows are exact, that a *)
(* clean stop stores all, that rates only rise, that the processor         *)
(* implements MetricsStore, how much a replay can overcount, and what that *)
(* means for the alerts of StreamPulse.                                    *)
(***************************************************************************)
EXTENDS StreamPulse, EventLogProofs

-----------------------------------------------------------------------------
(* Type correctness *)

\* A process that ends leaves its variables typed.
LEMMA ExitType ==
  TypeOK /\ Exit => /\ pc' \in {"poll", "ingest", "check", "finally", "close", "down"}
                    /\ position' \in Nat
                    /\ IsWindowMap(windows')
                    /\ due' \in BOOLEAN /\ stopping' \in BOOLEAN
<1>1. IsWindowMap(NoWindows)
  BY DEF IsWindowMap, NoWindows
<1> QED
  BY <1>1 DEF TypeOK, Exit

\* Every step of the processor keeps every variable in its type.
LEMMA TypeStep == TypeOK /\ [Next]_vars => TypeOK'
<1> SUFFICES ASSUME TypeOK, [Next]_vars PROVE TypeOK'
  OBVIOUS
<1> USE DEF TypeOK
<1>1. CASE Publish
  <2>1. PICK message \in Message : log' = Append(log, message)
    BY <1>1 DEF Publish, PublishMessage
  <2> QED
    BY <1>1, <2>1 DEF Publish, processVars, historyVars
<1>2. CASE FlushBecomesDue
  BY <1>2 DEF FlushBecomesDue, durableVars, historyVars
<1>3. CASE AutoCommit
  BY <1>3 DEF AutoCommit, processVars, historyVars
<1>4. CASE PollMessage
  BY <1>4 DEF PollMessage, durableVars, historyVars
<1>5. CASE PollNothing
  BY <1>5 DEF PollNothing, durableVars, historyVars
<1>6. CASE IngestMessage
  <2>1. IsWindowMap(windows')
    BY <1>6, IngestType DEF IngestMessage
  <2> QED
    BY <1>6, <2>1 DEF IngestMessage, durableVars, historyVars
<1>7. CASE SkipFlush
  BY <1>7 DEF SkipFlush, durableVars, historyVars
<1>8. IsTable(Upsert(metrics, ComputeMetrics(windows)))
  BY UpsertType, ComputeMetricsType
<1>9. CASE Flush
  <2>1. IsWindowMap(windows')
    BY <1>9, EvictType DEF Flush
  <2> QED
    BY <1>8, <1>9, <2>1 DEF Flush, historyVars
<1>10. CASE LeaveLoop
  BY <1>10 DEF LeaveLoop, durableVars, historyVars
<1>11. CASE FinalFlush
  BY <1>8, <1>11 DEF FinalFlush, historyVars
<1>12. CASE Close
  BY <1>12, ExitType DEF Close, historyVars
<1>13. CASE Start
  BY <1>13 DEF Start, durableVars
<1>14. CASE Crash
  <2>1. IsWindowMap(windows')
    BY <1>14, ExitType DEF Crash
  <2> QED
    BY <1>14, <2>1, ExitType DEF Crash, Fault, durableVars
<1>15. CASE UpsertFails
  <2>1. IsWindowMap(windows') /\ IsTable(metrics')
    BY <1>8, <1>15, ExitType DEF UpsertFails
  <2> QED
    BY <1>15, <2>1, ExitType DEF UpsertFails, Fault
<1>16. CASE PollFails
  BY <1>16 DEF PollFails, Fault, durableVars
<1>17. CASE Sigterm
  BY <1>17 DEF Sigterm, Fault, durableVars
<1>18. CASE LoseAssignment
  BY <1>18 DEF LoseAssignment, Fault, durableVars
<1>19. CASE UNCHANGED vars
  BY <1>19 DEF vars, durableVars, processVars, historyVars
<1> QED
  BY <1>1, <1>2, <1>3, <1>4, <1>5, <1>6, <1>7, <1>9, <1>10, <1>11, <1>12, <1>13,
     <1>14, <1>15, <1>16, <1>17, <1>18, <1>19 DEF Next

\* The processor starts in its types.
LEMMA InitType == Init => TypeOK
<1>1. IsTable(NoRows)
  BY DEF IsTable, NoRows
<1>2. IsWindowMap(NoWindows)
  BY DEF IsWindowMap, NoWindows
<1>3. Init => log \in Seq(Message) /\ IsTable(metrics) /\ IsWindowMap(windows)
  BY <1>1, <1>2 DEF Init
<1>4. Init => due \in BOOLEAN /\ stopping \in BOOLEAN /\ restarted \in BOOLEAN
  BY DEF Init
<1> QED
  BY <1>3, <1>4 DEF Init, TypeOK

\* A lost assignment is on record from then on.
LEMMA LostAssignmentRewinds ==
  ASSUME TypeOK, LoseAssignment
  PROVE  Rewound'
<1>1. rewinds \in Nat /\ rewinds' = rewinds + 1
  BY DEF TypeOK, LoseAssignment
<1> QED
  BY <1>1 DEF Rewound

\* Every variable of the processor keeps its type: the upserts produce only
\* rows of the keys and values the table holds, eviction only buffered windows.
THEOREM TypeCorrect == Spec => []TypeOK
  BY InitType, TypeStep, PTL DEF Spec

-----------------------------------------------------------------------------
(* No event is counted twice *)

\* Publishing changes no aggregate of messages published before, and takes no
\* message away from a window.
LEMMA PublishStable ==
  ASSUME TypeOK, Publish
  PROVE  /\ \A S \in SUBSET DOMAIN log : Aggregate(S)' = Aggregate(S)
         /\ \A start : EventsOf(start) \subseteq EventsOf(start)'
  BY PublishMessageStable DEF TypeOK, Publish

\* The offsets stay in order.
LEMMA OffsetsStep ==
  TypeOK /\ OffsetsOrdered /\ [Next]_vars => OffsetsOrdered'
<1> SUFFICES ASSUME TypeOK, OffsetsOrdered, [Next]_vars PROVE OffsetsOrdered'
  OBVIOUS
<1> USE DEF OffsetsOrdered
<1>0. base \in Nat /\ committed \in Nat /\ position \in Nat /\ Len(log) \in Nat
  BY DEF TypeOK
<1>1. CASE Publish
  <2>1. PICK message \in Message : log' = Append(log, message)
    BY <1>1 DEF Publish, PublishMessage
  <2>2. Len(log') = Len(log) + 1
    BY <2>1 DEF TypeOK
  <2> QED
    BY <1>0, <1>1, <2>2 DEF Publish, processVars, historyVars
<1>2. CASE FlushBecomesDue
  BY <1>2 DEF FlushBecomesDue, durableVars, historyVars
<1>3. CASE AutoCommit
  BY <1>0, <1>3 DEF AutoCommit, processVars, historyVars
<1>4. CASE PollMessage
  BY <1>0, <1>4 DEF PollMessage, durableVars, historyVars
<1>5. CASE PollNothing
  BY <1>5 DEF PollNothing, durableVars, historyVars
<1>6. CASE IngestMessage
  BY <1>6 DEF IngestMessage, durableVars, historyVars
<1>7. CASE SkipFlush
  BY <1>7 DEF SkipFlush, durableVars, historyVars
<1>8. CASE Flush
  BY <1>8 DEF Flush, historyVars
<1>9. CASE LeaveLoop
  BY <1>9 DEF LeaveLoop, durableVars, historyVars
<1>10. CASE FinalFlush
  BY <1>10 DEF FinalFlush, historyVars
<1>11. Exit => DOMAIN windows' = {} /\ pc' = "down" /\ position' = position
  BY DEF Exit, NoWindows
<1>12. CASE Close
  BY <1>0, <1>11, <1>12 DEF Close, historyVars
<1>13. CASE Start
  BY <1>0, <1>13 DEF Start, durableVars
<1>14. CASE Crash
  BY <1>11, <1>14 DEF Crash, durableVars
<1>15. CASE UpsertFails
  BY <1>11, <1>15 DEF UpsertFails
<1>16. CASE PollFails
  BY <1>16 DEF PollFails, durableVars
<1>17. CASE Sigterm
  BY <1>17 DEF Sigterm, durableVars
<1>18. CASE LoseAssignment
  BY <1>0, <1>18 DEF LoseAssignment, durableVars
<1>19. CASE UNCHANGED vars
  BY <1>19 DEF vars, durableVars, processVars, historyVars
<1> QED
  BY <1>1, <1>2, <1>3, <1>4, <1>5, <1>6, <1>7, <1>8, <1>9, <1>10, <1>12, <1>13, <1>14,
     <1>15, <1>16, <1>17, <1>18, <1>19 DEF Next

\* Ingesting the message in hand adds exactly that message to its window.
LEMMA IngestSound ==
  ASSUME RowsInv, ~Rewound, IngestMessage
  PROVE  WindowsFromDistinctEvents'
<1>0. PICK message, s0 : message = log[position] /\ s0 = WindowStart(message.ts)
  OBVIOUS
<1>1. /\ TypeOK /\ OffsetsOrdered /\ WindowsFromDistinctEvents
      /\ log' = log /\ position' = position /\ pc = "ingest" /\ pc' # "ingest"
      /\ position \in DOMAIN log /\ position \in Nat
  BY DEF RowsInv, IngestMessage, durableVars, OffsetsOrdered, TypeOK
<1>2. Ingested = position - 1 /\ Ingested' = position
  BY <1>1 DEF Ingested
<1>3. ASSUME NEW start \in DOMAIN windows', windows'[start] = windows[start], start \in DOMAIN windows
      PROVE  \E S \in (SUBSET EventsOf(start)') \ {{}} : WindowDescribes(start, S)'
  <2>1. PICK S \in (SUBSET EventsOf(start)) \ {{}} : WindowDescribes(start, S)
    BY <1>1, <1>3 DEF WindowsFromDistinctEvents
  <2>2. S \in (SUBSET EventsOf(start)') \ {{}}
    BY <1>1, LogStable
  <2>3. \A i \in S : i \in Nat
    BY <1>1 DEF EventsOf, TypeOK
  <2>4. WindowDescribes(start, S)'
    BY <1>1, <1>2, <1>3, <2>1, <2>3, LogStable DEF WindowDescribes
  <2> QED
    BY <2>2, <2>4
<1>4. CASE message \notin Event
  <2>1. windows' = windows
    BY <1>0, <1>4 DEF IngestMessage
  <2> QED
    BY <1>3, <2>1 DEF WindowsFromDistinctEvents
<1>5. CASE message \in Event
  <2>1. windows' = Ingest(windows, message)
    BY <1>0, <1>5, MessageAssumption DEF IngestMessage
  <2>2. DOMAIN windows' = DOMAIN windows \cup {s0}
    BY <1>0, <1>1, <1>5, <2>1, IngestType DEF TypeOK
  <2>3. ASSUME NEW start \in DOMAIN windows', start # s0
        PROVE  start \in DOMAIN windows /\ windows'[start] = windows[start]
    BY <1>0, <2>1, <2>2, <2>3 DEF Ingest
  <2>4. IsEvent(position) /\ position \in EventsOf(s0)
    BY <1>0, <1>1, <1>5 DEF IsEvent, EventsOf
  <2>5. \E S \in SUBSET EventsOf(s0) :
           /\ \A i \in S : i <= position - 1
           /\ Aggregate(S) = IF s0 \in DOMAIN windows THEN windows[s0] ELSE EmptyWindow
    <3>1. CASE s0 \in DOMAIN windows
      BY <1>1, <1>2, <3>1 DEF WindowsFromDistinctEvents, WindowDescribes
    <3>2. CASE s0 \notin DOMAIN windows
      <4>1. {} \in SUBSET EventsOf(s0)
        OBVIOUS
      <4> QED
        BY <3>2, <4>1, AggregateNone
    <3> QED
      BY <3>1, <3>2
  <2>6. PICK S \in SUBSET EventsOf(s0) :
           /\ \A i \in S : i <= position - 1
           /\ Aggregate(S) = IF s0 \in DOMAIN windows THEN windows[s0] ELSE EmptyWindow
    BY <2>5
  <2>7. S \in SUBSET DOMAIN log /\ (\A i \in S : i \in Nat) /\ position \notin S
    BY <1>1, <2>6 DEF EventsOf, TypeOK
  <2>8. Aggregate(S \cup {position}) = Counting(Aggregate(S), message.type)
    BY <1>0, <1>1, <2>4, <2>7, AggregateAdd DEF TypeOK
  <2>9. windows'[s0] = Counting(Aggregate(S), message.type)
    BY <1>0, <2>1, <2>2, <2>6 DEF Ingest
  <2>10. PICK T : T = S \cup {position}
    OBVIOUS
  <2>11. T \in (SUBSET EventsOf(s0)') \ {{}} /\ WindowDescribes(s0, T)'
    <3>1. T \in (SUBSET EventsOf(s0)) \ {{}}
      BY <2>4, <2>6, <2>10
    <3>2. \A i \in T : i <= Ingested'
      BY <1>1, <1>2, <2>6, <2>7, <2>10
    <3>3. Aggregate(T)' = Aggregate(T) /\ EventsOf(s0)' = EventsOf(s0)
      BY <1>1, LogStable
    <3> QED
      BY <2>8, <2>9, <2>10, <3>1, <3>2, <3>3 DEF WindowDescribes
  <2>12. ASSUME NEW start \in DOMAIN windows'
         PROVE  \E S1 \in (SUBSET EventsOf(start)') \ {{}} : WindowDescribes(start, S1)'
    BY <1>3, <2>3, <2>11
  <2> QED
    BY <2>12 DEF WindowsFromDistinctEvents
<1> QED
  BY <1>4, <1>5

\* Windows that stay what they were stay sound while their messages stay
\* ingested, and so do those an eviction leaves.
LEMMA WindowsKept ==
  ASSUME TypeOK, OffsetsOrdered, WindowsFromDistinctEvents,
         log' = log, Ingested <= Ingested', Ingested' \in Int,
         DOMAIN windows' \subseteq DOMAIN windows,
         \A s \in DOMAIN windows' : windows'[s] = windows[s]
  PROVE  WindowsFromDistinctEvents'
<1>1. ASSUME NEW start \in DOMAIN windows'
      PROVE  \E S \in (SUBSET EventsOf(start)') \ {{}} : WindowDescribes(start, S)'
  <2>1. PICK S \in (SUBSET EventsOf(start)) \ {{}} : WindowDescribes(start, S)
    BY DEF WindowsFromDistinctEvents
  <2>2. S \in (SUBSET EventsOf(start)') \ {{}} /\ Aggregate(S)' = Aggregate(S)
    BY LogStable
  <2>3. (\A i \in S : i \in Nat) /\ Ingested \in Int
    BY DEF EventsOf, TypeOK, Ingested
  <2> QED
    BY <2>1, <2>2, <2>3 DEF WindowDescribes
<1> QED
  BY <1>1 DEF WindowsFromDistinctEvents

\* The rows an upsert of sound windows leaves are sound: those of a buffered
\* window are replaced together, the others are what they were.
LEMMA UpsertSound ==
  ASSUME RowsInv, ~Rewound, log' = log,
         metrics' = Upsert(metrics, ComputeMetrics(windows))
  PROVE  RowsFromDistinctEvents'
<1>1. /\ TypeOK /\ IsTable(metrics) /\ IsWindowMap(windows)
      /\ WindowsFromDistinctEvents /\ RowsFromDistinctEvents
  BY DEF RowsInv, TypeOK
<1>2. DOMAIN ComputeMetrics(windows) = (DOMAIN windows) \X MetricNames
  BY <1>1, ComputeMetricsType
<1>3. /\ DOMAIN metrics' = DOMAIN metrics \cup ((DOMAIN windows) \X MetricNames)
      /\ \A key \in (DOMAIN windows) \X MetricNames :
           metrics'[key] = MetricValue(windows[key[1]], key[2])
      /\ \A key \in DOMAIN metrics :
           key \notin (DOMAIN windows) \X MetricNames => metrics'[key] = metrics[key]
  BY <1>2 DEF Upsert, ComputeMetrics
<1>4. ASSUME NEW key \in DOMAIN metrics'
      PROVE  \E S \in (SUBSET EventsOf(key[1])') \ {{}} : RowsDescribe(key[1], S)'
  <2>1. PICK start : start = key[1]
    OBVIOUS
  <2>2. CASE start \in DOMAIN windows
    <3>1. PICK S \in (SUBSET EventsOf(start)) \ {{}} : windows[start] = Aggregate(S)
      BY <1>1, <2>2 DEF WindowsFromDistinctEvents, WindowDescribes
    <3>2. \A metric \in MetricNames :
            /\ <<start, metric>> \in DOMAIN metrics'
            /\ metrics'[<<start, metric>>] = MetricValue(Aggregate(S), metric)
      BY <1>3, <2>2, <3>1
    <3>3. Aggregate(S)' = Aggregate(S) /\ EventsOf(start)' = EventsOf(start)
      BY LogStable
    <3>4. RowsDescribe(start, S)'
      BY <3>2, <3>3 DEF RowsDescribe, HasRows, MetricValue, EventsPerMinute, ConversionRate
    <3> QED
      BY <2>1, <3>1, <3>3, <3>4
  <2>3. CASE start \notin DOMAIN windows
    <3>1. key \in DOMAIN metrics
      BY <1>3, <2>1, <2>3
    <3>2. PICK S \in (SUBSET EventsOf(start)) \ {{}} : RowsDescribe(start, S)
      BY <1>1, <2>1, <3>1 DEF RowsFromDistinctEvents
    <3>3. Aggregate(S)' = Aggregate(S) /\ EventsOf(start)' = EventsOf(start)
      BY LogStable
    <3>4. RowsDescribe(start, S)'
      BY <1>3, <2>3, <3>2, <3>3 DEF RowsDescribe, HasRows, MetricValue, EventsPerMinute, ConversionRate
    <3> QED
      BY <2>1, <3>2, <3>3, <3>4
  <2> QED
    BY <2>2, <2>3
<1> QED
  BY <1>4 DEF RowsFromDistinctEvents

\* Rows nobody writes stay sound, whether the log stays or grows.
LEMMA RowsKept ==
  ASSUME RowsInv, ~Rewound, metrics' = metrics, log' = log \/ Publish
  PROVE  RowsFromDistinctEvents'
<1>1. TypeOK /\ RowsFromDistinctEvents
  BY DEF RowsInv
<1>2. /\ \A S \in SUBSET DOMAIN log : Aggregate(S)' = Aggregate(S)
      /\ \A start : EventsOf(start) \subseteq EventsOf(start)'
  BY <1>1, LogStable, PublishStable
<1>3. ASSUME NEW key \in DOMAIN metrics'
      PROVE  \E S \in (SUBSET EventsOf(key[1])') \ {{}} : RowsDescribe(key[1], S)'
  <2>1. PICK start : start = key[1]
    OBVIOUS
  <2>2. PICK S \in (SUBSET EventsOf(start)) \ {{}} : RowsDescribe(start, S)
    BY <1>1, <1>3, <2>1 DEF RowsFromDistinctEvents
  <2>3. S \in (SUBSET EventsOf(start)') \ {{}} /\ Aggregate(S)' = Aggregate(S)
    BY <1>2, <2>2 DEF EventsOf
  <2>4. RowsDescribe(start, S)'
    BY <2>2, <2>3 DEF RowsDescribe, HasRows, MetricValue, EventsPerMinute, ConversionRate
  <2> QED
    BY <2>1, <2>3, <2>4
<1> QED
  BY <1>3 DEF RowsFromDistinctEvents

\* Publishing leaves the windows what they are.
LEMMA WindowsKeptByPublish ==
  ASSUME TypeOK, WindowsFromDistinctEvents, Publish
  PROVE  WindowsFromDistinctEvents'
<1>1. windows' = windows /\ Ingested' = Ingested
  BY DEF Publish, processVars, Ingested
<1>2. ASSUME NEW start \in DOMAIN windows'
      PROVE  \E S \in (SUBSET EventsOf(start)') \ {{}} : WindowDescribes(start, S)'
  <2>1. PICK S \in (SUBSET EventsOf(start)) \ {{}} : WindowDescribes(start, S)
    BY <1>1 DEF WindowsFromDistinctEvents
  <2>2. S \in (SUBSET EventsOf(start)') \ {{}} /\ Aggregate(S)' = Aggregate(S)
    BY <2>1, PublishStable DEF EventsOf
  <2> QED
    BY <1>1, <2>1, <2>2 DEF WindowDescribes
<1> QED
  BY <1>2 DEF WindowsFromDistinctEvents

\* Every step keeps the invariant; only ingestion, flushes and exits touch the
\* windows, and only upserts touch the rows.
LEMMA RowsStep == RowsInv /\ [Next]_vars => RowsInv'
<1> SUFFICES ASSUME RowsInv, [Next]_vars PROVE RowsInv'
  OBVIOUS
<1>1. TypeOK /\ OffsetsOrdered /\ RowsFromDistinctEvents /\ (~Rewound => WindowsFromDistinctEvents)
  BY DEF RowsInv
<1>2. TypeOK' /\ OffsetsOrdered'
  BY <1>1, TypeStep, OffsetsStep
<1>3. CASE Rewound'
  BY <1>2, <1>3 DEF RowsInv, RowsFromDistinctEvents
<1>4. CASE ~Rewound'
  <2> SUFFICES WindowsFromDistinctEvents' /\ RowsFromDistinctEvents'
    BY <1>2 DEF RowsInv
  <2>0. Ingested \in Int /\ Ingested' \in Int
    BY <1>1, <1>2 DEF Ingested, TypeOK
  <2>1. CASE Publish
    <3>1. ~Rewound /\ metrics' = metrics
      BY <1>4, <2>1 DEF Rewound, Publish, historyVars
    <3> QED
      BY <1>1, <2>1, <3>1, WindowsKeptByPublish, RowsKept
  <2>2. CASE FlushBecomesDue \/ AutoCommit \/ PollNothing \/ SkipFlush \/ LeaveLoop
             \/ PollFails \/ Sigterm \/ UNCHANGED vars
    <3>1. /\ ~Rewound /\ metrics' = metrics /\ log' = log
          /\ windows' = windows /\ position' = position
          /\ pc' = "ingest" <=> pc = "ingest"
      BY <1>4, <2>2 DEF Rewound, FlushBecomesDue, AutoCommit, PollNothing, SkipFlush, LeaveLoop,
           PollFails, Sigterm, vars, durableVars, processVars, historyVars
    <3>2. Ingested' = Ingested
      BY <3>1 DEF Ingested
    <3> QED
      BY <1>1, <2>0, <3>1, <3>2, WindowsKept, RowsKept
  <2>3. CASE PollMessage
    <3>1. /\ ~Rewound /\ metrics' = metrics /\ log' = log /\ windows' = windows
          /\ pc = "poll" /\ pc' = "ingest" /\ position' = position + 1
      BY <1>4, <2>3 DEF Rewound, PollMessage, durableVars, historyVars
    <3>2. Ingested' = Ingested
      BY <1>1, <3>1 DEF Ingested, TypeOK
    <3> QED
      BY <1>1, <2>0, <3>1, <3>2, WindowsKept, RowsKept
  <2>4. CASE IngestMessage
    <3>1. ~Rewound /\ metrics' = metrics /\ log' = log
      BY <1>4, <2>4 DEF Rewound, IngestMessage, durableVars, historyVars
    <3> QED
      BY <2>4, <3>1, IngestSound, RowsKept
  <2>5. CASE Flush
    <3>1. /\ ~Rewound /\ log' = log /\ windows' = Evict(windows)
          /\ metrics' = Upsert(metrics, ComputeMetrics(windows))
          /\ pc # "ingest" /\ pc' # "ingest" /\ position' = position
      BY <1>4, <2>5 DEF Rewound, Flush, historyVars
    <3>2. Ingested' = Ingested
      BY <3>1 DEF Ingested
    <3>3. WindowsFromDistinctEvents'
      BY <1>1, <2>0, <3>1, <3>2, WindowsKept, EvictType DEF TypeOK
    <3> QED
      BY <3>1, <3>3, UpsertSound
  <2>6. CASE FinalFlush
    <3>1. /\ ~Rewound /\ log' = log /\ windows' = windows
          /\ metrics' = Upsert(metrics, ComputeMetrics(windows))
          /\ pc # "ingest" /\ pc' # "ingest" /\ position' = position
      BY <1>4, <2>6 DEF Rewound, FinalFlush, historyVars
    <3>2. Ingested' = Ingested
      BY <3>1 DEF Ingested
    <3> QED
      BY <1>1, <2>0, <3>1, <3>2, WindowsKept, UpsertSound
  <2>7. Exit => WindowsFromDistinctEvents'
    BY DEF Exit, NoWindows, WindowsFromDistinctEvents
  <2>8. CASE Close \/ Crash
    <3>1. ~Rewound /\ log' = log /\ metrics' = metrics /\ Exit
      BY <1>4, <2>8 DEF Rewound, Close, Crash, durableVars, historyVars
    <3> QED
      BY <2>7, <3>1, RowsKept
  <2>9. CASE Start
    <3>1. /\ ~Rewound /\ log' = log /\ metrics' = metrics
          /\ DOMAIN windows' = {}
      BY <1>1, <1>4, <2>9 DEF Rewound, Start, durableVars, OffsetsOrdered
    <3>2. WindowsFromDistinctEvents'
      BY <3>1 DEF WindowsFromDistinctEvents
    <3> QED
      BY <3>1, <3>2, RowsKept
  <2>10. CASE UpsertFails
    <3>1. /\ ~Rewound /\ log' = log /\ Exit
          /\ \/ metrics' = metrics
             \/ metrics' = Upsert(metrics, ComputeMetrics(windows))
      BY <1>4, <2>10 DEF Rewound, UpsertFails
    <3> QED
      BY <2>7, <3>1, RowsKept, UpsertSound
  <2>11. CASE LoseAssignment
    BY <1>1, <1>4, <2>11, LostAssignmentRewinds
  <2> QED
    BY <2>1, <2>2, <2>3, <2>4, <2>5, <2>6, <2>8, <2>9, <2>10, <2>11 DEF Next
<1> QED
  BY <1>3, <1>4

\* Whatever crashes, restarts, failed upserts and replays happen, and however
\* many windows, events and faults there are, the rows of a window are the two
\* metrics of one set of distinct messages published for it.
THEOREM RowsSound == Spec => []RowsFromDistinctEvents
<1>1. Init => RowsInv
  <2>1. Init => TypeOK
    BY InitType
  <2>2. Init => DOMAIN windows = {} /\ DOMAIN metrics = {}
    BY DEF Init, NoWindows, NoRows
  <2> QED
    BY <2>1, <2>2 DEF Init, RowsInv, OffsetsOrdered, WindowsFromDistinctEvents, RowsFromDistinctEvents
<1>2. RowsInv => RowsFromDistinctEvents
  BY DEF RowsInv
<1> QED
  BY <1>1, <1>2, RowsStep, PTL DEF Spec

-----------------------------------------------------------------------------
(* Bounded memory *)

\* A multiple of the window size compares as its factor does.
LEMMA FactorBound ==
  ASSUME NEW w \in Nat \ {0}, NEW j \in Int, NEW r \in Nat, j * w <= r * w
  PROVE  j <= r
<1> SUFFICES ASSUME j >= r + 1 PROVE FALSE
  OBVIOUS
<1>1. j * w >= (r + 1) * w
  OBVIOUS
<1>2. (r + 1) * w = r * w + w
  OBVIOUS
<1> QED
  BY <1>1, <1>2

\* Two numbers less than m apart differ modulo m.
LEMMA ResiduesDiffer ==
  ASSUME NEW m \in Nat \ {0}, NEW a \in Nat, NEW b \in Nat, a < b, b < a + m
  PROVE  a % m # b % m
<1>1. a = m * (a \div m) + (a % m) /\ b = m * (b \div m) + (b % m)
  OBVIOUS
<1>2. PICK p \in Int, q \in Int : p = a \div m /\ q = b \div m
  OBVIOUS
<1> SUFFICES ASSUME a % m = b % m PROVE FALSE
  OBVIOUS
<1>3. b - a = m * (q - p)
  BY <1>1, <1>2
<1>4. CASE q - p <= 0
  <2>1. m * (q - p) <= 0
    BY <1>4
  <2> QED
    BY <2>1, <1>3
<1>5. CASE q - p >= 1
  <2>1. m * (q - p) >= m
    BY <1>5
  <2> QED
    BY <2>1, <1>3
<1> QED
  BY <1>4, <1>5

\* The starts that survive an eviction are multiples of the window size at
\* most RetentionWindows windows apart: there are RetentionWindows + 1 at most.
LEMMA RetainedBound ==
  ASSUME NEW ws, IsWindowMap(ws)
  PROVE  /\ IsFiniteSet(Retained(ws))
         /\ Cardinality(Retained(ws)) <= RetentionWindows + 1
<1> DEFINE m == RetentionWindows + 1
           Factor(s) == s \div WindowSeconds
           residue == [s \in Retained(ws) |-> Factor(s) % m]
<1>0. WindowSeconds \in Nat \ {0} /\ RetentionWindows \in Nat /\ m \in Nat \ {0}
  BY WindowSecondsAssumption, RetentionWindowsAssumption
<1>1. ASSUME NEW s \in Retained(ws)
      PROVE  s \in Nat /\ Factor(s) \in Nat /\ s = Factor(s) * WindowSeconds
  <2>1. s \in WindowStarts
    BY DEF Retained, IsWindowMap
  <2>2. PICK ts \in Timestamps : s = (ts \div WindowSeconds) * WindowSeconds
    BY <2>1 DEF WindowStarts, WindowStart
  <2>3. PICK k \in Nat : k = ts \div WindowSeconds
    BY <1>0, TimestampsAssumption
  <2>4. s = k * WindowSeconds
    BY <2>2, <2>3
  <2>5. (k * WindowSeconds) \div WindowSeconds = k
    BY <1>0
  <2> QED
    BY <1>0, <2>4, <2>5
<1>2. ASSUME NEW s \in Retained(ws), NEW t \in Retained(ws), s < t
      PROVE  Factor(s) % m # Factor(t) % m
  <2>1. PICK j \in Nat, k \in Nat : j = Factor(s) /\ k = Factor(t)
    BY <1>1
  <2>2. s = j * WindowSeconds /\ t = k * WindowSeconds
    BY <1>1, <2>1
  <2>3. t - s <= RetentionWindows * WindowSeconds
    <3>1. s >= t - RetentionWindows * WindowSeconds
      BY DEF Retained
    <3>2. RetentionWindows * WindowSeconds \in Nat
      BY <1>0
    <3> QED
      BY <1>1, <3>1, <3>2
  <2>4. (k - j) * WindowSeconds <= RetentionWindows * WindowSeconds
    BY <1>0, <2>2, <2>3
  <2>5. k - j <= RetentionWindows
    BY <1>0, <2>4, FactorBound
  <2>6. j < k
    <3> SUFFICES ASSUME k <= j PROVE FALSE
      OBVIOUS
    <3>1. k * WindowSeconds <= j * WindowSeconds
      BY <1>0
    <3> QED
      BY <1>2, <1>1, <2>2, <3>1
  <2> QED
    BY <1>0, <2>1, <2>5, <2>6, ResiduesDiffer
<1>3. residue \in [Retained(ws) -> 0 .. RetentionWindows]
  BY <1>0, <1>1
<1>4. residue \in Injection(Retained(ws), 0 .. RetentionWindows)
  <2>1. ASSUME NEW s \in Retained(ws), NEW t \in Retained(ws), residue[s] = residue[t]
        PROVE  s = t
    <3>1. Factor(s) % m = Factor(t) % m
      BY <2>1
    <3>2. s \in Nat /\ t \in Nat
      BY <1>1
    <3> HIDE DEF Factor, m
    <3> QED
      BY <1>2, <3>1, <3>2
  <2> QED
    BY <1>3, <2>1 DEF Injection, IsInjective
<1>5. IsFiniteSet(0 .. RetentionWindows) /\ Cardinality(0 .. RetentionWindows) = RetentionWindows + 1
  BY <1>0, FS_Interval
<1> HIDE DEF residue
<1> QED
  BY <1>4, <1>5, FS_Injection

\* Every flush leaves at most RetentionWindows + 1 windows in memory, however
\* many windows the events since the last one had opened.
THEOREM MemoryBounded == Spec => FlushBoundsMemory
<1>1. TypeOK /\ [Next]_vars => [Flush => Cardinality(DOMAIN windows') <= RetentionWindows + 1]_vars
  <2>1. ASSUME TypeOK, Flush
        PROVE  Cardinality(DOMAIN windows') <= RetentionWindows + 1
    <3>1. IsWindowMap(windows) /\ windows' = Evict(windows)
      BY <2>1 DEF TypeOK, Flush
    <3>2. DOMAIN windows' = Retained(windows)
      BY <3>1 DEF Evict
    <3> QED
      BY <3>1, <3>2, RetainedBound
  <2> QED
    BY <2>1
<1> QED
  BY <1>1, TypeCorrect, PTL DEF Spec, FlushBoundsMemory

-----------------------------------------------------------------------------
(* What memory and rows know of the consumed messages: the invariant *)

\* The window of start has counted all that was consumed of it.
Exact(start) ==
  /\ start \in DOMAIN windows
  /\ windows[start] = Aggregate(ConsumedOf(start))

\* A window in memory has counted something, and only what this incarnation
\* consumed: this is why only consumed events push the retention horizon on.
WindowsFromConsumed ==
  \A start \in DOMAIN windows :
    \E messages \in (SUBSET ConsumedOf(start)) \ {{}} : windows[start] = Aggregate(messages)

\* A window that nothing newer has overtaken is exact in memory.
CurrentExact ==
  \A start \in WindowStarts :
    ConsumedOf(start) # {} /\ ~Overtaken(start) => Exact(start)

\* Before a late event comes, an overtaken window is still exact in memory, or
\* it was evicted and the rows of the same flush describe it.
ExactOrStored ==
  \A start \in WindowStarts :
    ConsumedOf(start) # {} /\ ~TooLate(start) =>
      \/ Exact(start)
      \/ start \notin DOMAIN windows /\ RowsDescribe(start, ConsumedOf(start))

\* In the first incarnation a stored rate counts only what was consumed.
RowsFromConsumed ==
  ~restarted =>
    /\ base = 0
    /\ \A start \in WindowStarts :
         HasRows(metrics, start) =>
           \E messages \in SUBSET ConsumedOf(start) :
             metrics[<<start, EVENTS_PER_MINUTE>>] = EventsPerMinute(Aggregate(messages))

\* What holds of memory and rows as long as no assignment was lost.
MemoryHolds ==
  /\ WindowsFromConsumed
  /\ pc # "down" => CurrentExact /\ ExactOrStored
  /\ CleanStopStoresAll
  /\ RowsFromConsumed

\* The inductive invariant.
MemoryInv ==
  /\ TypeOK
  /\ OffsetsOrdered
  /\ ~Rewound => MemoryHolds

\* How often a replay can have counted a message.
Rounds == 1 + rewinds

\* Before the current round, each event of a window was counted at most once
\* per round; in it, only the events consumed since the last rewind.
OvercountInv ==
  /\ TypeOK
  /\ OffsetsOrdered
  /\ \A start \in DOMAIN windows :
       windows[start].total <=
         (Rounds - 1) * Cardinality(EventsOf(start)) + Cardinality(ConsumedOf(start))
  /\ \A start \in WindowStarts :
       HasRows(metrics, start) =>
         \E n \in Nat :
           /\ n <= Rounds * Cardinality(EventsOf(start))
           /\ metrics[<<start, EVENTS_PER_MINUTE>>] = <<60 * n, WindowSeconds>>

-----------------------------------------------------------------------------
(* What was consumed *)

\* The consumed messages are messages of the log; what overtakes a window was
\* consumed, too.
LEMMA ConsumedType ==
  ASSUME TypeOK, OffsetsOrdered
  PROVE  /\ Ingested \in Int /\ Ingested <= Len(log)
         /\ base \in Nat /\ position \in Nat /\ Len(log) \in Nat
         /\ DOMAIN log = 1 .. Len(log)
         /\ \A start : ConsumedOf(start) \in SUBSET DOMAIN log
         /\ \A start : EventsOf(start) \in SUBSET DOMAIN log
<1>1. base \in Nat /\ position \in Nat /\ Len(log) \in Nat /\ DOMAIN log = 1 .. Len(log)
  BY DEF TypeOK
<1>2. Ingested \in Int /\ Ingested <= Len(log)
  BY <1>1 DEF OffsetsOrdered, Ingested
<1> QED
  BY <1>1, <1>2 DEF ConsumedOf, EventsOf

\* While the last ingested message stays the same, and no process begins, the
\* same messages are consumed and the same windows overtaken, whatever else is
\* published.
LEMMA ConsumedStable ==
  ASSUME TypeOK, OffsetsOrdered, log' = log \/ Publish, base' = base, Ingested' = Ingested
  PROVE  /\ \A start : ConsumedOf(start)' = ConsumedOf(start)
         /\ \A start : Overtaken(start)' <=> Overtaken(start)
         /\ \A start : TooLate(start)' <=> TooLate(start)
         /\ \A S \in SUBSET DOMAIN log : Aggregate(S)' = Aggregate(S)
<1>1. /\ Len(log) \in Nat /\ DOMAIN log = 1 .. Len(log)
      /\ base \in Nat /\ Ingested \in Int /\ Ingested <= Len(log)
  BY ConsumedType
<1>2. DOMAIN log \subseteq DOMAIN log' /\ DOMAIN log' \subseteq Nat
  <2>1. CASE log' = log
    BY <1>1, <2>1
  <2>2. CASE Publish
    <3>1. PICK message \in Message : log' = Append(log, message)
      BY <2>2 DEF Publish, PublishMessage
    <3>2. log' \in Seq(Message) /\ Len(log') = Len(log) + 1
      BY <3>1 DEF TypeOK
    <3>3. DOMAIN log' = 1 .. Len(log) + 1
      BY <3>2
    <3> QED
      BY <1>1, <3>3
  <2> QED
    BY <2>1, <2>2
<1>3. \A i \in DOMAIN log : log'[i] = log[i]
  <2>1. CASE Publish
    <3>1. PICK message \in Message : log' = Append(log, message)
      BY <2>1 DEF Publish, PublishMessage
    <3> QED
      BY <3>1 DEF TypeOK
  <2> QED
    BY <2>1
<1>4. ASSUME NEW start
      PROVE  ConsumedOf(start)' = ConsumedOf(start)
  BY <1>1, <1>2, <1>3 DEF ConsumedOf, EventsOf, IsEvent
<1>5. \A i \in base + 1 .. Ingested : i \in DOMAIN log
  BY <1>1
<1>6. \A start : \A i \in base + 1 .. Ingested : Overtakes(i, start)' <=> Overtakes(i, start)
  BY <1>3, <1>5 DEF Overtakes, IsEvent
<1>7. ASSUME NEW start
      PROVE  Overtaken(start)' <=> Overtaken(start)
  BY <1>6 DEF Overtaken
<1>8. ASSUME NEW start
      PROVE  TooLate(start)' <=> TooLate(start)
  BY <1>4, <1>6 DEF TooLate
<1>9. \A S \in SUBSET DOMAIN log : Aggregate(S)' = Aggregate(S)
  BY LogStable, PublishStable
<1> QED
  BY <1>4, <1>7, <1>8, <1>9

\* Ending a message's ingestion makes it consumed, of its own window only.  A
\* window it overtakes, or is too late for, stays so.
LEMMA ConsumedGrows ==
  ASSUME TypeOK, OffsetsOrdered, log' = log, base' = base,
         pc = "ingest", pc' # "ingest", position' = position
  PROVE  /\ position \in DOMAIN log /\ base < position
         /\ Ingested = position - 1 /\ Ingested' = position
         /\ \A start : position \in EventsOf(start) =>
              ConsumedOf(start)' = ConsumedOf(start) \cup {position}
         /\ \A start : position \notin EventsOf(start) => ConsumedOf(start)' = ConsumedOf(start)
         /\ \A start : position \notin ConsumedOf(start)
         /\ \A start : Overtaken(start) => Overtaken(start)'
         /\ \A start : TooLate(start) => TooLate(start)'
         /\ \A S : Aggregate(S)' = Aggregate(S)
<1>1. /\ Len(log) \in Nat /\ DOMAIN log = 1 .. Len(log)
      /\ base \in Nat /\ position \in Nat
      /\ base < position /\ position <= Len(log)
  BY ConsumedType DEF OffsetsOrdered
<1>2. Ingested = position - 1 /\ Ingested' = position
  BY DEF Ingested
<1>3. \A start : EventsOf(start)' = EventsOf(start)
  BY LogStable
<1>4. \A start : \A i \in EventsOf(start) : i \in Nat
  BY <1>1 DEF EventsOf
<1>5. ASSUME NEW start
      PROVE  /\ position \in EventsOf(start) =>
                  ConsumedOf(start)' = ConsumedOf(start) \cup {position}
             /\ position \notin EventsOf(start) => ConsumedOf(start)' = ConsumedOf(start)
             /\ position \notin ConsumedOf(start)
             /\ ConsumedOf(start) \subseteq ConsumedOf(start)'
  BY <1>1, <1>2, <1>3, <1>4 DEF ConsumedOf
<1>6. \A i, start : Overtakes(i, start)' <=> Overtakes(i, start)
  BY DEF Overtakes, IsEvent
<1>7. base + 1 .. Ingested \subseteq base + 1 .. Ingested'
  BY <1>1, <1>2
<1>8. ASSUME NEW start
      PROVE  Overtaken(start) => Overtaken(start)'
  BY <1>6, <1>7 DEF Overtaken
<1>9. ASSUME NEW start
      PROVE  TooLate(start) => TooLate(start)'
  BY <1>5, <1>6, <1>7 DEF TooLate
<1> QED
  BY <1>1, <1>2, <1>5, <1>8, <1>9, LogStable

\* What a row of MetricNames is, spelled out.
LEMMA RowsDescribeStable ==
  ASSUME NEW start, NEW S, RowsDescribe(start, S), Aggregate(S)' = Aggregate(S),
         \A metric \in MetricNames :
           /\ <<start, metric>> \in DOMAIN metrics'
           /\ metrics'[<<start, metric>>] = metrics[<<start, metric>>]
  PROVE  RowsDescribe(start, S)'
  BY DEF RowsDescribe, HasRows, MetricValue, EventsPerMinute, ConversionRate

\* What an upsert of the buffered windows leaves in the table.
LEMMA UpsertWrites ==
  ASSUME TypeOK, metrics' = Upsert(metrics, ComputeMetrics(windows))
  PROVE  /\ \A start \in DOMAIN windows, metric \in MetricNames :
              /\ <<start, metric>> \in DOMAIN metrics'
              /\ metrics'[<<start, metric>>] = MetricValue(windows[start], metric)
         /\ \A start, metric : start \notin DOMAIN windows =>
              /\ <<start, metric>> \in DOMAIN metrics' <=> <<start, metric>> \in DOMAIN metrics
              /\ <<start, metric>> \in DOMAIN metrics =>
                   metrics'[<<start, metric>>] = metrics[<<start, metric>>]
<1>1. IsWindowMap(windows)
  BY DEF TypeOK
<1>2. DOMAIN ComputeMetrics(windows) = (DOMAIN windows) \X MetricNames
  BY <1>1, ComputeMetricsType
<1>3. \A key \in (DOMAIN windows) \X MetricNames :
        ComputeMetrics(windows)[key] = MetricValue(windows[key[1]], key[2])
  BY DEF ComputeMetrics
<1>4. /\ DOMAIN metrics' = DOMAIN metrics \cup ((DOMAIN windows) \X MetricNames)
      /\ \A key \in (DOMAIN windows) \X MetricNames :
           metrics'[key] = MetricValue(windows[key[1]], key[2])
      /\ \A key \in DOMAIN metrics :
           key \notin (DOMAIN windows) \X MetricNames => metrics'[key] = metrics[key]
  BY <1>2, <1>3 DEF Upsert
<1> QED
  BY <1>4

-----------------------------------------------------------------------------
(* Memory is exact *)

\* Steps that neither end an ingestion nor touch windows or rows keep it all.
LEMMA MemoryKeptByQuiet ==
  ASSUME MemoryInv, ~Rewound, ~Rewound', log' = log \/ Publish, base' = base, Ingested' = Ingested,
         windows' = windows, metrics' = metrics, restarted' = restarted,
         pc' = "close" => pc = "close", pc = "down" => pc' = "down"
  PROVE  MemoryHolds'
<1>1. TypeOK /\ OffsetsOrdered /\ MemoryHolds
  BY DEF MemoryInv
<1>2. /\ \A start : ConsumedOf(start)' = ConsumedOf(start)
      /\ \A start : Overtaken(start)' <=> Overtaken(start)
      /\ \A start : TooLate(start)' <=> TooLate(start)
      /\ \A S \in SUBSET DOMAIN log : Aggregate(S)' = Aggregate(S)
      /\ \A start : ConsumedOf(start) \in SUBSET DOMAIN log
  BY <1>1, ConsumedStable, ConsumedType
<1>3. \A start : Exact(start) => Exact(start)'
  BY <1>2 DEF Exact
<1>4. ASSUME NEW start, RowsDescribe(start, ConsumedOf(start))
      PROVE  RowsDescribe(start, ConsumedOf(start))'
  BY <1>2, <1>4 DEF RowsDescribe, HasRows, MetricValue, EventsPerMinute, ConversionRate
<1>5. WindowsFromConsumed'
  <2>1. ASSUME NEW start \in DOMAIN windows
        PROVE  \E S \in (SUBSET ConsumedOf(start)) \ {{}} : windows[start] = Aggregate(S)'
    <3>1. PICK S \in (SUBSET ConsumedOf(start)) \ {{}} : windows[start] = Aggregate(S)
      BY <1>1 DEF MemoryHolds, WindowsFromConsumed
    <3>2. S \in SUBSET DOMAIN log
      BY <1>2, <3>1
    <3>3. Aggregate(S)' = Aggregate(S)
      BY <1>2, <3>2
    <3> QED
      BY <3>1, <3>3
  <2> QED
    BY <1>2, <2>1 DEF WindowsFromConsumed
<1>6. pc' # "down" => CurrentExact' /\ ExactOrStored'
  BY <1>1, <1>2, <1>3, <1>4 DEF MemoryHolds, CurrentExact, ExactOrStored
<1>7. CleanStopStoresAll'
  BY <1>1, <1>2, <1>4 DEF MemoryHolds, CleanStopStoresAll
<1>8. RowsFromConsumed'
  <2>1. ASSUME NEW start \in WindowStarts, ~restarted, HasRows(metrics, start)
        PROVE  \E S \in SUBSET ConsumedOf(start) :
                  metrics[<<start, EVENTS_PER_MINUTE>>] = EventsPerMinute(Aggregate(S)')
    <3>1. PICK S \in SUBSET ConsumedOf(start) :
             metrics[<<start, EVENTS_PER_MINUTE>>] = EventsPerMinute(Aggregate(S))
      BY <1>1, <2>1 DEF MemoryHolds, RowsFromConsumed
    <3>2. Aggregate(S)' = Aggregate(S)
      BY <1>2, <3>1
    <3> QED
      BY <3>1, <3>2
  <2>2. \A S : EventsPerMinute(Aggregate(S))' = EventsPerMinute(Aggregate(S)')
    BY DEF EventsPerMinute
  <2> QED
    BY <1>1, <1>2, <2>1, <2>2 DEF MemoryHolds, RowsFromConsumed, HasRows
<1> QED
  BY <1>5, <1>6, <1>7, <1>8 DEF MemoryHolds

\* Folding in the message in hand keeps windows exact: a window opened by it
\* had nothing consumed, or was overtaken before.
LEMMA MemoryKeptByIngest ==
  ASSUME MemoryInv, ~Rewound, IngestMessage
  PROVE  MemoryHolds'
<1>0. PICK message, s0 : message = log[position] /\ s0 = WindowStart(message.ts)
  OBVIOUS
<1>1. /\ TypeOK /\ OffsetsOrdered /\ MemoryHolds /\ WindowsFromConsumed
      /\ CurrentExact /\ ExactOrStored /\ RowsFromConsumed /\ IsWindowMap(windows)
  BY DEF MemoryInv, MemoryHolds, IngestMessage, TypeOK
<1>2. /\ log' = log /\ base' = base /\ position' = position /\ pc = "ingest" /\ metrics' = metrics
      /\ pc' \in {"check", "finally"} /\ restarted' = restarted /\ Rewound' = Rewound
  BY DEF Rewound, IngestMessage, durableVars, historyVars
<1>3. /\ position \in DOMAIN log /\ base < position
      /\ Ingested = position - 1 /\ Ingested' = position
      /\ \A start : position \in EventsOf(start) =>
              ConsumedOf(start)' = ConsumedOf(start) \cup {position}
      /\ \A start : position \notin EventsOf(start) => ConsumedOf(start)' = ConsumedOf(start)
      /\ \A start : position \notin ConsumedOf(start)
      /\ \A start : Overtaken(start) => Overtaken(start)'
      /\ \A start : TooLate(start) => TooLate(start)'
      /\ \A S : Aggregate(S)' = Aggregate(S)
  BY <1>1, <1>2, ConsumedGrows
<1>4. \A start : ConsumedOf(start) \subseteq ConsumedOf(start)'
  BY <1>3
<1>5. \A start : ConsumedOf(start) \in SUBSET DOMAIN log
  BY <1>1, ConsumedType
<1>6. ASSUME NEW start, ConsumedOf(start)' = ConsumedOf(start), RowsDescribe(start, ConsumedOf(start))
      PROVE  RowsDescribe(start, ConsumedOf(start))'
  BY <1>2, <1>3, <1>6 DEF RowsDescribe, HasRows, MetricValue, EventsPerMinute, ConversionRate
<1>7. RowsFromConsumed'
  <2>1. \A S : EventsPerMinute(Aggregate(S))' = EventsPerMinute(Aggregate(S))
    BY <1>3 DEF EventsPerMinute
  <2>2. \A start : HasRows(metrics, start)' <=> HasRows(metrics, start)
    BY <1>2 DEF HasRows
  <2> QED
    BY <1>1, <1>2, <1>4, <2>1, <2>2 DEF RowsFromConsumed
<1>8. CleanStopStoresAll'
  BY <1>2 DEF CleanStopStoresAll
<1>9. CASE message \notin Event
  <2>1. windows' = windows
    BY <1>0, <1>9 DEF IngestMessage
  <2>2. \A start : position \notin EventsOf(start)
    BY <1>0, <1>9 DEF EventsOf, IsEvent
  <2>3. \A start : Exact(start) => Exact(start)'
    BY <1>3, <2>1, <2>2 DEF Exact
  <2>4. WindowsFromConsumed'
    BY <1>1, <1>3, <2>1, <2>2 DEF WindowsFromConsumed
  <2>5. CurrentExact'
    BY <1>1, <1>3, <2>2, <2>3 DEF CurrentExact
  <2>6. ExactOrStored'
    BY <1>1, <1>3, <1>6, <2>1, <2>2, <2>3 DEF ExactOrStored
  <2> QED
    BY <1>7, <1>8, <2>4, <2>5, <2>6 DEF MemoryHolds
<1>10. CASE message \in Event
  <2>1. windows' = Ingest(windows, message)
    BY <1>0, <1>10, MessageAssumption DEF IngestMessage
  <2>2. DOMAIN windows' = DOMAIN windows \cup {s0} /\ s0 \in WindowStarts
    BY <1>0, <1>1, <1>10, <2>1, IngestType, WindowStartType DEF Event
  <2>3. \A start \in DOMAIN windows : start # s0 => windows'[start] = windows[start]
    BY <1>0, <2>1, <2>2 DEF Ingest
  <2>4. IsEvent(position) /\ position \in EventsOf(s0)
    BY <1>0, <1>3, <1>10 DEF IsEvent, EventsOf
  <2>5. \A start : start # s0 => position \notin EventsOf(start)
    BY <1>0 DEF EventsOf
  \* What the window had counted, none of which is the message in hand.
  <2>6. ASSUME NEW S \in SUBSET ConsumedOf(s0),
               IF s0 \in DOMAIN windows THEN windows[s0] = Aggregate(S) ELSE S = {}
        PROVE  windows'[s0] = Aggregate(S \cup {position})
    <3>1. (IF s0 \in DOMAIN windows THEN windows[s0] ELSE EmptyWindow) = Aggregate(S)
      BY <2>6, AggregateNone
    <3>2. windows'[s0] = Counting(Aggregate(S), message.type)
      BY <1>0, <2>1, <2>2, <3>1 DEF Ingest
    <3>3. S \in SUBSET DOMAIN log /\ position \notin S
      BY <1>3, <1>5, <2>6
    <3>4. Aggregate(S \cup {position}) = Counting(Aggregate(S), log[position].type)
      BY <1>1, <1>3, <2>4, <3>3, AggregateAdd DEF TypeOK
    <3> QED
      BY <1>0, <3>2, <3>4
  <2>7. ConsumedOf(s0)' = ConsumedOf(s0) \cup {position}
    BY <1>3, <2>4
  <2>8. \A start : start # s0 => ConsumedOf(start)' = ConsumedOf(start)
    BY <1>3, <2>5
  <2>9. \A start : start # s0 /\ Exact(start) => Exact(start)'
    BY <1>3, <2>2, <2>3, <2>8 DEF Exact
  <2>10. ASSUME ConsumedOf(s0) # {} => Exact(s0), s0 \in DOMAIN windows => ConsumedOf(s0) # {}
         PROVE  Exact(s0)'
    <3>2. IF s0 \in DOMAIN windows THEN windows[s0] = Aggregate(ConsumedOf(s0)) ELSE ConsumedOf(s0) = {}
      BY <2>10 DEF Exact
    <3>3. windows'[s0] = Aggregate(ConsumedOf(s0) \cup {position})
      BY <2>6, <3>2
    <3> QED
      BY <1>3, <2>2, <2>7, <3>3 DEF Exact
  <2>11. s0 \in DOMAIN windows => ConsumedOf(s0) # {}
    BY <1>1 DEF WindowsFromConsumed
  <2>12. ~Overtaken(s0) => Exact(s0)'
    BY <1>1, <2>2, <2>10, <2>11 DEF CurrentExact, Exact
  <2>13. WindowsFromConsumed'
    <3>1. ASSUME NEW start \in DOMAIN windows'
          PROVE  \E S \in (SUBSET ConsumedOf(start)') \ {{}} : windows'[start] = Aggregate(S)
      <4>1. CASE start # s0
        BY <1>1, <2>2, <2>3, <2>8, <4>1 DEF WindowsFromConsumed
      <4>2. CASE start = s0
        <5>1. PICK S \in SUBSET ConsumedOf(s0) :
                 IF s0 \in DOMAIN windows THEN windows[s0] = Aggregate(S) ELSE S = {}
          BY <1>1 DEF WindowsFromConsumed
        <5>2. windows'[s0] = Aggregate(S \cup {position})
          BY <2>6, <5>1
        <5>3. S \cup {position} \in (SUBSET ConsumedOf(s0)') \ {{}}
          BY <2>7
        <5> QED
          BY <4>2, <5>2, <5>3
      <4> QED
        BY <4>1, <4>2
    <3> QED
      BY <1>3, <3>1 DEF WindowsFromConsumed
  <2>14. CurrentExact'
    <3>1. ASSUME NEW start \in WindowStarts, ConsumedOf(start)' # {}, ~Overtaken(start)'
          PROVE  Exact(start)'
      BY <1>1, <1>3, <2>8, <2>9, <2>12, <3>1 DEF CurrentExact
    <3> QED
      BY <3>1 DEF CurrentExact
  \* An event that is not too late finds its window not overtaken.
  <2>15. ~TooLate(s0)' => ~Overtaken(s0)
    <3>1. SUFFICES ASSUME Overtaken(s0) PROVE TooLate(s0)'
      OBVIOUS
    <3>2. PICK i \in base + 1 .. Ingested : Overtakes(i, s0)
      BY <3>1 DEF Overtaken
    <3>3. base \in Nat /\ position \in Nat
      BY <1>1, ConsumedType
    <3>4. i \in base + 1 .. position /\ i < position /\ base' = base /\ Ingested' = position
      BY <1>2, <1>3, <3>2, <3>3
    <3>5. Overtakes(i, s0)'
      BY <1>2, <3>2 DEF Overtakes, IsEvent
    <3>6. position \in ConsumedOf(s0)'
      BY <2>7
    <3> QED
      BY <3>4, <3>5, <3>6 DEF TooLate
  <2>16. ExactOrStored'
    <3>1. ASSUME NEW start \in WindowStarts, ConsumedOf(start)' # {}, ~TooLate(start)'
          PROVE  \/ Exact(start)'
                 \/ start \notin DOMAIN windows' /\ RowsDescribe(start, ConsumedOf(start))'
      <4>1. CASE start = s0
        BY <2>12, <2>15, <3>1, <4>1
      <4>2. CASE start # s0
        <5>1. Exact(start) \/ (start \notin DOMAIN windows /\ RowsDescribe(start, ConsumedOf(start)))
          BY <1>1, <1>3, <2>8, <3>1, <4>2 DEF ExactOrStored
        <5> QED
          BY <1>6, <2>2, <2>8, <2>9, <4>2, <5>1
      <4> QED
        BY <4>1, <4>2
    <3> QED
      BY <3>1 DEF ExactOrStored
  <2> QED
    BY <1>7, <1>8, <2>13, <2>14, <2>16 DEF MemoryHolds
<1> QED
  BY <1>9, <1>10

\* Upserts and exits leave rows of consumed messages only.
LEMMA RowsFromConsumedKept ==
  ASSUME TypeOK, OffsetsOrdered, WindowsFromConsumed, RowsFromConsumed,
         log' = log, base' = base, restarted' = restarted,
         Ingested' \in Int, Ingested <= Ingested',
         metrics' = metrics \/ metrics' = Upsert(metrics, ComputeMetrics(windows))
  PROVE  RowsFromConsumed'
<1>1. \A start : ConsumedOf(start) \subseteq ConsumedOf(start)'
  <2>1. /\ DOMAIN log = 1 .. Len(log) /\ Len(log) \in Nat /\ Ingested \in Int
        /\ \A start : EventsOf(start) \subseteq DOMAIN log
    BY ConsumedType
  <2>2. \A start : EventsOf(start)' = EventsOf(start)
    BY LogStable
  <2> QED
    BY <2>1, <2>2 DEF ConsumedOf
<1>2. ASSUME NEW start \in WindowStarts, ~restarted, HasRows(metrics, start)'
      PROVE  \E S \in SUBSET ConsumedOf(start) :
               metrics'[<<start, EVENTS_PER_MINUTE>>] = EventsPerMinute(Aggregate(S))
  <2>1. CASE HasRows(metrics, start) /\ metrics' = metrics
    BY <1>2, <2>1 DEF RowsFromConsumed
  <2>2. CASE HasRows(metrics, start) /\ start \notin DOMAIN windows
                 /\ metrics' = Upsert(metrics, ComputeMetrics(windows))
    <3>1. metrics'[<<start, EVENTS_PER_MINUTE>>] = metrics[<<start, EVENTS_PER_MINUTE>>]
      BY <2>2, UpsertWrites DEF HasRows, MetricNames
    <3> QED
      BY <1>2, <2>2, <3>1 DEF RowsFromConsumed
  <2>3. CASE start \in DOMAIN windows /\ metrics' = Upsert(metrics, ComputeMetrics(windows))
    <3>1. PICK S \in SUBSET ConsumedOf(start) : windows[start] = Aggregate(S)
      BY <2>3 DEF WindowsFromConsumed
    <3>2. metrics'[<<start, EVENTS_PER_MINUTE>>] = MetricValue(windows[start], EVENTS_PER_MINUTE)
      BY <2>3, UpsertWrites DEF MetricNames
    <3> QED
      BY <3>1, <3>2 DEF MetricValue
  <2>4. HasRows(metrics, start) \/ start \in DOMAIN windows
    <3>1. SUFFICES ASSUME start \notin DOMAIN windows PROVE HasRows(metrics, start)
      OBVIOUS
    <3>2. \A metric \in MetricNames : <<start, metric>> \in DOMAIN metrics'
      BY <1>2 DEF HasRows
    <3>3. \A metric \in MetricNames : <<start, metric>> \in DOMAIN metrics
      BY <3>1, <3>2, UpsertWrites
    <3> QED
      BY <3>3 DEF HasRows
  <2>5. metrics' = metrics => HasRows(metrics, start)
    BY <1>2 DEF HasRows
  <2> QED
    BY <2>1, <2>2, <2>3, <2>4, <2>5
<1>3. \A S : EventsPerMinute(Aggregate(S))' = EventsPerMinute(Aggregate(S))
  BY LogStable DEF EventsPerMinute
<1> QED
  BY <1>1, <1>2, <1>3 DEF RowsFromConsumed, HasRows

\* What is evicted was overtaken by a consumed event: the newest window has one.
LEMMA EvictedOvertaken ==
  ASSUME TypeOK, OffsetsOrdered, WindowsFromConsumed,
         NEW start \in DOMAIN windows, start \notin DOMAIN Evict(windows)
  PROVE  Overtaken(start)
<1>1. PICK newest \in DOMAIN windows : ~(start >= newest - RetentionWindows * WindowSeconds)
  BY DEF Evict, Retained
<1>2. start \in Int /\ newest \in Int /\ RetentionWindows * WindowSeconds \in Int
  BY WindowStartType, WindowSecondsAssumption, RetentionWindowsAssumption DEF TypeOK, IsWindowMap
<1>3. PICK S \in (SUBSET ConsumedOf(newest)) \ {{}} : windows[newest] = Aggregate(S)
  BY DEF WindowsFromConsumed
<1>4. PICK i \in S : TRUE
  BY <1>3
<1>5. i \in EventsOf(newest) /\ base < i /\ i <= Ingested
  BY <1>3, <1>4 DEF ConsumedOf
<1>6. /\ EventsOf(newest) \in SUBSET DOMAIN log /\ DOMAIN log = 1 .. Len(log) /\ Len(log) \in Nat
      /\ base \in Nat /\ Ingested \in Int
  BY ConsumedType
<1>7. i \in base + 1 .. Ingested
  BY <1>5, <1>6
<1>8. Overtakes(i, start)
  BY <1>1, <1>2, <1>5 DEF Overtakes, EventsOf
<1> QED
  BY <1>7, <1>8 DEF Overtaken

\* An upsert stores what was exact in memory, so that eviction loses nothing.
LEMMA MemoryKeptByUpsert ==
  ASSUME MemoryInv, ~Rewound, ~Rewound', pc # "down", log' = log, base' = base,
         Ingested' = Ingested, restarted' = restarted,
         metrics' = Upsert(metrics, ComputeMetrics(windows)),
         windows' = windows \/ windows' = Evict(windows)
  PROVE  MemoryHolds'
<1>1. /\ TypeOK /\ OffsetsOrdered /\ WindowsFromConsumed /\ CurrentExact /\ ExactOrStored
      /\ RowsFromConsumed /\ IsWindowMap(windows)
  BY DEF MemoryInv, MemoryHolds, TypeOK
<1>2. /\ \A start : ConsumedOf(start)' = ConsumedOf(start)
      /\ \A start : Overtaken(start)' <=> Overtaken(start)
      /\ \A start : TooLate(start)' <=> TooLate(start)
      /\ \A S : Aggregate(S)' = Aggregate(S)
  BY <1>1, ConsumedStable, LogStable
<1>3. /\ DOMAIN windows' \subseteq DOMAIN windows
      /\ \A start \in DOMAIN windows' : windows'[start] = windows[start]
      /\ \A start \in DOMAIN windows : start \notin DOMAIN windows' => Overtaken(start)
  BY <1>1, EvictType, EvictedOvertaken
<1>4. WindowsFromConsumed'
  BY <1>1, <1>2, <1>3 DEF WindowsFromConsumed
<1>5. CurrentExact'
  BY <1>1, <1>2, <1>3 DEF CurrentExact, Exact
<1>6. ASSUME NEW start \in WindowStarts, ConsumedOf(start) # {}, ~TooLate(start)
      PROVE  RowsDescribe(start, ConsumedOf(start))'
  <2>1. \A metric \in MetricNames :
          /\ <<start, metric>> \in DOMAIN metrics'
          /\ metrics'[<<start, metric>>] = MetricValue(Aggregate(ConsumedOf(start)), metric)
    <3>1. CASE Exact(start)
      BY <1>1, <3>1, UpsertWrites DEF Exact
    <3>2. CASE start \notin DOMAIN windows /\ RowsDescribe(start, ConsumedOf(start))
      BY <1>1, <3>2, UpsertWrites DEF RowsDescribe, HasRows
    <3> QED
      BY <1>1, <1>6, <3>1, <3>2 DEF ExactOrStored
  <2> QED
    BY <1>2, <2>1 DEF RowsDescribe, HasRows, MetricValue, EventsPerMinute, ConversionRate
<1>7. CleanStopStoresAll'
  BY <1>2, <1>6 DEF CleanStopStoresAll
<1>8. ExactOrStored'
  <2>1. ASSUME NEW start \in WindowStarts, ConsumedOf(start) # {}, ~TooLate(start),
               start \in DOMAIN windows'
        PROVE  Exact(start)'
    BY <1>1, <1>2, <1>3, <2>1 DEF ExactOrStored, Exact
  <2> QED
    BY <1>2, <1>6, <2>1 DEF ExactOrStored
<1>9. RowsFromConsumed'
  <2>1. Ingested \in Int /\ Ingested' \in Int /\ Ingested <= Ingested'
    BY <1>1, ConsumedType
  <2> QED
    BY <1>1, <2>1, RowsFromConsumedKept
<1> QED
  BY <1>4, <1>5, <1>7, <1>8, <1>9 DEF MemoryHolds

\* A process that ends keeps the promise about the rows, and takes all windows
\* with it, whether or not its last upsert took effect.
LEMMA MemoryKeptByExit ==
  ASSUME MemoryInv, ~Rewound, Exit, log' = log, base' = base, restarted' = restarted,
         metrics' = metrics \/ metrics' = Upsert(metrics, ComputeMetrics(windows))
  PROVE  MemoryHolds'
<1>1. TypeOK /\ OffsetsOrdered /\ WindowsFromConsumed /\ RowsFromConsumed
  BY DEF MemoryInv, MemoryHolds
<1>2. pc' = "down" /\ DOMAIN windows' = {} /\ position' = position
  BY DEF Exit, NoWindows
<1>3. Ingested' \in Int /\ Ingested <= Ingested'
  BY <1>1, <1>2 DEF Ingested, TypeOK
<1>4. RowsFromConsumed'
  BY <1>1, <1>3, RowsFromConsumedKept
<1> QED
  BY <1>2, <1>4 DEF MemoryHolds, WindowsFromConsumed, CleanStopStoresAll

\* A new incarnation has consumed nothing.
LEMMA MemoryKeptByStart ==
  ASSUME MemoryInv, Start
  PROVE  MemoryHolds'
<1>1. TypeOK /\ OffsetsOrdered
  BY DEF MemoryInv
<1>2. /\ pc' = "poll" /\ position' = committed /\ base' = committed /\ restarted' /\ log' = log
      /\ DOMAIN windows' = {} /\ committed \in Nat
  BY <1>1 DEF Start, durableVars, OffsetsOrdered, TypeOK
<1>3. \A start : ConsumedOf(start)' = {}
  <2>1. Ingested' = committed
    BY <1>2 DEF Ingested
  <2>2. \A start : \A i \in EventsOf(start)' : i \in Nat
    BY <1>1, <1>2, LogStable, ConsumedType
  <2> QED
    BY <1>2, <2>1, <2>2 DEF ConsumedOf
<1> QED
  BY <1>2, <1>3 DEF MemoryHolds, WindowsFromConsumed, CurrentExact, ExactOrStored,
       CleanStopStoresAll, RowsFromConsumed

\* Every step keeps what memory and rows know.
LEMMA MemoryStep == MemoryInv /\ [Next]_vars => MemoryInv'
<1> SUFFICES ASSUME MemoryInv, [Next]_vars PROVE MemoryInv'
  OBVIOUS
<1>1. TypeOK /\ OffsetsOrdered
  BY DEF MemoryInv
<1>2. TypeOK' /\ OffsetsOrdered'
  BY <1>1, TypeStep, OffsetsStep
<1> SUFFICES ASSUME ~Rewound' PROVE MemoryHolds'
  BY <1>2 DEF MemoryInv
<1>3. CASE Publish \/ FlushBecomesDue \/ AutoCommit \/ PollMessage \/ PollNothing \/ SkipFlush
             \/ LeaveLoop \/ PollFails \/ Sigterm \/ UNCHANGED vars
  <2>1. /\ ~Rewound /\ metrics' = metrics /\ windows' = windows /\ base' = base
        /\ restarted' = restarted /\ (log' = log \/ Publish)
        /\ pc' = "close" => pc = "close"
        /\ pc = "down" => pc' = "down"
    BY <1>3 DEF Rewound, Publish, FlushBecomesDue, AutoCommit, PollMessage, PollNothing, SkipFlush,
         LeaveLoop, PollFails, Sigterm, vars, durableVars, processVars, historyVars
  <2>2. Ingested' = Ingested
    <3>1. CASE PollMessage
      BY <1>1, <3>1 DEF PollMessage, Ingested, TypeOK
    <3>2. CASE ~PollMessage
      <4>1. position' = position /\ (pc' = "ingest" <=> pc = "ingest")
        BY <1>3, <3>2 DEF Publish, FlushBecomesDue, AutoCommit, PollNothing, SkipFlush,
             LeaveLoop, PollFails, Sigterm, vars, durableVars, processVars, historyVars
      <4> QED
        BY <4>1 DEF Ingested
    <3> QED
      BY <3>1, <3>2
  <2> QED
    BY <2>1, <2>2, MemoryKeptByQuiet
<1>4. CASE IngestMessage
  <2>1. ~Rewound
    BY <1>4 DEF Rewound, IngestMessage, historyVars
  <2> QED
    BY <1>4, <2>1, MemoryKeptByIngest
<1>5. CASE Flush \/ FinalFlush
  <2>1. /\ ~Rewound /\ pc # "down" /\ log' = log /\ base' = base /\ restarted' = restarted
        /\ metrics' = Upsert(metrics, ComputeMetrics(windows))
        /\ (windows' = windows \/ windows' = Evict(windows))
        /\ pc # "ingest" /\ pc' # "ingest" /\ position' = position
    BY <1>5 DEF Rewound, Flush, FinalFlush, historyVars
  <2>2. Ingested' = Ingested
    BY <2>1 DEF Ingested
  <2> QED
    BY <2>1, <2>2, MemoryKeptByUpsert
<1>6. CASE Close \/ Crash \/ UpsertFails
  <2>1. /\ ~Rewound /\ Exit /\ log' = log /\ base' = base /\ restarted' = restarted
        /\ (metrics' = metrics \/ metrics' = Upsert(metrics, ComputeMetrics(windows)))
    BY <1>6 DEF Rewound, Close, Crash, UpsertFails, durableVars, historyVars
  <2> QED
    BY <2>1, MemoryKeptByExit
<1>7. CASE Start
  BY <1>7, MemoryKeptByStart
<1>8. CASE LoseAssignment
  BY <1>8, LostAssignmentRewinds DEF MemoryInv
<1> QED
  BY <1>3, <1>4, <1>5, <1>6, <1>7, <1>8 DEF Next

\* The processor starts with nothing consumed, in memory, or stored.
LEMMA MemoryInit == Init => MemoryInv
<1> SUFFICES ASSUME Init PROVE MemoryInv
  OBVIOUS
<1>1. /\ pc = "poll" /\ position = 0 /\ base = 0 /\ committed = 0 /\ Len(log) = 0
      /\ DOMAIN windows = {} /\ DOMAIN metrics = {}
  BY DEF Init, NoWindows, NoRows
<1>2. \A start : ConsumedOf(start) = {}
  BY DEF Init, ConsumedOf, EventsOf
<1>3. ASSUME NEW start PROVE ~HasRows(metrics, start)
  <2>1. <<start, EVENTS_PER_MINUTE>> \in {start} \X MetricNames
    BY DEF MetricNames
  <2> QED
    BY <1>1, <2>1 DEF HasRows
<1>4. MemoryHolds
  BY <1>1, <1>2, <1>3 DEF MemoryHolds, WindowsFromConsumed, CurrentExact, ExactOrStored,
       CleanStopStoresAll, RowsFromConsumed
<1>5. OffsetsOrdered
  BY <1>1 DEF OffsetsOrdered
<1> QED
  BY <1>4, <1>5, InitType DEF MemoryInv

\* The inductive invariant of this module.
THEOREM MemorySound == Spec => []MemoryInv
  BY MemoryInit, MemoryStep, PTL DEF Spec

\* Unless an assignment was lost, every window whose horizon has not passed is
\* in memory and holds the aggregate of all its events this incarnation
\* consumed: _ingest folds each one in and _evict takes none of these windows.
THEOREM WindowsExact == Spec => []MemoryIsExact
<1>1. MemoryInv => MemoryIsExact
  BY DEF MemoryInv, MemoryHolds, MemoryIsExact, CurrentExact, Exact
<1> QED
  BY <1>1, MemorySound, PTL

\* When consumer.close() is about to commit for the last time, the rows of every
\* window without a too late event describe all its consumed events: a flush
\* stores what it evicts, and the finally block stores the rest.
THEOREM CleanStopSound == Spec => []CleanStopStoresAll
<1>1. MemoryInv => CleanStopStoresAll
  BY DEF MemoryInv, MemoryHolds, CleanStopStoresAll
<1> QED
  BY <1>1, MemorySound, PTL

-----------------------------------------------------------------------------
(* Rates only rise *)

\* A step writes the table by an upsert of living windows, or not at all.
LEMMA RowsWritten ==
  ASSUME [Next]_vars
  PROVE  \/ metrics' = metrics
         \/ /\ metrics' = Upsert(metrics, ComputeMetrics(windows))
            /\ Flush \/ FinalFlush \/ UpsertFails
<1>1. CASE Flush \/ FinalFlush \/ UpsertFails
  BY <1>1 DEF Flush, FinalFlush, UpsertFails
<1>2. CASE Publish \/ FlushBecomesDue \/ AutoCommit \/ PollMessage \/ PollNothing \/ SkipFlush
             \/ LeaveLoop \/ PollFails \/ Sigterm \/ UNCHANGED vars
             \/ IngestMessage \/ Close \/ Start \/ Crash \/ LoseAssignment
  BY <1>2 DEF Publish, FlushBecomesDue, AutoCommit, PollMessage, PollNothing, SkipFlush,
       LeaveLoop, PollFails, Sigterm, vars, durableVars, IngestMessage, Close, Start, Crash,
       LoseAssignment
<1> QED
  BY <1>1, <1>2 DEF Next

\* In a first incarnation, an upsert counts for a window all that was consumed
\* of it, and the row it replaces counted some of that.
LEMMA RateKept ==
  ASSUME MemoryInv, [Next]_vars, NEW start \in WindowStarts,
         ~restarted, ~Rewound, ~TooLate(start)
  PROVE  ~RateFalls(metrics, metrics', start)
<1>1. /\ TypeOK /\ OffsetsOrdered /\ WindowsFromConsumed /\ RowsFromConsumed
      /\ pc # "down" => CurrentExact /\ ExactOrStored
  BY DEF MemoryInv, MemoryHolds
<1> SUFFICES ASSUME HasRows(metrics, start)
             PROVE  ~Less(metrics'[<<start, EVENTS_PER_MINUTE>>], metrics[<<start, EVENTS_PER_MINUTE>>])
  BY DEF RateFalls
<1>2. <<start, EVENTS_PER_MINUTE>> \in DOMAIN metrics
  BY DEF HasRows, MetricNames
<1>3. metrics[<<start, EVENTS_PER_MINUTE>>] \in Nat \X Nat
  BY <1>1, <1>2 DEF TypeOK, IsTable
<1>4. ~Less(metrics[<<start, EVENTS_PER_MINUTE>>], metrics[<<start, EVENTS_PER_MINUTE>>])
  BY <1>3 DEF Less
<1>5. CASE metrics' = metrics
  BY <1>4, <1>5
<1>6. CASE metrics' = Upsert(metrics, ComputeMetrics(windows)) /\ start \notin DOMAIN windows
  BY <1>1, <1>2, <1>4, <1>6, UpsertWrites
<1>7. CASE /\ metrics' = Upsert(metrics, ComputeMetrics(windows)) /\ start \in DOMAIN windows
           /\ Flush \/ FinalFlush \/ UpsertFails
  <2>1. pc # "down"
    BY <1>7 DEF Flush, FinalFlush, UpsertFails
  <2>2. ConsumedOf(start) # {}
    BY <1>1, <1>7 DEF WindowsFromConsumed
  <2>3. windows[start] = Aggregate(ConsumedOf(start))
    BY <1>1, <1>7, <2>1, <2>2 DEF ExactOrStored, Exact
  <2>4. PICK S \in SUBSET ConsumedOf(start) :
           metrics[<<start, EVENTS_PER_MINUTE>>] = EventsPerMinute(Aggregate(S))
    BY <1>1 DEF RowsFromConsumed
  <2>5. metrics'[<<start, EVENTS_PER_MINUTE>>] = EventsPerMinute(Aggregate(ConsumedOf(start)))
    BY <1>1, <1>7, <2>3, UpsertWrites DEF MetricNames, MetricValue
  <2>6. ConsumedOf(start) \in SUBSET DOMAIN log
    BY <1>1, ConsumedType
  <2> QED
    BY <1>1, <2>4, <2>5, <2>6, RateMonotone DEF TypeOK
<1> QED
  BY <1>5, <1>6, <1>7, RowsWritten

\* A stored rate falls only after a restart, a lost assignment or a too late
\* event, whatever flushes and evictions came between two upserts of a window.
THEOREM RatesOnlyRise == Spec => RowsOnlyRefined
<1>1. MemoryInv /\ [Next]_vars =>
        [\A start \in WindowStarts :
           RateFalls(metrics, metrics', start) => restarted \/ Rewound \/ TooLate(start)]_vars
  BY RateKept
<1> QED
  BY <1>1, MemorySound, PTL DEF Spec, RowsOnlyRefined

-----------------------------------------------------------------------------
(* The processor implements MetricsStore *)

\* What was lost stays lost, while no assignment is.
LEMMA LossyStays ==
  ASSUME TypeOK, OffsetsOrdered, [Next]_vars, ~Rewound', Lossy
  PROVE  Lossy'
<1>1. CASE Start
  BY <1>1 DEF Start, Lossy
<1>2. CASE LoseAssignment
  BY <1>2, LostAssignmentRewinds
<1>3. CASE ~Start /\ ~LoseAssignment
  <2>1. /\ base' = base /\ restarted' = restarted /\ (log' = log \/ Publish)
        /\ pc = "ingest" /\ pc' # "ingest" => position' = position /\ log' = log
        /\ pc # "ingest" \/ pc' = "ingest" => Ingested' = Ingested
    <3>1. CASE PollMessage
      BY <1>1, <3>1 DEF PollMessage, durableVars, historyVars, Ingested, TypeOK
    <3>2. CASE Publish \/ FlushBecomesDue \/ AutoCommit \/ PollNothing \/ SkipFlush
               \/ LeaveLoop \/ PollFails \/ Sigterm \/ UNCHANGED vars
      <4>1. /\ base' = base /\ restarted' = restarted /\ (log' = log \/ Publish)
            /\ position' = position /\ (pc = "ingest" <=> pc' = "ingest")
        BY <3>2 DEF Publish, FlushBecomesDue, AutoCommit, PollNothing, SkipFlush,
           LeaveLoop, PollFails, Sigterm, vars, durableVars, processVars, historyVars
      <4> QED
        BY <4>1 DEF Ingested
    <3>3. CASE IngestMessage \/ Flush \/ FinalFlush \/ Close \/ Crash \/ UpsertFails
      <4>1. /\ base' = base /\ restarted' = restarted /\ log' = log /\ position' = position
            /\ pc' # "ingest"
        BY <3>3 DEF IngestMessage, Flush, FinalFlush, Close, Crash, UpsertFails, Exit,
             durableVars, historyVars
      <4> QED
        BY <4>1 DEF Ingested
    <3> QED
      BY <1>3, <3>1, <3>2, <3>3 DEF Next
  <2>2. CASE pc = "ingest" /\ pc' # "ingest"
    BY <2>1, <2>2, ConsumedGrows DEF Lossy
  <2>3. CASE pc # "ingest" \/ pc' = "ingest"
    BY <2>1, <2>3, ConsumedStable DEF Lossy
  <2> QED
    BY <2>2, <2>3
<1> QED
  BY <1>1, <1>2, <1>3

\* An upsert of no window writes nothing.
LEMMA UpsertNothing ==
  ASSUME TypeOK, DOMAIN windows = {}
  PROVE  Upsert(metrics, ComputeMetrics(windows)) = metrics
<1>1. DOMAIN ComputeMetrics(windows) = {}
  BY DEF ComputeMetrics
<1>2. metrics = [key \in DOMAIN metrics |-> metrics[key]]
  BY DEF TypeOK, IsTable
<1> QED
  BY <1>1, <1>2 DEF Upsert

\* An upsert refreshes the windows in memory with the messages they counted.
LEMMA UpsertRefreshes ==
  ASSUME MemoryInv, [Next]_vars, ~Rewound, DOMAIN windows # {},
         Flush \/ FinalFlush \/ UpsertFails,
         metrics' = Upsert(metrics, ComputeMetrics(windows))
  PROVE  Store!StoreRefresh
<1>1. TypeOK /\ OffsetsOrdered /\ WindowsFromConsumed
  BY DEF MemoryInv, MemoryHolds
<1>2. /\ log' = log /\ base' = base /\ restarted' = restarted /\ position' = position
      /\ pc # "ingest" /\ pc' # "ingest"
  BY DEF Flush, FinalFlush, UpsertFails, Exit, historyVars
<1>3. Lossy' = Lossy
  <2>1. Ingested' = Ingested
    BY <1>2 DEF Ingested
  <2>2. \A start : TooLate(start)' <=> TooLate(start)
    BY <1>1, <1>2, <2>1, ConsumedStable
  <2> QED
    BY <1>1, <1>2, <2>2 DEF Lossy, TypeOK
<1>4. ~Lossy => \A start \in WindowStarts : ~RateFalls(metrics, metrics', start)
  BY RateKept DEF Lossy
<1> DEFINE Counted(start) == CHOOSE S \in (SUBSET ConsumedOf(start)) \ {{}} : windows[start] = Aggregate(S)
           counted == [start \in DOMAIN windows |-> Counted(start)]
<1>5. \A start \in DOMAIN windows :
        /\ Counted(start) \in (SUBSET ConsumedOf(start)) \ {{}}
        /\ windows[start] = Aggregate(Counted(start))
  BY <1>1 DEF WindowsFromConsumed
<1>6. \A start : ConsumedOf(start) \subseteq EventsOf(start) /\ EventsOf(start) \subseteq DOMAIN log
  BY DEF ConsumedOf, EventsOf
<1>7. /\ counted \in [DOMAIN windows -> (SUBSET DOMAIN log) \ {{}}]
      /\ \A start \in DOMAIN windows : counted[start] \subseteq EventsOf(start)
      /\ \A start \in DOMAIN windows : windows[start] = Aggregate(counted[start])
      /\ DOMAIN counted = DOMAIN windows
  <2> HIDE DEF Counted
  <2> QED
    BY <1>5, <1>6
<1>8. DOMAIN windows \in (SUBSET WindowStarts) \ {{}}
  BY <1>1 DEF TypeOK, IsWindowMap
<1> HIDE DEF counted
<1>9. ComputeMetrics(windows) =
        [key \in (DOMAIN counted) \X MetricNames |-> MetricValue(Aggregate(counted[key[1]]), key[2])]
  BY <1>7 DEF ComputeMetrics
<1>10. PICK rows : rows = ComputeMetrics(windows)
  OBVIOUS
<1>11. rows = Store!RowsOf(counted)
  <2>1. \A S : Store!Aggregate(S) = Aggregate(S)
    <3>1. \A S : Store!Cardinality(S) = Cardinality(S)
      BY DEF Store!Cardinality, Cardinality
    <3> QED
      BY <3>1 DEF Store!Aggregate, Aggregate, Store!EventTypes, EventTypes
  <2>2. \A window, metric : Store!MetricValue(window, metric) = MetricValue(window, metric)
    BY DEF Store!MetricValue, Store!EventsPerMinute, Store!ConversionRate,
       Store!EVENTS_PER_MINUTE, MetricValue, EventsPerMinute, ConversionRate, EVENTS_PER_MINUTE
  <2>3. Store!MetricNames = MetricNames
    BY DEF Store!MetricNames, Store!EVENTS_PER_MINUTE, Store!CONVERSION_RATE,
       MetricNames, EVENTS_PER_MINUTE, CONVERSION_RATE
  <2> QED
    BY <1>9, <1>10, <2>1, <2>2, <2>3 DEF Store!RowsOf
<1>12. metrics' = Store!Upsert(metrics, Store!RowsOf(counted))
  BY <1>10, <1>11 DEF Upsert, Store!Upsert
<1>13. /\ Store!WindowStarts = WindowStarts
       /\ \A start : Store!EventsOf(start) = EventsOf(start)
       /\ \A start : Store!RateFalls(metrics, metrics', start) <=> RateFalls(metrics, metrics', start)
  BY DEF Store!WindowStarts, Store!WindowStart, WindowStarts, WindowStart, Store!EventsOf, EventsOf,
     Store!IsEvent, IsEvent, Store!Event, Event, Store!EventTypes, EventTypes,
     Store!RateFalls, RateFalls, Store!HasRows, HasRows, Store!Less, Less,
     Store!MetricNames, MetricNames, Store!EVENTS_PER_MINUTE, EVENTS_PER_MINUTE,
     Store!CONVERSION_RATE, CONVERSION_RATE
<1> QED
  BY <1>2, <1>3, <1>4, <1>7, <1>8, <1>12, <1>13 DEF Store!StoreRefresh

\* Every step is one of the store's, a stutter, or loses an assignment.
LEMMA StoreStep ==
  ASSUME MemoryInv, [Next]_vars
  PROVE  \/ Rewound'
         \/ UNCHANGED <<log, metrics, Lossy>>
         \/ Store!StoreNext
<1> SUFFICES ASSUME ~Rewound' PROVE UNCHANGED <<log, metrics, Lossy>> \/ Store!StoreNext
  OBVIOUS
<1>1. TypeOK /\ OffsetsOrdered /\ TypeOK'
  BY TypeStep DEF MemoryInv
<1>2. ~Rewound
  BY <1>1, LostAssignmentRewinds
     DEF Rewound, Publish, FlushBecomesDue, AutoCommit, PollMessage, PollNothing, SkipFlush,
       LeaveLoop, PollFails, Sigterm, vars, historyVars, IngestMessage, Close, Start, Crash,
       Flush, FinalFlush, UpsertFails, Next
<1>3. Lossy \in BOOLEAN /\ Lossy' \in BOOLEAN
  BY <1>1 DEF Lossy, TypeOK
<1>4. ASSUME log' = log, metrics' = metrics
      PROVE  UNCHANGED <<log, metrics, Lossy>> \/ Store!StoreNext
  <2>1. Lossy => Lossy'
    BY <1>1, LossyStays
  <2>2. CASE Lossy'
    BY <1>3, <1>4, <2>2 DEF Store!StoreNext, Store!StoreLoses
  <2>3. CASE ~Lossy'
    BY <1>3, <1>4, <2>1, <2>3
  <2> QED
    BY <2>2, <2>3
<1>5. CASE Publish
  <2>1. PublishMessage /\ metrics' = metrics /\ base' = base /\ Ingested' = Ingested
        /\ restarted' = restarted
    BY <1>5 DEF Publish, processVars, historyVars, Ingested
  <2>2. \A start : TooLate(start)' <=> TooLate(start)
    BY <1>1, <1>5, <2>1, ConsumedStable
  <2>3. Lossy' = Lossy
    BY <1>3, <2>1, <2>2 DEF Lossy
  <2>4. Store!PublishMessage
    BY <2>1 DEF PublishMessage, Store!PublishMessage, Message, Store!Message, Event, Store!Event,
       EventTypes, Store!EventTypes
  <2> QED
    BY <2>1, <2>3, <2>4 DEF Store!StoreNext, Store!StorePublish
<1>6. CASE ~Publish
  <2>1. log' = log
    BY <1>6 DEF FlushBecomesDue, AutoCommit, PollMessage, PollNothing, SkipFlush,
       LeaveLoop, PollFails, Sigterm, vars, durableVars, IngestMessage, Close, Start, Crash,
       LoseAssignment, Flush, FinalFlush, UpsertFails, Next
  <2>2. CASE metrics' # metrics
    <3>1. /\ metrics' = Upsert(metrics, ComputeMetrics(windows))
          /\ Flush \/ FinalFlush \/ UpsertFails
      BY <2>2, RowsWritten
    <3>2. DOMAIN windows # {}
      BY <1>1, <2>2, <3>1, UpsertNothing
    <3> QED
      BY <1>2, <3>1, <3>2, UpsertRefreshes DEF Store!StoreNext
  <2> QED
    BY <1>4, <2>1, <2>2
<1> QED
  BY <1>5, <1>6

\* As long as no assignment is lost, the processor implements the abstract store
\* that the alerter and the dashboard read.
THEOREM StoreImplemented == Spec => StoreRefined
<1>1. Init => Store!StoreInit
  <2>1. ASSUME Init PROVE Lossy = FALSE
    <3>1. ~restarted /\ base = 0 /\ position = 0 /\ pc = "poll"
      BY <2>1 DEF Init
    <3>2. base + 1 .. Ingested = {}
      BY <3>1 DEF Ingested
    <3> QED
      BY <3>1, <3>2 DEF Lossy, TooLate
  <2> QED
    BY <2>1 DEF Init, Store!StoreInit, NoRows, Store!NoRows
<1>2. MemoryInv /\ [Next]_vars =>
        [\/ Rewound'
         \/ UNCHANGED <<log, metrics, Lossy>>
         \/ Store!StoreNext]_<<log, metrics, Lossy>>
  BY StoreStep
<1> QED
  BY <1>1, <1>2, MemorySound, PTL DEF Spec, StoreRefined

-----------------------------------------------------------------------------
(* Replays overcount by their rounds *)

\* A product grows with its factors.
LEMMA ProductMonotone ==
  ASSUME NEW a \in Nat, NEW b \in Nat, NEW c \in Nat, NEW d \in Nat, a <= b, c <= d
  PROVE  a * c <= b * d
<1>1. a * c <= b * c
  OBVIOUS
<1>2. b * c <= b * d
  OBVIOUS
<1> QED
  BY <1>1, <1>2

\* No round is undone, and a lost assignment begins one.
LEMMA RoundsGrow ==
  ASSUME TypeOK, [Next]_vars
  PROVE  /\ Rounds \in Nat /\ Rounds >= 1 /\ Rounds' \in Nat /\ Rounds <= Rounds'
         /\ LoseAssignment => Rounds + 1 <= Rounds'
<1>1. rewinds \in Nat /\ (rewinds' = rewinds \/ rewinds' = rewinds + 1)
  <2>1. CASE Publish \/ FlushBecomesDue \/ AutoCommit \/ PollMessage \/ PollNothing \/ SkipFlush
             \/ LeaveLoop \/ UNCHANGED vars \/ IngestMessage \/ Flush \/ FinalFlush \/ Close \/ Start
    BY <2>1 DEF Publish, FlushBecomesDue, AutoCommit, PollMessage, PollNothing, SkipFlush,
         LeaveLoop, vars, historyVars, IngestMessage, Flush, FinalFlush, Close, Start, TypeOK
  <2>2. CASE Crash \/ UpsertFails \/ PollFails \/ Sigterm \/ LoseAssignment
    BY <2>2 DEF Crash, UpsertFails, PollFails, Sigterm, LoseAssignment, TypeOK
  <2> QED
    BY <2>1, <2>2 DEF Next
<1>2. LoseAssignment => rewinds' = rewinds + 1
  BY DEF LoseAssignment
<1> QED
  BY <1>1, <1>2 DEF Rounds

\* The events of a window are finitely many and only become more; the consumed
\* ones are some of them.
LEMMA EventsGrow ==
  ASSUME TypeOK, OffsetsOrdered, TypeOK', OffsetsOrdered', [Next]_vars, NEW start
  PROVE  /\ Cardinality(EventsOf(start)) \in Nat /\ Cardinality(EventsOf(start))' \in Nat
         /\ Cardinality(EventsOf(start)) <= Cardinality(EventsOf(start))'
         /\ Cardinality(ConsumedOf(start)) \in Nat /\ Cardinality(ConsumedOf(start))' \in Nat
         /\ Cardinality(ConsumedOf(start)) <= Cardinality(EventsOf(start))
<1>1. EventsOf(start) \subseteq EventsOf(start)'
  <2>1. CASE Publish
    BY <2>1, PublishStable
  <2>2. CASE ~Publish
    <3>1. log' = log
      BY <2>2 DEF FlushBecomesDue, AutoCommit, PollMessage, PollNothing, SkipFlush,
         LeaveLoop, PollFails, Sigterm, vars, durableVars, IngestMessage, Close, Start, Crash,
         LoseAssignment, Flush, FinalFlush, UpsertFails, Next
    <3> QED
      BY <3>1, LogStable
  <2> QED
    BY <2>1, <2>2
<1>2. IsFiniteSet(EventsOf(start)) /\ IsFiniteSet(EventsOf(start)')
  <2>1. IsFiniteSet(1 .. Len(log)) /\ IsFiniteSet(1 .. Len(log'))
    BY FS_Interval DEF TypeOK
  <2>2. EventsOf(start) \in SUBSET (1 .. Len(log)) /\ EventsOf(start)' \in SUBSET (1 .. Len(log'))
    BY DEF EventsOf, TypeOK
  <2> QED
    BY <2>1, <2>2, FS_Subset
<1>3. /\ ConsumedOf(start) \in SUBSET EventsOf(start)
      /\ ConsumedOf(start)' \in SUBSET EventsOf(start)'
  BY DEF ConsumedOf
<1>4. /\ Cardinality(EventsOf(start)) \in Nat /\ Cardinality(EventsOf(start)') \in Nat
      /\ Cardinality(EventsOf(start)) <= Cardinality(EventsOf(start)')
  BY <1>1, <1>2, FS_CardinalityType, FS_Subset
<1>5. /\ IsFiniteSet(ConsumedOf(start)) /\ IsFiniteSet(ConsumedOf(start)')
      /\ Cardinality(ConsumedOf(start)) <= Cardinality(EventsOf(start))
  BY <1>2, <1>3, FS_Subset
<1>6. Cardinality(ConsumedOf(start)) \in Nat /\ Cardinality(ConsumedOf(start)') \in Nat
  BY <1>5, FS_CardinalityType
<1> QED
  BY <1>4, <1>5, <1>6

\* What was in a window when its bound was set is within any later bound.
LEMMA WindowBoundKept ==
  ASSUME NEW r \in Nat, NEW rr \in Nat, NEW c \in Nat, NEW cc \in Nat, NEW k \in Nat, NEW kk \in Nat,
         r >= 1, r <= rr, c <= cc, k <= c, k <= kk \/ r + 1 <= rr
  PROVE  (r - 1) * c + k <= (rr - 1) * cc + kk
<1>1. (r - 1) * c <= (rr - 1) * cc
  BY ProductMonotone
<1>2. CASE k <= kk
  BY <1>1, <1>2
<1>3. CASE r + 1 <= rr
  <2>1. r * c <= (rr - 1) * cc
    BY <1>3, ProductMonotone
  <2>2. r * c = (r - 1) * c + c
    OBVIOUS
  <2>3. (r - 1) * c \in Int /\ (rr - 1) * cc \in Int
    OBVIOUS
  <2> QED
    BY <2>1, <2>2, <2>3
<1> QED
  BY <1>2, <1>3

\* Every step keeps both bounds.
LEMMA OvercountStep == OvercountInv /\ [Next]_vars => OvercountInv'
<1> SUFFICES ASSUME OvercountInv, [Next]_vars PROVE OvercountInv'
  OBVIOUS
<1> DEFINE C(start) == Cardinality(EventsOf(start))
           K(start) == Cardinality(ConsumedOf(start))
<1>1. /\ TypeOK /\ OffsetsOrdered /\ IsWindowMap(windows)
      /\ \A start \in DOMAIN windows :
           windows[start].total <= (Rounds - 1) * C(start) + K(start)
      /\ \A start \in WindowStarts :
           HasRows(metrics, start) =>
             \E n \in Nat : /\ n <= Rounds * C(start)
                            /\ metrics[<<start, EVENTS_PER_MINUTE>>] = <<60 * n, WindowSeconds>>
  BY DEF OvercountInv, TypeOK
<1>2. TypeOK' /\ OffsetsOrdered'
  BY <1>1, TypeStep, OffsetsStep
<1>3. /\ Rounds \in Nat /\ Rounds >= 1 /\ Rounds' \in Nat /\ Rounds <= Rounds'
      /\ LoseAssignment => Rounds + 1 <= Rounds'
  BY <1>1, RoundsGrow
<1>4. \A start : /\ C(start) \in Nat /\ C(start)' \in Nat /\ C(start) <= C(start)'
                 /\ K(start) \in Nat /\ K(start)' \in Nat /\ K(start) <= C(start)
  BY <1>1, <1>2, EventsGrow
<1>5. \A start \in DOMAIN windows : windows[start].total \in Nat
  BY <1>1 DEF IsWindowMap, Window
<1>6. ASSUME NEW start \in WindowStarts, HasRows(metrics, start)'
      PROVE  \E n \in Nat : /\ n <= Rounds' * C(start)'
                            /\ metrics'[<<start, EVENTS_PER_MINUTE>>] = <<60 * n, WindowSeconds>>
  <2> DEFINE Before == Rounds * C(start)
             Limit == Rounds' * C(start)'
  <2>1. Before <= Limit
    BY <1>3, <1>4, ProductMonotone
  <2>2. Before \in Nat /\ Limit \in Nat
    BY <1>3, <1>4
  <2> HIDE DEF C, K
  <2>3. HasRows(metrics, start) =>
          \E n \in Nat : /\ n <= Before
                         /\ metrics[<<start, EVENTS_PER_MINUTE>>] = <<60 * n, WindowSeconds>>
    BY <1>1, Zenon
  <2>4. start \in DOMAIN windows => windows[start].total <= Before
    <3>1. SUFFICES ASSUME start \in DOMAIN windows PROVE windows[start].total <= Before
      OBVIOUS
    <3>2. (Rounds - 1) * C(start) + C(start) = Rounds * C(start)
      BY <1>3, <1>4
    <3>3. (Rounds - 1) * C(start) \in Int /\ C(start) \in Nat /\ K(start) \in Nat /\ K(start) <= C(start)
      BY <1>3, <1>4
    <3> QED
      BY <1>1, <1>5, <2>2, <3>1, <3>2, <3>3
  <2>5. SUFFICES \E n \in Nat : /\ n <= Limit
                                /\ metrics'[<<start, EVENTS_PER_MINUTE>>] = <<60 * n, WindowSeconds>>
    BY Zenon
  <2> HIDE DEF Before, Limit
  <2>6. CASE metrics' = metrics
    <3>1. HasRows(metrics, start)
      BY <1>6, <2>6 DEF HasRows
    <3> QED
      BY <2>1, <2>2, <2>3, <2>6, <3>1
  <2>7. CASE metrics' = Upsert(metrics, ComputeMetrics(windows)) /\ start \notin DOMAIN windows
    <3>1. HasRows(metrics, start)
      BY <1>1, <1>6, <2>7, UpsertWrites DEF HasRows, MetricNames
    <3>2. metrics'[<<start, EVENTS_PER_MINUTE>>] = metrics[<<start, EVENTS_PER_MINUTE>>]
      BY <1>1, <2>7, <3>1, UpsertWrites DEF HasRows, MetricNames
    <3> QED
      BY <2>1, <2>2, <2>3, <3>1, <3>2
  <2>8. CASE metrics' = Upsert(metrics, ComputeMetrics(windows)) /\ start \in DOMAIN windows
    <3>1. metrics'[<<start, EVENTS_PER_MINUTE>>] = <<60 * windows[start].total, WindowSeconds>>
      BY <1>1, <2>8, UpsertWrites DEF MetricNames, MetricValue, EventsPerMinute
    <3>2. windows[start].total \in Nat
      BY <1>5, <2>8
    <3> QED
      BY <2>1, <2>2, <2>4, <2>8, <3>1, <3>2
  <2> QED
    BY <2>6, <2>7, <2>8, RowsWritten
<1>7. ASSUME NEW start \in DOMAIN windows', start \in DOMAIN windows, windows'[start] = windows[start],
             K(start) <= K(start)' \/ LoseAssignment
      PROVE  windows'[start].total <= (Rounds' - 1) * C(start)' + K(start)'
  <2>1. /\ Rounds \in Nat /\ Rounds >= 1 /\ Rounds' \in Nat /\ Rounds <= Rounds'
        /\ C(start) \in Nat /\ C(start)' \in Nat /\ C(start) <= C(start)'
        /\ K(start) \in Nat /\ K(start)' \in Nat /\ K(start) <= C(start)
        /\ K(start) <= K(start)' \/ Rounds + 1 <= Rounds'
    BY <1>3, <1>4, <1>7
  <2>2. windows[start].total \in Nat /\ windows[start].total <= (Rounds - 1) * C(start) + K(start)
    BY <1>1, <1>5, <1>7
  <2> HIDE DEF C, K
  <2>3. (Rounds - 1) * C(start) + K(start) <= (Rounds' - 1) * C(start)' + K(start)'
    BY <2>1, WindowBoundKept
  <2>4. (Rounds - 1) * C(start) + K(start) \in Int /\ (Rounds' - 1) * C(start)' + K(start)' \in Int
    BY <2>1
  <2> QED
    BY <1>7, <2>2, <2>3, <2>4
<1>8. \A start \in DOMAIN windows' :
        windows'[start].total <= (Rounds' - 1) * C(start)' + K(start)'
  <2>1. CASE Publish \/ FlushBecomesDue \/ AutoCommit \/ PollMessage \/ PollNothing \/ SkipFlush
             \/ LeaveLoop \/ PollFails \/ Sigterm \/ UNCHANGED vars \/ Flush \/ FinalFlush
    <3>1. /\ base' = base /\ (log' = log \/ Publish)
          /\ windows' = windows \/ windows' = Evict(windows)
      BY <2>1 DEF Publish, FlushBecomesDue, AutoCommit, PollMessage, PollNothing, SkipFlush,
           LeaveLoop, PollFails, Sigterm, vars, durableVars, processVars, historyVars, Flush, FinalFlush
    <3>2. CASE PollMessage
      <4>1. Ingested' = Ingested
        BY <1>1, <3>2 DEF PollMessage, Ingested, TypeOK
      <4> QED
        BY <1>1, <1>4, <1>7, <3>1, <4>1, ConsumedStable, EvictType
    <3>3. CASE ~PollMessage
      <4>1. position' = position /\ (pc' = "ingest" <=> pc = "ingest")
        BY <2>1, <3>3 DEF Publish, FlushBecomesDue, AutoCommit, PollNothing, SkipFlush,
             LeaveLoop, PollFails, Sigterm, vars, durableVars, processVars, historyVars, Flush, FinalFlush
      <4>2. Ingested' = Ingested
        BY <4>1 DEF Ingested
      <4> QED
        BY <1>1, <1>4, <1>7, <3>1, <4>2, ConsumedStable, EvictType
    <3> QED
      BY <3>2, <3>3
  <2>2. CASE IngestMessage
    <3>0. PICK message, s0 : message = log[position] /\ s0 = WindowStart(message.ts)
      OBVIOUS
    <3>1. /\ log' = log /\ base' = base /\ position' = position /\ pc = "ingest" /\ pc' # "ingest"
          /\ Rounds' = Rounds
      BY <2>2 DEF IngestMessage, durableVars, historyVars, Rounds
    <3>2. /\ position \in DOMAIN log
          /\ \A start : position \in EventsOf(start) =>
                 ConsumedOf(start)' = ConsumedOf(start) \cup {position}
          /\ \A start : position \notin EventsOf(start) => ConsumedOf(start)' = ConsumedOf(start)
          /\ \A start : position \notin ConsumedOf(start)
      BY <1>1, <3>1, ConsumedGrows
    <3>3. \A start : IsFiniteSet(ConsumedOf(start))
      BY <1>1, ConsumedType, MessagesFinite DEF TypeOK
    <3>4. \A start : /\ position \in EventsOf(start) => K(start)' = K(start) + 1
                     /\ K(start) <= K(start)'
      <4>1. ASSUME NEW start, position \in EventsOf(start)
            PROVE  K(start)' = K(start) + 1
        <5>1. Cardinality(ConsumedOf(start) \cup {position}) = Cardinality(ConsumedOf(start)) + 1
          BY <3>2, <3>3, FS_AddElement
        <5> QED
          BY <3>2, <4>1, <5>1
      <4>2. ASSUME NEW start, position \notin EventsOf(start)
            PROVE  K(start)' = K(start)
        BY <3>2, <4>2
      <4>3. \A start : K(start) \in Nat
        BY <1>4
      <4> HIDE DEF C, K
      <4> QED
        BY <4>1, <4>2, <4>3
    <3>5. CASE message \notin Event
      <4>1. windows' = windows
        BY <2>2, <3>0, <3>5 DEF IngestMessage
      <4> QED
        BY <1>7, <3>4, <4>1
    <3>6. CASE message \in Event
      <4>1. windows' = Ingest(windows, message)
        BY <2>2, <3>0, <3>6, MessageAssumption DEF IngestMessage
      <4>2. DOMAIN windows' = DOMAIN windows \cup {s0}
        BY <1>1, <3>0, <3>6, <4>1, IngestType
      <4>3. \A start \in DOMAIN windows : start # s0 => windows'[start] = windows[start]
        BY <3>0, <4>1, <4>2 DEF Ingest
      <4>4. position \in EventsOf(s0)
        BY <3>0, <3>2, <3>6 DEF EventsOf, IsEvent
      <4>5. windows'[s0].total = (IF s0 \in DOMAIN windows THEN windows[s0].total ELSE 0) + 1
        BY <3>0, <4>1, <4>2 DEF Ingest, Counting, EmptyWindow
      <4>6. windows'[s0].total <= (Rounds' - 1) * C(s0)' + K(s0)'
        <5>1. K(s0)' = K(s0) + 1 /\ C(s0)' = C(s0) /\ Rounds' = Rounds
          BY <3>1, <3>4, <4>4, LogStable
        <5>2. /\ Rounds \in Nat /\ Rounds >= 1 /\ C(s0) \in Nat /\ K(s0) \in Nat
          BY <1>3, <1>4
        <5> HIDE DEF C, K
        <5>3. (Rounds - 1) * C(s0) \in Nat
          BY <5>2
        <5>4. CASE s0 \in DOMAIN windows
          <6>1. windows[s0].total <= (Rounds - 1) * C(s0) + K(s0) /\ windows[s0].total \in Nat
            BY <1>1, <1>5, <5>4
          <6> QED
            BY <4>5, <5>1, <5>2, <5>3, <5>4, <6>1
        <5>5. CASE s0 \notin DOMAIN windows
          BY <4>5, <5>1, <5>2, <5>3, <5>5
        <5> QED
          BY <5>4, <5>5
      <4>7. \A start \in DOMAIN windows' : start # s0 => start \in DOMAIN windows
        BY <4>2
      <4> QED
        BY <1>7, <3>4, <4>3, <4>6, <4>7
    <3> QED
      BY <3>5, <3>6
  <2>3. CASE Close \/ Crash \/ UpsertFails \/ Start
    BY <1>1, <2>3 DEF Close, Crash, UpsertFails, Exit, NoWindows, Start, OffsetsOrdered
  <2>4. CASE LoseAssignment
    BY <1>7, <2>4 DEF LoseAssignment
  <2> QED
    BY <2>1, <2>2, <2>3, <2>4 DEF Next
<1> QED
  BY <1>2, <1>6, <1>8 DEF OvercountInv

\* At the start nothing is counted.
LEMMA OvercountInit == Init => OvercountInv
<1> SUFFICES ASSUME Init PROVE OvercountInv
  OBVIOUS
<1>1. MemoryInv /\ DOMAIN windows = {} /\ DOMAIN metrics = {}
  BY MemoryInit DEF Init, NoWindows, NoRows
<1>2. ASSUME NEW start PROVE ~HasRows(metrics, start)
  <2>1. <<start, EVENTS_PER_MINUTE>> \in {start} \X MetricNames
    BY DEF MetricNames
  <2> QED
    BY <1>1, <2>1 DEF HasRows
<1> QED
  BY <1>1, <1>2 DEF OvercountInv, MemoryInv

\* A stored rate counts no event more often than there were rounds: once, and
\* once more for each time an assignment was lost.
THEOREM OvercountSound == Spec => []OvercountBounded
<1>1. Init => OvercountInv
  BY OvercountInit
<1>2. OvercountInv => OvercountBounded
  <2>1. ASSUME OvercountInv, NEW start \in WindowStarts, HasRows(metrics, start)
        PROVE  ~Less(<<60 * Rounds * Cardinality(EventsOf(start)), WindowSeconds>>,
                     metrics[<<start, EVENTS_PER_MINUTE>>])
    <3>1. PICK n \in Nat :
             /\ n <= Rounds * Cardinality(EventsOf(start))
             /\ metrics[<<start, EVENTS_PER_MINUTE>>] = <<60 * n, WindowSeconds>>
      BY <2>1 DEF OvercountInv
    <3>2. Rounds \in Nat
      BY <2>1 DEF OvercountInv, Rounds, TypeOK
    <3>3. Cardinality(EventsOf(start)) \in Nat
      BY <2>1, ConsumedType, MessagesFinite, FS_CardinalityType DEF OvercountInv, TypeOK
    <3>4. PICK c \in Nat : c = Cardinality(EventsOf(start))
      BY <3>3
    <3>5. Rounds * c \in Nat /\ 60 * Rounds * c = 60 * (Rounds * c)
      BY <3>2
    <3>6. (60 * n) * WindowSeconds <= (60 * (Rounds * c)) * WindowSeconds
      BY <3>1, <3>4, <3>5, WindowSecondsAssumption, ProductMonotone
    <3> QED
      BY <3>1, <3>4, <3>5, <3>6, WindowSecondsAssumption DEF Less
  <2> QED
    BY <2>1 DEF OvercountBounded, Rounds
<1> QED
  BY <1>1, <1>2, OvercountStep, PTL DEF Spec

-----------------------------------------------------------------------------
(* From the topic to the alerts *)

\* Both rows of a window are in the table or neither.
RowsPaired == \A key \in DOMAIN metrics : HasRows(metrics, key[1])

\* A rate in hand or stored as an alert breached, and counted no event more often
\* than there were rounds.
RatesCovered(table) ==
  \A key \in DOMAIN table :
    key[2] = EVENTS_PER_MINUTE =>
      \E n \in Nat :
        /\ n <= Rounds * Cardinality(EventsOf(Alerting!StartOf(key)))
        /\ table[key] = <<60 * n, WindowSeconds>>
        /\ Alerting!Breaches(EVENTS_PER_MINUTE, table[key])

\* The inductive invariant: what is true of the rows stays true of the alerts made
\* of them, since neither rounds nor events become fewer.
StreamInv ==
  /\ OvercountInv
  /\ RowsPaired
  /\ RatesCovered(alerts) /\ RatesCovered(pending)

\* An upsert writes both rows of a window.
LEMMA PairsKept == TypeOK /\ RowsPaired /\ [Next]_vars => RowsPaired'
<1> SUFFICES ASSUME TypeOK, RowsPaired, [Next]_vars PROVE RowsPaired'
  OBVIOUS
<1>1. CASE metrics' = metrics
  BY <1>1 DEF RowsPaired
<1>2. CASE metrics' = Upsert(metrics, ComputeMetrics(windows))
  <2>1. DOMAIN metrics' = DOMAIN metrics \cup ((DOMAIN windows) \X MetricNames)
    BY <1>2 DEF Upsert, ComputeMetrics
  <2> QED
    BY <2>1 DEF RowsPaired, HasRows
<1> QED
  BY <1>1, <1>2, RowsWritten

\* What the rounds cover is covered for good.
LEMMA CoverKept ==
  ASSUME OvercountInv, [Next]_vars, NEW start, NEW n \in Nat,
         n <= Rounds * Cardinality(EventsOf(start))
  PROVE  n <= Rounds' * Cardinality(EventsOf(start)')
<1>1. TypeOK /\ OffsetsOrdered /\ TypeOK' /\ OffsetsOrdered'
  BY OvercountStep DEF OvercountInv
<1>2. Rounds \in Nat /\ Rounds' \in Nat /\ Rounds <= Rounds'
  BY <1>1, RoundsGrow
<1>3. PICK c \in Nat, cc \in Nat :
        c = Cardinality(EventsOf(start)) /\ cc = Cardinality(EventsOf(start)') /\ c <= cc
  BY <1>1, EventsGrow
<1>4. Rounds * c <= Rounds' * cc
  BY <1>2, <1>3, ProductMonotone
<1>5. Rounds * c \in Nat /\ Rounds' * cc \in Nat
  BY <1>2, <1>3
<1> QED
  BY <1>3, <1>4, <1>5

\* The processor's steps keep the invariant.
LEMMA ProcessorKeepsCover ==
  ASSUME StreamInv, [Next]_vars, UNCHANGED alerterVars
  PROVE  StreamInv'
<1>1. OvercountInv' /\ RowsPaired'
  BY OvercountStep, PairsKept DEF StreamInv, OvercountInv
<1>2. alerts' = alerts /\ pending' = pending /\ OvercountInv
  BY DEF alerterVars, StreamInv
<1>3. ASSUME NEW table, NEW key \in DOMAIN table,
             \E n \in Nat :
               /\ n <= Rounds * Cardinality(EventsOf(Alerting!StartOf(key)))
               /\ table[key] = <<60 * n, WindowSeconds>>
               /\ Alerting!Breaches(EVENTS_PER_MINUTE, table[key])
      PROVE  \E n \in Nat :
               /\ n <= Rounds' * Cardinality(EventsOf(Alerting!StartOf(key))')
               /\ table[key] = <<60 * n, WindowSeconds>>
               /\ Alerting!Breaches(EVENTS_PER_MINUTE, table[key])
  BY <1>2, <1>3, CoverKept
<1>4. RatesCovered(alerts)'
  BY <1>2, <1>3 DEF StreamInv, RatesCovered
<1>5. RatesCovered(pending)'
  BY <1>2, <1>3 DEF StreamInv, RatesCovered
<1> QED
  BY <1>1, <1>4, <1>5 DEF StreamInv

\* Breaching rows become alerts of their window, with the row's value.
LEMMA EvaluatedRows ==
  ASSUME IsTable(metrics), NEW min,
         NEW key \in DOMAIN Alerting!EvaluateThresholds(Alerting!FetchRecentMetrics(min))
  PROVE  LET new == Alerting!EvaluateThresholds(Alerting!FetchRecentMetrics(min)) IN
           /\ <<Alerting!StartOf(key), key[2]>> \in DOMAIN metrics
           /\ new[key] = metrics[<<Alerting!StartOf(key), key[2]>>]
           /\ Alerting!Breaches(key[2], new[key])
<1> DEFINE rows == Alerting!FetchRecentMetrics(min)
           breaching == {k \in DOMAIN rows : Alerting!Breaches(k[2], rows[k])}
           new == Alerting!EvaluateThresholds(rows)
<1>1. /\ DOMAIN rows \subseteq DOMAIN metrics
      /\ \A k \in DOMAIN rows : rows[k] = metrics[k]
  BY DEF Alerting!FetchRecentMetrics, Alerting!Recent
<1>2. new = [a \in {Alerting!AlertKey(k) : k \in breaching} |-> rows[Alerting!RowKey(a)]]
  BY DEF Alerting!EvaluateThresholds
<1>3. PICK k \in breaching : key = Alerting!AlertKey(k)
  BY <1>2
<1>4. k \in DOMAIN rows /\ k = <<k[1], k[2]>> /\ k[1] \in Nat
  BY <1>1, WindowStartType DEF IsTable
<1>5. Alerting!RowKey(key) = k /\ Alerting!StartOf(key) = k[1] /\ key[2] = k[2]
  BY <1>3, <1>4, WindowSecondsAssumption
     DEF Alerting!RowKey, Alerting!AlertKey, Alerting!WindowEnd, Alerting!StartOf
<1>6. new[key] = metrics[k]
  BY <1>1, <1>2, <1>4, <1>5
<1> QED
  BY <1>1, <1>3, <1>4, <1>5, <1>6

\* A pass of the alerter takes rates from rows that are covered, or moves them.
LEMMA AlerterKeepsCover ==
  ASSUME StreamInv, Evaluate \/ Insert \/ InsertFails \/ ClockTicks
  PROVE  StreamInv'
<1>1. vars' = vars
  BY DEF Evaluate, Insert, InsertFails, ClockTicks
<1>2. OvercountInv' /\ RowsPaired'
  BY <1>1, OvercountStep, PairsKept DEF StreamInv, OvercountInv
<1>3. log' = log /\ metrics' = metrics /\ rewinds' = rewinds
  BY <1>1 DEF vars, durableVars, historyVars
<1>4. RatesCovered(alerts)' /\ RatesCovered(pending)'
  <2>1. CASE Evaluate
    <3> DEFINE new == Alerting!EvaluateThresholds(Alerting!FetchRecentMetrics(Alerting!MinWindowStart))
    <3>1. alerts' = alerts /\ pending' = new
      BY <2>1 DEF Evaluate, Alerting!Evaluate
    <3>2. ASSUME NEW key \in DOMAIN new, key[2] = EVENTS_PER_MINUTE
          PROVE  \E n \in Nat :
                   /\ n <= Rounds * Cardinality(EventsOf(Alerting!StartOf(key)))
                   /\ new[key] = <<60 * n, WindowSeconds>>
                   /\ Alerting!Breaches(EVENTS_PER_MINUTE, new[key])
      <4>1. IsTable(metrics)
        BY DEF StreamInv, OvercountInv, TypeOK
      <4> DEFINE start == Alerting!StartOf(key)
      <4>2. /\ <<start, EVENTS_PER_MINUTE>> \in DOMAIN metrics
            /\ new[key] = metrics[<<start, EVENTS_PER_MINUTE>>]
            /\ Alerting!Breaches(EVENTS_PER_MINUTE, new[key])
        BY <3>2, <4>1, EvaluatedRows
      <4>3. start \in WindowStarts /\ HasRows(metrics, start)
        BY <4>1, <4>2 DEF IsTable, StreamInv, RowsPaired
      <4> QED
        BY <4>2, <4>3 DEF StreamInv, OvercountInv
    <3> QED
      BY <1>3, <3>1, <3>2 DEF StreamInv, RatesCovered, Rounds, EventsOf, IsEvent
  <2>2. CASE Insert \/ InsertFails
    <3>1. /\ alerts' = alerts \/ alerts' = Alerting!InsertAlerts(alerts, pending)
          /\ pending' = Alerting!NoAlerts
      BY <2>2 DEF Insert, InsertFails, Alerting!Insert, Alerting!InsertFails
    <3>2. \A key \in DOMAIN alerts' :
            \/ key \in DOMAIN alerts /\ alerts'[key] = alerts[key]
            \/ key \in DOMAIN pending /\ alerts'[key] = pending[key]
      BY <3>1 DEF Alerting!InsertAlerts, Alerting!Upsert
    <3>3. RatesCovered(alerts)'
      BY <1>3, <3>2 DEF StreamInv, RatesCovered, Rounds, EventsOf, IsEvent
    <3>4. RatesCovered(pending)'
      BY <3>1 DEF Alerting!NoAlerts, RatesCovered
    <3> QED
      BY <3>3, <3>4
  <2>3. CASE ClockTicks
    BY <1>3, <2>3 DEF ClockTicks, Alerting!ClockTicks, StreamInv, RatesCovered, Rounds, EventsOf, IsEvent
  <2> QED
    BY <2>1, <2>2, <2>3
<1> QED
  BY <1>2, <1>4 DEF StreamInv

\* From the topic to the alert, an event of a rate alert is counted once, and once
\* more for each time an assignment was lost; without that the alert is true.
THEOREM RateAlertsAreTrue == StreamSpec => []RateAlertsTrue
<1>1. StreamInit => StreamInv
  <2> SUFFICES ASSUME StreamInit PROVE StreamInv
    OBVIOUS
  <2>1. OvercountInv /\ DOMAIN metrics = {}
    BY OvercountInit DEF StreamInit, Init, NoRows
  <2>2. DOMAIN alerts = {} /\ DOMAIN pending = {}
    BY DEF StreamInit, Alerting!AlerterInit, Alerting!NoAlerts
  <2> QED
    BY <2>1, <2>2 DEF StreamInv, RowsPaired, RatesCovered
<1>2. StreamInv /\ [StreamNext]_streamVars => StreamInv'
  <2> SUFFICES ASSUME StreamInv, [StreamNext]_streamVars PROVE StreamInv'
    OBVIOUS
  <2>1. CASE ProcessorStep \/ UNCHANGED streamVars
    <3>1. [Next]_vars /\ UNCHANGED alerterVars
      BY <2>1 DEF ProcessorStep, streamVars
    <3> QED
      BY <3>1, ProcessorKeepsCover
  <2>2. CASE Evaluate \/ Insert \/ InsertFails \/ ClockTicks
    BY <2>2, AlerterKeepsCover
  <2> QED
    BY <2>1, <2>2 DEF StreamNext
<1>3. StreamInv => RateAlertsTrue
  <2> SUFFICES ASSUME StreamInv, NEW key \in DOMAIN alerts, key[2] = EVENTS_PER_MINUTE
               PROVE  Alerting!Breaches(EVENTS_PER_MINUTE,
                                        PublishedRate(Alerting!StartOf(key), 1 + rewinds))
    BY DEF RateAlertsTrue
  <2> DEFINE start == Alerting!StartOf(key)
  <2>1. PICK n \in Nat : /\ n <= Rounds * Cardinality(EventsOf(start))
                         /\ Alerting!Breaches(EVENTS_PER_MINUTE, <<60 * n, WindowSeconds>>)
    BY DEF StreamInv, RatesCovered
  <2>2. Rounds \in Nat
    BY DEF StreamInv, OvercountInv, Rounds, TypeOK
  <2>3. PICK c \in Nat : c = Cardinality(EventsOf(start))
    BY ConsumedType, MessagesFinite, FS_CardinalityType DEF StreamInv, OvercountInv, TypeOK
  <2>4. PICK m \in Nat : m = Rounds * c /\ 60 * Rounds * c = 60 * m
    BY <2>2
  <2>5. n <= m /\ 60 * n <= 60 * m
    BY <2>1, <2>3, <2>4
  <2>6. EpmMax * WindowSeconds < (60 * n) * 1
    BY <2>1 DEF Alerting!Breaches, Alerting!Less, EVENTS_PER_MINUTE, Alerting!EVENTS_PER_MINUTE
  <2>7. Alerting!Breaches(EVENTS_PER_MINUTE, <<60 * m, WindowSeconds>>)
    <3>1. EpmMax * WindowSeconds \in Nat
      BY StreamAssumption, WindowSecondsAssumption
    <3>2. EpmMax * WindowSeconds < (60 * m) * 1
      BY <2>5, <2>6, <3>1
    <3> QED
      BY <3>2 DEF Alerting!Breaches, Alerting!Less, EVENTS_PER_MINUTE, Alerting!EVENTS_PER_MINUTE
  <2>8. PublishedRate(start, 1 + rewinds) = <<60 * m, WindowSeconds>>
    BY <2>3, <2>4 DEF PublishedRate, Rounds
  <2> QED
    BY <2>7, <2>8
<1> QED
  BY <1>1, <1>2, <1>3, PTL DEF StreamSpec

=============================================================================
