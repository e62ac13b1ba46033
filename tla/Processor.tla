------------------------------ MODULE Processor ------------------------------
(***************************************************************************)
(* The stream processor of StreamPulse (processor/main.py) between its     *)
(* topic and the metrics table.  It polls messages, folds them into        *)
(* in-memory windows, and from time to time upserts the metric rows of all *)
(* buffered windows and evicts the old ones.  The windows live in memory   *)
(* only; the consumer group's offset and the metrics table are durable,    *)
(* and nothing ties the one to the other: the client library commits       *)
(* offsets on its own schedule (enable.auto.commit).                       *)
(*                                                                         *)
(* pc is the place in main():                                              *)
(*   "poll"     at the loop condition, about to call consumer.poll         *)
(*   "ingest"   holding the message log[position]                          *)
(*   "check"    at the flush test at the end of the loop body              *)
(*   "finally"  in the finally block, before its upsert                    *)
(*   "close"    after that upsert, before consumer.close()                 *)
(*   "down"     no process                                                 *)
(***************************************************************************)
EXTENDS EventLog

CONSTANT MaxFaults   \* bound on crashes, failures, signals and lost assignments

ASSUME MaxFaultsAssumption == MaxFaults \in Nat

VARIABLES
  committed,   \* durable: the consumer group's offset
  metrics,     \* durable: the metrics table, (window_start, metric) -> value
  pc,
  position,    \* messages handed out by poll in this incarnation, from 0
  windows,     \* memory: window_start -> window
  due,         \* flush_seconds have passed since last_flush
  stopping,    \* ~_RUNNING
  base,        \* history: the offset at which this incarnation began
  restarted,   \* history: this is not the first incarnation
  rewinds,     \* history: how often an assignment was lost while the process lived
  faults       \* how many of MaxFaults have happened

processVars == <<pc, position, windows, due, stopping>>
durableVars == <<log, committed, metrics>>
historyVars == <<base, restarted, rewinds, faults>>
vars == <<durableVars, processVars, historyVars>>

TypeOK ==
  /\ log \in Seq(Message)
  /\ committed \in Nat
  /\ IsTable(metrics)
  /\ pc \in {"poll", "ingest", "check", "finally", "close", "down"}
  /\ position \in Nat
  /\ IsWindowMap(windows)
  /\ due \in BOOLEAN
  /\ stopping \in BOOLEAN
  /\ base \in Nat
  /\ restarted \in BOOLEAN
  /\ rewinds \in Nat
  /\ faults \in Nat

Init ==
  /\ log = << >>
  /\ committed = 0
  /\ metrics = NoRows
  /\ pc = "poll"
  /\ position = 0
  /\ windows = NoWindows
  /\ due = FALSE
  /\ stopping = FALSE
  /\ base = 0
  /\ restarted = FALSE
  /\ rewinds = 0
  /\ faults = 0

-----------------------------------------------------------------------------
(* The environment *)

Publish ==
  /\ PublishMessage
  /\ UNCHANGED <<committed, metrics, processVars, historyVars>>

FlushBecomesDue ==
  /\ pc # "down"
  /\ ~due
  /\ due' = TRUE
  /\ UNCHANGED <<durableVars, pc, position, windows, stopping, historyVars>>

\* The library's timer commits what poll has handed out, ingested or not.
AutoCommit ==
  /\ pc # "down"
  /\ committed # position
  /\ committed' = position
  /\ UNCHANGED <<log, metrics, processVars, historyVars>>

-----------------------------------------------------------------------------
(* The loop *)

PollMessage ==
  /\ pc = "poll" /\ ~stopping
  /\ position < Len(log)
  /\ position' = position + 1
  /\ pc' = "ingest"
  /\ UNCHANGED <<durableVars, windows, due, stopping, historyVars>>

\* Mutant of PollNothing: a poll that returns nothing skips the flush test.
PollNothingContinues ==
  /\ pc = "poll" /\ ~stopping
  /\ UNCHANGED vars

PollNothing ==
  /\ pc = "poll" /\ ~stopping
  /\ pc' = "check"
  /\ UNCHANGED <<durableVars, position, windows, due, stopping, historyVars>>

\* json.loads and _ingest: an undecodable message is dropped, a well-formed
\* event is folded in, and anything else raises out of the loop.  A type that
\* is not hashable raises when the event is in the total already.  ("other"
\* stands for both kinds of types: a replayed message may raise or not, which
\* allows more than the code.)
IngestMessage ==
  /\ pc = "ingest"
  /\ LET message == log[position] IN
       \/ /\ message \in Event
          /\ windows' = Ingest(windows, message)
          /\ \/ pc' = "check"
             \/ message.type = "other" /\ pc' = "finally"
       \/ /\ message = Garbled
          /\ pc' = "check"
          /\ UNCHANGED windows
       \/ /\ message = Incomplete
          /\ pc' = "finally"
          /\ UNCHANGED windows
  /\ UNCHANGED <<durableVars, position, due, stopping, historyVars>>

FlushDue == due /\ DOMAIN windows # {}

SkipFlush ==
  /\ pc = "check"
  /\ ~FlushDue
  /\ pc' = "poll"
  /\ UNCHANGED <<durableVars, position, windows, due, stopping, historyVars>>

Flush ==
  /\ pc = "check"
  /\ FlushDue
  /\ metrics' = Upsert(metrics, ComputeMetrics(windows))
  /\ windows' = Evict(windows)
  /\ due' = FALSE
  /\ pc' = "poll"
  /\ UNCHANGED <<log, committed, position, stopping, historyVars>>

LeaveLoop ==
  /\ pc = "poll" /\ stopping
  /\ pc' = "finally"
  /\ UNCHANGED <<durableVars, position, windows, due, stopping, historyVars>>

-----------------------------------------------------------------------------
(* The finally block and the restart *)

\* Mutant of FinalFlush: the finally block only closes.
FinalFlushSkipped ==
  /\ pc = "finally"
  /\ pc' = "close"
  /\ UNCHANGED <<durableVars, position, windows, due, stopping, historyVars>>

FinalFlush ==
  /\ pc = "finally"
  /\ metrics' = Upsert(metrics, ComputeMetrics(windows))
  /\ pc' = "close"
  /\ UNCHANGED <<log, committed, position, windows, due, stopping, historyVars>>

\* What a process takes with it.
Exit ==
  /\ pc' = "down"
  /\ windows' = NoWindows
  /\ due' = FALSE
  /\ stopping' = FALSE
  /\ UNCHANGED position

\* Mutant of Close: the consumer is dropped without close().
CloseWithoutCommit ==
  /\ pc = "close"
  /\ Exit
  /\ UNCHANGED <<durableVars, historyVars>>

\* consumer.close() commits the position once more.
Close ==
  /\ pc = "close"
  /\ committed' = position
  /\ Exit
  /\ UNCHANGED <<log, metrics, historyVars>>

Start ==
  /\ pc = "down"
  /\ pc' = "poll"
  /\ position' = committed
  /\ base' = committed
  /\ restarted' = TRUE
  /\ UNCHANGED <<durableVars, windows, due, stopping, rewinds, faults>>

-----------------------------------------------------------------------------
(* Faults *)

Fault ==
  /\ faults < MaxFaults
  /\ faults' = faults + 1

Crash ==
  /\ Fault
  /\ pc # "down"
  /\ Exit
  /\ UNCHANGED <<durableVars, base, restarted, rewinds>>

\* The database fails under an upsert, in the loop or in the finally block,
\* before or after the commit took effect.  After a failure in the loop the
\* finally block upserts over the same connection and fails as well; either
\* way consumer.close() is not reached.
UpsertFails ==
  /\ Fault
  /\ \/ pc = "check" /\ FlushDue
     \/ pc = "finally" /\ DOMAIN windows # {}
  /\ \/ UNCHANGED metrics
     \/ metrics' = Upsert(metrics, ComputeMetrics(windows))
  /\ Exit
  /\ UNCHANGED <<log, committed, base, restarted, rewinds>>

\* poll returns an error object and the loop raises KafkaException.
PollFails ==
  /\ Fault
  /\ pc = "poll" /\ ~stopping
  /\ pc' = "finally"
  /\ UNCHANGED <<durableVars, position, windows, due, stopping, base, restarted, rewinds>>

Sigterm ==
  /\ Fault
  /\ pc \in {"poll", "ingest", "check"} /\ ~stopping
  /\ stopping' = TRUE
  /\ UNCHANGED <<durableVars, pc, position, windows, due, base, restarted, rewinds>>

\* The group coordinator expels the consumer, which rejoins on its next poll
\* and fetches from the committed offset again, with its windows intact.
LoseAssignment ==
  /\ Fault
  /\ pc = "poll" /\ ~stopping
  /\ committed < position
  /\ position' = committed
  /\ rewinds' = rewinds + 1
  /\ UNCHANGED <<durableVars, pc, windows, due, stopping, base, restarted>>

-----------------------------------------------------------------------------

Loop ==
  PollMessage \/ PollNothing \/ IngestMessage \/ SkipFlush \/ Flush
    \/ LeaveLoop \/ FinalFlush \/ Close

Next ==
  \/ Publish \/ FlushBecomesDue \/ AutoCommit
  \/ PollMessage \/ PollNothing \/ IngestMessage \/ SkipFlush \/ Flush
  \/ LeaveLoop \/ FinalFlush \/ Close \/ Start
  \/ Crash \/ UpsertFails \/ PollFails \/ Sigterm \/ LoseAssignment

Spec == Init /\ [][Next]_vars

\* The loop runs, time passes, the container is started again, the library's
\* commit timer fires, and a message the broker holds is delivered sooner or
\* later even if some polls time out first.
Fairness ==
  /\ WF_vars(Loop)
  /\ WF_vars(FlushBecomesDue)
  /\ WF_vars(Start)
  /\ WF_vars(AutoCommit)
  /\ SF_vars(PollMessage)

FairSpec == Spec /\ Fairness

-----------------------------------------------------------------------------
(* What was consumed *)

\* The last message whose ingestion is over.
Ingested == IF pc = "ingest" THEN position - 1 ELSE position

ConsumedOf(start) == {i \in EventsOf(start) : base < i /\ i <= Ingested}

\* Message i moves the retention horizon of this incarnation past start.
Overtakes(i, start) ==
  /\ IsEvent(i)
  /\ start < WindowStart(log[i].ts) - RetentionWindows * WindowSeconds

Overtaken(start) == \E i \in base + 1 .. Ingested : Overtakes(i, start)

\* An event of start was consumed after one that overtakes start.
TooLate(start) ==
  \E i \in base + 1 .. Ingested : Overtakes(i, start) /\ \E j \in ConsumedOf(start) : i < j

Rewound == rewinds > 0

Lossy == restarted \/ \E start \in WindowStarts : TooLate(start)

Store == INSTANCE MetricsStore WITH lossy <- Lossy

RowsDescribe(start, messages) ==
  /\ HasRows(metrics, start)
  /\ \A metric \in MetricNames :
       metrics[<<start, metric>>] = MetricValue(Aggregate(messages), metric)

-----------------------------------------------------------------------------
(* Safety *)

\* Unless an assignment was lost, the two rows of a window are always the two
\* metrics of one and the same set of distinct messages of that window:
\* whatever crashes, replays and evictions happened, no event is counted twice
\* (upsert_metrics overwrites and commits once) and the rows never disagree.
RowsFromDistinctEvents ==
  ~Rewound =>
    \A key \in DOMAIN metrics :
      \E messages \in (SUBSET EventsOf(key[1])) \ {{}} : RowsDescribe(key[1], messages)

\* Within an incarnation, the fold of _ingest over the consumed messages is
\* the aggregate tumbling_windows defines, for every window whose retention
\* horizon has not passed; eviction never takes a window it should keep.
MemoryIsExact ==
  ~Rewound /\ pc # "down" =>
    \A start \in WindowStarts :
      ConsumedOf(start) # {} /\ ~Overtaken(start) =>
        /\ start \in DOMAIN windows
        /\ windows[start] = Aggregate(ConsumedOf(start))

\* When consumer.close() is about to commit the offset for the last time, the
\* rows of every window without a too late event describe all its events that
\* this incarnation consumed: a shutdown through the finally block (a signal,
\* a poison message, a poll error) commits nothing it has not stored.
CleanStopStoresAll ==
  ~Rewound /\ pc = "close" =>
    \A start \in WindowStarts :
      ConsumedOf(start) # {} /\ ~TooLate(start) =>
        RowsDescribe(start, ConsumedOf(start))

\* A stored rate falls only after a restart, a lost assignment or an event
\* that arrived after its window had been overtaken: otherwise an upsert
\* refines the row ("a window is continually refined", main.py:14-16).
RowsOnlyRefined ==
  [][\A start \in WindowStarts :
       RateFalls(metrics, metrics', start) => restarted \/ Rewound \/ TooLate(start)]_vars

\* Every flush leaves at most RetentionWindows + 1 windows in memory.
FlushBoundsMemory ==
  [][Flush => Cardinality(DOMAIN windows') <= RetentionWindows + 1]_vars

\* As long as no assignment is lost, the processor keeps the promise readers
\* of the table rely on: each step publishes, rewrites the rows of some windows
\* soundly, loses, or does not concern the store.  (The stutter is spelled out
\* since TLC would otherwise try to find a refresh that changes nothing.)
StoreRefined ==
  /\ Store!StoreInit
  /\ [][\/ Rewound'
        \/ UNCHANGED <<log, metrics, Lossy>>
        \/ Store!StoreNext]_<<log, metrics, Lossy>>

\* A stored rate counts each event of its window at most once, and at most once
\* more for every time an assignment was lost: a replay into windows that live
\* on counts an event again, but a flush, a crash or an eviction never adds to
\* that (processor/main.py:139).
OvercountBounded ==
  \A start \in WindowStarts :
    HasRows(metrics, start) =>
      ~Less(<<60 * (1 + rewinds) * Cardinality(EventsOf(start)),
              WindowSeconds>>,
            metrics[<<start, EVENTS_PER_MINUTE>>])

-----------------------------------------------------------------------------
(* Why no event is counted twice *)

\* Offsets never run ahead of each other or of the log, a message in hand was
\* polled by this incarnation, and a process that ended left no window.
OffsetsOrdered ==
  /\ base <= committed /\ committed <= position /\ position <= Len(log)
  /\ pc = "ingest" => base < position
  /\ pc = "down" => DOMAIN windows = {}

\* Every window in memory is the aggregate of distinct messages of its start
\* whose ingestion is over.
WindowDescribes(start, messages) ==
  /\ \A i \in messages : i <= Ingested
  /\ windows[start] = Aggregate(messages)

WindowsFromDistinctEvents ==
  \A start \in DOMAIN windows :
    \E messages \in (SUBSET EventsOf(start)) \ {{}} : WindowDescribes(start, messages)

\* The inductive invariant: what the next upsert would write is sound, and so
\* is what the earlier ones wrote.
RowsInv ==
  /\ TypeOK
  /\ OffsetsOrdered
  /\ ~Rewound => WindowsFromDistinctEvents
  /\ RowsFromDistinctEvents

-----------------------------------------------------------------------------
(* Liveness *)

\* No message wedges the consumer: every published message, the poison ones
\* included, is left behind by the committed offset for good, because the
\* finally block closes the consumer and so commits past what raised.
EveryMessagePassed ==
  \A i \in 1 .. MaxLog : (i <= Len(log)) ~> [](committed >= i)

\* The rate stored for message i's window counts i and everything before it.
Reflected(i) ==
  LET start == WindowStart(log[i].ts) IN
    /\ HasRows(metrics, start)
    /\ ~Less(metrics[<<start, EVENTS_PER_MINUTE>>],
             EventsPerMinute(Aggregate({j \in EventsOf(start) : j <= i})))

AwaitsReflection(i) ==
  /\ i \in DOMAIN log
  /\ IsEvent(i)
  /\ ~(restarted \/ Rewound \/ TooLate(WindowStart(log[i].ts)) \/ Reflected(i))

\* In a first incarnation that lasts, the rate stored for a window comes to
\* count every event published for it, unless one came too late.
EveryEventReflected == \A i \in 1 .. MaxLog : AwaitsReflection(i) ~> ~AwaitsReflection(i)

-----------------------------------------------------------------------------
(* What processor/main.py says and the code does not do *)

\* main.py:14-16: a window "is finalized once the window closes", so once
\* newer events have closed it for good, a rate stored for it does not fall.
\* A late event opens an evicted window again from zero, and the next upsert
\* replaces the final rows.
FinalizedOnceClosed ==
  [][\A start \in WindowStarts :
       Overtaken(start) => ~RateFalls(metrics, metrics', start)]_vars

=============================================================================
