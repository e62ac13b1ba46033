----------------------------- MODULE MetricsStore -----------------------------
(***************************************************************************)
(* What the processor promises to those who read the metrics table, with   *)
(* nothing of offsets, buffers and flushes: rows are written for whole     *)
(* windows, each time as the metrics of some of the messages published for *)
(* the window, none of them counted twice; and a stored rate falls only    *)
(* when something was lost on the way.                                     *)
(***************************************************************************)
EXTENDS EventLog

VARIABLES
  metrics,   \* the metrics table, (window_start, metric) -> value
  lossy      \* the processor restarted, or an event came too late

storeVars == <<log, metrics, lossy>>

StoreTypeOK ==
  /\ log \in Seq(Message)
  /\ IsTable(metrics)
  /\ lossy \in BOOLEAN

StoreInit ==
  /\ log = << >>
  /\ metrics = NoRows
  /\ lossy = FALSE

\* The rows of the windows in counted, of which counted[start] was counted.
RowsOf(counted) ==
  [key \in (DOMAIN counted) \X MetricNames |->
     MetricValue(Aggregate(counted[key[1]]), key[2])]

StorePublish ==
  /\ PublishMessage
  /\ UNCHANGED <<metrics, lossy>>

\* Mutant of StoreRefresh: any messages of the window may be written.
StoreRefreshAnyhow ==
  /\ UNCHANGED <<log, lossy>>
  /\ \E starts \in (SUBSET WindowStarts) \ {{}} :
       \E counted \in [starts -> (SUBSET DOMAIN log) \ {{}}] :
         /\ \A start \in starts : counted[start] \subseteq EventsOf(start)
         /\ metrics' = Upsert(metrics, RowsOf(counted))

StoreRefresh ==
  /\ UNCHANGED <<log, lossy>>
  /\ \E starts \in (SUBSET WindowStarts) \ {{}} :
       \E counted \in [starts -> (SUBSET DOMAIN log) \ {{}}] :
         /\ \A start \in starts : counted[start] \subseteq EventsOf(start)
         /\ metrics' = Upsert(metrics, RowsOf(counted))
  /\ ~lossy => \A start \in WindowStarts : ~RateFalls(metrics, metrics', start)

StoreLoses ==
  /\ lossy' = TRUE
  /\ UNCHANGED <<log, metrics>>

StoreNext == StorePublish \/ StoreRefresh \/ StoreLoses

StoreSpec == StoreInit /\ [][StoreNext]_storeVars

=============================================================================
