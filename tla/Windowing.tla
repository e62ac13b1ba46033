------------------------------ MODULE Windowing ------------------------------
(***************************************************************************)
(* The pure part of StreamPulse: tumbling windows (windowing.py), the      *)
(* metric rows computed from them (metrics.py), and the two functions of   *)
(* processor/main.py that fold an event into the window map and drop the   *)
(* windows beyond the retention horizon.                                   *)
(*                                                                         *)
(* Timestamps are whole seconds: window_bounds truncates with int() before *)
(* anything else looks at them.  A ratio is the pair <<numerator,          *)
(* denominator>>, so that no rounding is hidden.                           *)
(***************************************************************************)
EXTENDS Integers, FiniteSets, Sequences

CONSTANTS
  WindowSeconds,      \* WINDOW_SECONDS
  RetentionWindows,   \* RETENTION_WINDOWS
  Timestamps          \* the event_ts values that occur

ASSUME WindowSecondsAssumption == WindowSeconds \in Nat \ {0}
ASSUME RetentionWindowsAssumption == RetentionWindows \in Nat
ASSUME TimestampsAssumption == Timestamps \subseteq Nat

-----------------------------------------------------------------------------
(* Windows *)

\* "other" stands for every type that is only ever added to the total:
\* session_start, add_to_cart and whatever is outside EVENT_TYPES.
EventTypes == {"page_view", "purchase", "other"}

Event == [ts : Timestamps, type : EventTypes]

Window == [total : Nat, counts : [EventTypes -> Nat]]

WindowStart(ts) == (ts \div WindowSeconds) * WindowSeconds

WindowEnd(start) == start + WindowSeconds

WindowStarts == {WindowStart(ts) : ts \in Timestamps}

EmptyWindow == [total |-> 0, counts |-> [type \in EventTypes |-> 0]]

Counting(window, type) ==
  [total  |-> window.total + 1,
   counts |-> [window.counts EXCEPT ![type] = @ + 1]]

\* A window map is a function whose domain is the set of buffered starts.
IsWindowMap(windows) ==
  /\ DOMAIN windows \subseteq WindowStarts
  /\ windows \in [DOMAIN windows -> Window]

NoWindows == [s \in {} |-> EmptyWindow]

\* Mutant of Ingest: the start is rounded to the nearest multiple.
IngestRounding(windows, event) ==
  LET start  == ((event.ts + WindowSeconds \div 2) \div WindowSeconds) * WindowSeconds
      before == IF start \in DOMAIN windows THEN windows[start] ELSE EmptyWindow
  IN  [s \in DOMAIN windows \cup {start} |->
         IF s = start THEN Counting(before, event.type) ELSE windows[s]]

Ingest(windows, event) ==
  LET start  == WindowStart(event.ts)
      before == IF start \in DOMAIN windows THEN windows[start] ELSE EmptyWindow
  IN  [s \in DOMAIN windows \cup {start} |->
         IF s = start THEN Counting(before, event.type) ELSE windows[s]]

\* Mutant of Retained: the horizon itself is evicted.
RetainedStrictly(windows) ==
  {s \in DOMAIN windows :
     \A newest \in DOMAIN windows : s > newest - RetentionWindows * WindowSeconds}

\* Mutant of Retained: every flush clears the map.
RetainedNone(windows) == {}

\* A start survives when it is not below newest - retention * window; being
\* within the horizon of every buffered start is being within the newest's.
Retained(windows) ==
  {s \in DOMAIN windows :
     \A newest \in DOMAIN windows : s >= newest - RetentionWindows * WindowSeconds}

\* Mutant of Evict: nothing is ever dropped.
EvictNothing(windows) == windows

Evict(windows) == [s \in Retained(windows) |-> windows[s]]

-----------------------------------------------------------------------------
(* Metrics *)

EVENTS_PER_MINUTE == "events_per_minute"
CONVERSION_RATE   == "conversion_rate"
MetricNames       == {EVENTS_PER_MINUTE, CONVERSION_RATE}

EventsPerMinute(window) == <<60 * window.total, WindowSeconds>>

ConversionRate(window) ==
  IF window.counts["page_view"] = 0
    THEN <<0, 1>>
    ELSE <<window.counts["purchase"], window.counts["page_view"]>>

MetricValue(window, metric) ==
  IF metric = EVENTS_PER_MINUTE THEN EventsPerMinute(window) ELSE ConversionRate(window)

\* Rows are keyed as the table's UNIQUE (window_start, metric) keys them.
ComputeMetrics(windows) ==
  [key \in (DOMAIN windows) \X MetricNames |-> MetricValue(windows[key[1]], key[2])]

\* So is the table: a partial function of the keys.
IsTable(table) ==
  /\ DOMAIN table \subseteq WindowStarts \X MetricNames
  /\ table \in [DOMAIN table -> Nat \X Nat]

NoRows == [key \in {} |-> <<0, 1>>]

\* Mutant of Upsert: DO UPDATE adds the new value to the stored one.
UpsertAdding(table, rows) ==
  [key \in DOMAIN table \cup DOMAIN rows |->
     IF key \notin DOMAIN rows THEN table[key]
     ELSE IF key \notin DOMAIN table THEN rows[key]
     ELSE <<table[key][1] * rows[key][2] + rows[key][1] * table[key][2],
            table[key][2] * rows[key][2]>>]

\* INSERT ... ON CONFLICT (window_start, metric) DO UPDATE of every row, in
\* one transaction (db.upsert_metrics).
Upsert(table, rows) ==
  [key \in DOMAIN table \cup DOMAIN rows |->
     IF key \in DOMAIN rows THEN rows[key] ELSE table[key]]

Less(a, b) == a[1] * b[2] < b[1] * a[2]

HasRows(table, start) == {start} \X MetricNames \subseteq DOMAIN table

\* The stored rate of a window is lower after than before.
RateFalls(before, after, start) ==
  /\ HasRows(before, start)
  /\ Less(after[<<start, EVENTS_PER_MINUTE>>], before[<<start, EVENTS_PER_MINUTE>>])

=============================================================================
