------------------------------ MODULE StreamPulse ------------------------------
(***************************************************************************)
(* StreamPulse from the topic to the alerts: the alerter polls the very    *)
(* table the processor writes.  No call links the two, so their steps      *)
(* interleave; what the alerter asks of the store it is specified against  *)
(* (MetricsStore) is here the processor's doing, losses and replays        *)
(* included.                                                               *)
(***************************************************************************)
EXTENDS Processor

CONSTANTS
  EpmMax,           \* EPM_MAX, events per minute
  ConvMinPercent,   \* CONV_MIN, in whole percents
  LookbackWindows,  \* LOOKBACK_WINDOWS
  MaxNow,           \* bound on the clock, in seconds
  MaxFailures       \* bound on failed passes of the alerter

ASSUME StreamAssumption ==
  {EpmMax, ConvMinPercent, LookbackWindows, MaxNow, MaxFailures} \subseteq Nat

VARIABLES
  alerts,    \* the alerter's variables, as in Alerter
  pending,
  now,
  failures

alerterVars == <<alerts, pending, now, failures>>
streamVars == <<vars, alerterVars>>

Alerting == INSTANCE Alerter WITH lossy <- Lossy

StreamInit == Init /\ Alerting!AlerterInit

ProcessorStep == Next /\ UNCHANGED alerterVars

Evaluate == UNCHANGED vars /\ Alerting!Evaluate
Insert == UNCHANGED vars /\ Alerting!Insert
InsertFails == UNCHANGED vars /\ Alerting!InsertFails
ClockTicks == UNCHANGED vars /\ Alerting!ClockTicks

StreamNext == ProcessorStep \/ Evaluate \/ Insert \/ InsertFails \/ ClockTicks

StreamSpec == StreamInit /\ [][StreamNext]_streamVars

\* Either process goes on, as it does on its own.
StreamFairSpec ==
  StreamSpec /\ Fairness /\ WF_streamVars(Evaluate) /\ WF_streamVars(Insert)

-----------------------------------------------------------------------------
(* Safety *)

PublishedRate(start, times) == <<60 * times * Cardinality(EventsOf(start)), WindowSeconds>>

\* A rate alert is false only if the processor lost an assignment: counted once,
\* and once more for every time that happened, the events published for the
\* window breach the limit.  Nothing else that lies between an event and the
\* alert adds to it: no crash, replay, repeated upsert or failed pass, and not
\* that the rows change between the alerter's query and its insertion
\* (processor/main.py:139, alerter/main.py:90).
RateAlertsTrue ==
  \A key \in DOMAIN alerts :
    key[2] = EVENTS_PER_MINUTE =>
      Alerting!Breaches(EVENTS_PER_MINUTE, PublishedRate(Alerting!StartOf(key), 1 + rewinds))

-----------------------------------------------------------------------------
(* Liveness *)

AwaitsAlert(start) ==
  /\ Alerting!Breaches(EVENTS_PER_MINUTE, PublishedRate(start, 1))
  /\ start >= Alerting!MinWindowStart
  /\ ~(restarted \/ Rewound \/ TooLate(start))
  /\ Alerting!AlertKey(<<start, EVENTS_PER_MINUTE>>) \notin DOMAIN alerts

\* From the topic to the alert: when more events are published for a window
\* than EPM_MAX allows, they are reported in the end - unless the window leaves
\* the lookback before, or the processor restarts, loses its assignment or gets
\* one of them too late.
SurgesReported == \A start \in WindowStarts : AwaitsAlert(start) ~> ~AwaitsAlert(start)

=============================================================================
