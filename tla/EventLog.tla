------------------------------- MODULE EventLog -------------------------------
(***************************************************************************)
(* The topic between StreamPulse's producer and its processor: one         *)
(* partition, a sequence of messages that only grows, and the aggregates   *)
(* that the messages of a window define.  The topic is the broker's; the   *)
(* definitions say what the processor's code (processor/main.py) may find  *)
(* in it.                                                                  *)
(***************************************************************************)
EXTENDS Windowing

CONSTANTS
  Garbled,      \* a message json.loads rejects (or the JSON null)
  Incomplete,   \* JSON without a usable event_ts or event_type
  MaxLog        \* bound on the number of published messages

ASSUME MessageAssumption == {Garbled, Incomplete} \cap Event = {}
ASSUME MaxLogAssumption == MaxLog \in Nat

VARIABLE log    \* every message ever published, in the partition's order

Message == Event \cup {Garbled, Incomplete}

\* Any producer may append anything: the topic is not typed.
PublishMessage ==
  /\ Len(log) < MaxLog
  /\ \E message \in Message : log' = Append(log, message)

IsEvent(i) == log[i] \in Event

EventsOf(start) == {i \in DOMAIN log : IsEvent(i) /\ WindowStart(log[i].ts) = start}

\* The window tumbling_windows returns for these messages of one start.
Aggregate(messages) ==
  [total  |-> Cardinality(messages),
   counts |-> [type \in EventTypes |-> Cardinality({i \in messages : log[i].type = type})]]

=============================================================================
