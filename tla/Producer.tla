------------------------------ MODULE Producer -------------------------------
(***************************************************************************)
(* StreamPulse's producer (producer/main.py) over the endless generator of *)
(* events.py.  The client library buffers a message until its delivery     *)
(* report has been served by a poll; a buffer that is full makes produce() *)
(* raise BufferError.  A thread of the library sends the messages, one     *)
(* after the other unless it has to send one again: the configuration      *)
(* leaves idempotence off.                                                 *)
(*                                                                         *)
(* An event is <<run, counter>>: the run is the process that produced it,  *)
(* the counter is all that its event_id says besides the seed.             *)
(***************************************************************************)
EXTENDS Naturals, Sequences, SequencesExt, FiniteSets

CONSTANTS
  BurstEvery,        \* BURST_EVERY
  BurstMultiplier,   \* BURST_MULTIPLIER
  Capacity,          \* the library's bound on buffered messages
  MaxEvents,         \* bound on the events of a run
  MaxRuns,           \* bound on the starts of the process
  MaxFaults          \* bound on what goes wrong

ASSUME BurstAssumption == BurstEvery \in Nat /\ BurstMultiplier \in Nat \ {0}
ASSUME CapacityAssumption == Capacity \in Nat \ {0}
ASSUME ProducerBoundsAssumption == {MaxEvents, MaxFaults} \subseteq Nat /\ MaxRuns \in Nat \ {0}

VARIABLES
  topic,      \* the events in the broker's log
  run,        \* which process this is
  pc,
  counter,    \* the generator: the id of the next event
  left,       \* the generator: how many events of this tick are still to come
  event,      \* the event the loop holds
  sent,       \* sent of main()
  stopping,   \* not _RUNNING
  queue,      \* buffered: accepted and not answered, and whether sent in vain
  reports,    \* buffered: answered, the report not yet served
  failed,     \* history: the events whose report said so and was logged
  resent,     \* history: the library had to send again or to give up
  faults

generatorVars == <<counter, left>>
bufferVars == <<queue, reports, failed>>
vars == <<topic, run, pc, generatorVars, event, sent, stopping, bufferVars, resent, faults>>

Ended == {"stopped", "gave up", "killed"}
Ids == 0 .. MaxEvents

Message == [id : Ids, tried : BOOLEAN]
Report == [id : Ids, ok : BOOLEAN]

ProducerTypeOK ==
  /\ topic \in Seq((1 .. MaxRuns) \X Ids)
  /\ run \in 1 .. MaxRuns
  /\ pc \in {"next", "produce", "full", "again", "poll", "flush"} \cup Ended
  /\ counter \in 0 .. MaxEvents + 1
  /\ left \in 0 .. BurstMultiplier - 1
  /\ event \in Ids /\ sent \in Ids
  /\ {stopping, resent} \subseteq BOOLEAN
  /\ queue \in Seq(Message)
  /\ reports \in Seq(Report)
  /\ Len(queue) + Len(reports) <= Capacity
  /\ failed \subseteq Ids
  /\ faults \in 0 .. MaxFaults

-----------------------------------------------------------------------------
(* The generator *)

\* The events of a tick that begins with event n.
Emit(n) == IF BurstEvery > 0 /\ (n \div BurstEvery) % 2 = 1 THEN BurstMultiplier ELSE 1

-----------------------------------------------------------------------------
(* The loop *)

Fresh ==
  /\ pc' = "next" /\ stopping' = FALSE
  /\ counter' = 0 /\ left' = 0 /\ event' = 0 /\ sent' = 0
  /\ queue' = <<>> /\ reports' = <<>> /\ failed' = {} /\ resent' = FALSE

Init ==
  /\ topic = <<>> /\ run = 1 /\ pc = "next" /\ stopping = FALSE
  /\ counter = 0 /\ left = 0 /\ event = 0 /\ sent = 0
  /\ queue = <<>> /\ reports = <<>> /\ failed = {} /\ resent = FALSE
  /\ faults = 0

\* The container is started again and begins the same stream anew.
Start ==
  /\ pc \in Ended /\ run < MaxRuns
  /\ run' = run + 1
  /\ Fresh
  /\ UNCHANGED <<topic, faults>>

\* The signal is noticed only when the generator has yielded once more; that
\* event is dropped.
NextEvent ==
  /\ pc = "next"
  /\ counter < MaxEvents \/ stopping
  /\ event' = counter
  /\ counter' = counter + 1
  /\ left' = (IF left = 0 THEN Emit(counter) ELSE left) - 1
  /\ pc' = IF stopping THEN "flush" ELSE "produce"
  /\ UNCHANGED <<topic, run, sent, stopping, bufferVars, resent, faults>>

Room == Len(queue) + Len(reports) < Capacity

Enqueue == queue' = Append(queue, [id |-> event, tried |-> FALSE])

Produce ==
  /\ pc = "produce"
  /\ IF Room THEN Enqueue /\ pc' = "poll" ELSE pc' = "full" /\ UNCHANGED queue
  /\ UNCHANGED <<topic, run, generatorVars, event, sent, stopping, reports, failed, resent, faults>>

\* poll() runs the callback for every report there is.
ServeReports ==
  /\ reports' = <<>>
  /\ failed' = failed \cup {r.id : r \in {r \in Range(reports) : ~r.ok}}

Fault ==
  /\ faults < MaxFaults
  /\ faults' = faults + 1

\* poll(0.5) returns once it has served a report; that none arrives in time is
\* a fault.
PollForRoom ==
  /\ pc = "full"
  /\ IF reports = <<>> THEN Fault ELSE UNCHANGED faults
  /\ ServeReports
  /\ pc' = "again"
  /\ UNCHANGED <<topic, run, generatorVars, event, sent, stopping, queue, resent>>

\* Mutant of ProduceAgain: the retry itself is missing.
ProduceAgainSkipped ==
  /\ pc = "again"
  /\ pc' = "poll"
  /\ UNCHANGED <<topic, run, generatorVars, event, sent, stopping, bufferVars, resent, faults>>

\* Mutant of ProduceAgain: a loop that retries and never polls.
ProduceAgainForever ==
  /\ pc = "again"
  /\ Room /\ Enqueue /\ pc' = "poll"
  /\ UNCHANGED <<topic, run, generatorVars, event, sent, stopping, reports, failed, resent, faults>>

\* A second BufferError leaves main(), and the buffer goes with the process.
ProduceAgain ==
  /\ pc = "again"
  /\ IF Room THEN Enqueue /\ pc' = "poll" ELSE pc' = "gave up" /\ queue' = <<>>
  /\ UNCHANGED <<topic, run, generatorVars, event, sent, stopping, reports, failed, resent, faults>>

Poll ==
  /\ pc = "poll"
  /\ ServeReports
  /\ sent' = sent + 1
  /\ pc' = "next"
  /\ UNCHANGED <<topic, run, generatorVars, event, stopping, queue, resent, faults>>

\* Mutant of Flush: the call is missing.
FlushNothing ==
  /\ pc = "flush"
  /\ ServeReports
  /\ queue' = <<>>
  /\ pc' = "stopped"
  /\ UNCHANGED <<topic, run, generatorVars, event, sent, stopping, resent, faults>>

\* flush(10) returns when nothing is buffered; main() returns 0 also when the
\* ten seconds were not enough.
Flush ==
  /\ pc = "flush"
  /\ IF queue = <<>> THEN UNCHANGED faults ELSE Fault
  /\ ServeReports
  /\ queue' = <<>>
  /\ pc' = "stopped"
  /\ UNCHANGED <<topic, run, generatorVars, event, sent, stopping, resent>>

Sigterm ==
  /\ pc \notin Ended /\ ~stopping
  /\ stopping' = TRUE
  /\ UNCHANGED <<topic, run, pc, generatorVars, event, sent, bufferVars, resent, faults>>

Crash ==
  /\ Fault
  /\ pc \notin Ended
  /\ pc' = "killed"
  /\ queue' = <<>> /\ reports' = <<>>
  /\ UNCHANGED <<topic, run, generatorVars, event, sent, stopping, failed, resent>>

-----------------------------------------------------------------------------
(* The library's sending thread and the broker *)

\* What was sent in vain waits; the messages behind it are sent meanwhile.
Sendable(i) == \A j \in 1 .. i - 1 : queue[j].tried

AppendToTopic(i) == topic' = Append(topic, <<run, queue[i].id>>)

Answer(i, ok) ==
  /\ queue' = RemoveAt(queue, i)
  /\ reports' = Append(reports, [id |-> queue[i].id, ok |-> ok])

loopVars == <<run, pc, generatorVars, event, sent, stopping, failed>>

Delivered ==
  /\ \E i \in DOMAIN queue : Sendable(i) /\ AppendToTopic(i) /\ Answer(i, TRUE)
  /\ UNCHANGED <<loopVars, resent, faults>>

\* The request failed, or its answer was lost after the broker had appended.
SentInVain ==
  /\ Fault
  /\ \E i \in DOMAIN queue :
       /\ Sendable(i)
       /\ AppendToTopic(i) \/ UNCHANGED topic
       /\ queue' = [queue EXCEPT ![i].tried = TRUE]
  /\ resent' = TRUE
  /\ UNCHANGED <<loopVars, reports>>

\* The message timed out, or the broker refuses it.
DeliveryFails ==
  /\ Fault
  /\ \E i \in DOMAIN queue : Sendable(i) /\ Answer(i, FALSE)
  /\ resent' = TRUE
  /\ UNCHANGED <<loopVars, topic>>

-----------------------------------------------------------------------------

Loop ==
  \/ NextEvent \/ Produce \/ PollForRoom \/ ProduceAgain \/ Poll \/ Flush

Next ==
  \/ Loop \/ Start \/ Sigterm \/ Crash
  \/ Delivered \/ SentInVain \/ DeliveryFails

Spec == Init /\ [][Next]_vars

\* The process is scheduled, and the library sends what it can.
FairSpec == Spec /\ WF_vars(Loop) /\ WF_vars(Delivered)

-----------------------------------------------------------------------------
(* Safety *)

\* The places of this run's events among the first n of the topic.
Places(n) == {i \in 1 .. n : topic[i][1] = run}

InTopic(id) == <<run, id>> \in Range(topic)

\* The events this process has handed to the library.
Accepted == 0 .. (IF pc = "poll" THEN sent ELSE sent - 1)

\* While the process lives, every event its loop has counted as sent, or is
\* about to, is in the topic, still buffered, or reported as failed.
NothingVanishes ==
  pc \notin Ended =>
    \A id \in Accepted :
      \/ InTopic(id) \/ id \in failed
      \/ \E m \in Range(queue) : m.id = id
      \/ \E r \in Range(reports) : r.id = id

\* Unless the library had to repeat or to give up a message, the topic has of
\* this run a prefix of the stream: in order, without gaps or repetitions,
\* whatever buffer errors, kills and flushes cut short have happened.  (The
\* number of each event is how many of its run come before it.)
RunIsPrefix ==
  ~resent => \A i \in Places(Len(topic)) : topic[i][2] = Cardinality(Places(i - 1))

\* A producer that was told to stop, and that no fault met, has delivered just
\* the events its last log line counts.
CleanStopDeliversAll ==
  pc = "stopped" /\ faults = 0 => {topic[i][2] : i \in Places(Len(topic))} = 0 .. sent - 1

-----------------------------------------------------------------------------
(* Liveness *)

\* A producer that is told to stop does so, whatever its buffer holds.
StopsWhenTold == stopping ~> pc \in Ended

=============================================================================
