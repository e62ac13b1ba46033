---------------------------- MODULE ProducerProofs ----------------------------
(***************************************************************************)
(* Proofs about the producer, for every burst pattern, size of the buffer  *)
(* and number of events, restarts and faults.                              *)
(***************************************************************************)
EXTENDS Producer, SequenceTheorems, FiniteSetTheorems, TLAPS

-----------------------------------------------------------------------------
(* The inductive invariant *)

\* Between two events the generator is as far as the loop has counted; with an
\* event in hand, it is one ahead, and that event is the one to be counted next.
LoopCounts ==
  /\ pc = "next" => counter = sent
  /\ pc \in {"produce", "full", "again", "poll"} =>
       counter = sent + 1 /\ event = sent /\ sent < MaxEvents

\* What is reported as delivered is in the topic.
ReportsHold == \A r \in Range(reports) : r.ok => InTopic(r.id)

\* The inductive invariant.
ProducerInv == ProducerTypeOK /\ LoopCounts /\ ReportsHold /\ NothingVanishes

-----------------------------------------------------------------------------
(* Sequences *)

\* What Append makes of a sequence.
LEMMA AppendElements ==
  ASSUME NEW S, NEW q \in Seq(S), NEW x
  PROVE  /\ DOMAIN Append(q, x) = 1 .. Len(q) + 1 /\ Len(Append(q, x)) = Len(q) + 1
         /\ \A i \in 1 .. Len(q) : Append(q, x)[i] = q[i]
         /\ Append(q, x)[Len(q) + 1] = x
OBVIOUS

\* What Append adds to the elements of a sequence.
LEMMA AppendRange ==
  ASSUME NEW S, NEW q \in Seq(S), NEW x
  PROVE  Range(Append(q, x)) = Range(q) \cup {x}
<1>1. DOMAIN Append(q, x) = 1 .. Len(q) + 1 /\ DOMAIN q = 1 .. Len(q) /\ Len(q) \in Nat
  OBVIOUS
<1>2. Append(q, x)[Len(q) + 1] = x /\ \A i \in 1 .. Len(q) : Append(q, x)[i] = q[i]
  OBVIOUS
<1>3. \A i \in 1 .. Len(q) + 1 : i \in 1 .. Len(q) \/ i = Len(q) + 1
  BY <1>1
<1>4. 1 .. Len(q) \subseteq 1 .. Len(q) + 1 /\ Len(q) + 1 \in 1 .. Len(q) + 1
  BY <1>1
<1> QED
  BY <1>1, <1>2, <1>3, <1>4 DEF Range

\* What RemoveAt leaves of a sequence.
LEMMA RemoveAtRange ==
  ASSUME NEW S, NEW q \in Seq(S), NEW i \in DOMAIN q
  PROVE  /\ RemoveAt(q, i) \in Seq(S)
         /\ Len(RemoveAt(q, i)) = Len(q) - 1
         /\ \A x \in Range(q) : x = q[i] \/ x \in Range(RemoveAt(q, i))
<1> DEFINE head == SubSeq(q, 1, i - 1)
           tail == SubSeq(q, i + 1, Len(q))
<1>1. i \in 1 .. Len(q) /\ Len(q) \in Nat
  OBVIOUS
<1>2. head \in Seq(S) /\ Len(head) = i - 1 /\ \A j \in 1 .. i - 1 : head[j] = q[j]
  BY <1>1
<1>3. tail \in Seq(S) /\ Len(tail) = Len(q) - i /\ \A j \in 1 .. Len(q) - i : tail[j] = q[i + j]
  BY <1>1
<1>4. RemoveAt(q, i) = head \o tail
  BY DEF RemoveAt
<1> HIDE DEF head, tail
<1>5. head \o tail \in Seq(S) /\ Len(head \o tail) = Len(q) - 1
  BY <1>1, <1>2, <1>3
<1>6. ASSUME NEW j \in 1 .. Len(q), j # i
      PROVE  \E k \in 1 .. Len(q) - 1 : (head \o tail)[k] = q[j]
  <2>1. CASE j < i
    <3>1. j \in 1 .. Len(q) - 1 /\ j \in 1 .. i - 1
      BY <1>1, <2>1
    <3>2. (head \o tail)[j] = q[j]
      BY <1>1, <1>2, <1>3, <3>1
    <3> QED
      BY <3>1, <3>2
  <2>2. CASE j > i
    <3>1. j - 1 \in 1 .. Len(q) - 1 /\ j - i \in 1 .. Len(q) - i /\ i + (j - i) = j
      BY <1>1, <2>2
    <3>2. Len(head) = i - 1 /\ j - 1 > Len(head) /\ (j - 1) - Len(head) = j - i
      BY <1>1, <1>2, <2>2
    <3>3. (head \o tail)[j - 1] = tail[(j - 1) - Len(head)]
      <4>1. j - 1 \in 1 .. Len(head) + Len(tail)
        BY <1>1, <1>2, <1>3, <3>1, SMTT(30)
      <4>2. \A k \in 1 .. Len(head) + Len(tail) :
              k > Len(head) => (head \o tail)[k] = tail[k - Len(head)]
        <5>1. ASSUME NEW k \in 1 .. Len(head) + Len(tail), k > Len(head)
              PROVE  ~(k <= Len(head))
          BY <1>1, <1>2, <5>1
        <5> QED
          BY <1>2, <1>3, <5>1, ConcatProperties, Zenon
      <4> QED
        BY <3>2, <4>1, <4>2
    <3> QED
      BY <1>3, <3>1, <3>2, <3>3
  <2>3. j < i \/ j > i
    BY <1>1, <1>6
  <2> QED
    BY <2>1, <2>2, <2>3
<1>7. ASSUME NEW x \in Range(q), x # q[i]
      PROVE  x \in Range(head \o tail)
  <2>1. PICK j \in DOMAIN q : x = q[j]
    BY DEF Range
  <2>2. j \in 1 .. Len(q) /\ j # i
    BY <1>7, <2>1
  <2>3. PICK k \in 1 .. Len(q) - 1 : (head \o tail)[k] = q[j]
    BY <1>6, <2>2
  <2>4. k \in DOMAIN (head \o tail)
    BY <1>5
  <2> QED
    BY <2>1, <2>3, <2>4 DEF Range
<1> QED
  BY <1>4, <1>5, <1>7

-----------------------------------------------------------------------------
(* The sending thread *)

\* Whatever the library does to a message, an event that is accounted for
\* stays so.
AccountedFor(id) ==
  \/ InTopic(id) \/ id \in failed
  \/ \E m \in Range(queue) : m.id = id
  \/ \E r \in Range(reports) : r.id = id

\* An answer moves a message from the queue to the reports.
LEMMA AnswerKeeps ==
  ASSUME ProducerInv, NEW i \in DOMAIN queue, NEW ok \in BOOLEAN, Answer(i, ok),
         UNCHANGED <<loopVars>>, resent' \in BOOLEAN, faults' \in 0 .. MaxFaults,
         topic' = topic \/ AppendToTopic(i), ok => AppendToTopic(i)
  PROVE  ProducerInv'
<1> DEFINE report == [id |-> queue[i].id, ok |-> ok]
<1>1. /\ queue \in Seq(Message) /\ reports \in Seq(Report)
      /\ topic \in Seq((1 .. MaxRuns) \X Ids) /\ run \in 1 .. MaxRuns
      /\ Len(queue) + Len(reports) <= Capacity
  BY DEF ProducerInv, ProducerTypeOK
<1>0. /\ run' = run /\ pc' = pc /\ counter' = counter /\ left' = left /\ event' = event
      /\ sent' = sent /\ stopping' = stopping /\ failed' = failed
  BY DEF loopVars, generatorVars
<1>2. queue[i] \in Message /\ report \in Report
      /\ report.id = queue[i].id /\ report.ok = ok
  <2>1. queue[i] \in Message
    <3>1. queue \in Seq(Message) /\ i \in 1 .. Len(queue)
      BY <1>1
    <3> QED
      BY <3>1, ElementOfSeq, Zenon
  <2>2. queue[i].id \in Ids
    BY <2>1 DEF Message
  <2> QED
    BY <2>1, <2>2 DEF Report
<1>3. /\ queue' \in Seq(Message) /\ Len(queue') = Len(queue) - 1
      /\ \A m \in Range(queue) : m = queue[i] \/ m \in Range(queue')
  BY <1>1, RemoveAtRange DEF Answer
<1>4. /\ reports' \in Seq(Report) /\ Len(reports') = Len(reports) + 1
      /\ Range(reports') = Range(reports) \cup {report}
  BY <1>1, <1>2, AppendRange DEF Answer
<1>5. /\ topic' \in Seq((1 .. MaxRuns) \X Ids) /\ Range(topic) \subseteq Range(topic')
      /\ ok => <<run, queue[i].id>> \in Range(topic')
  <2>1. CASE AppendToTopic(i)
    <3>1. <<run, queue[i].id>> \in (1 .. MaxRuns) \X Ids
      BY <1>1, <1>2 DEF Message
    <3>2. Range(topic') = Range(topic) \cup {<<run, queue[i].id>>}
      BY <1>1, <2>1, AppendRange DEF AppendToTopic
    <3>3. topic' \in Seq((1 .. MaxRuns) \X Ids)
      BY <1>1, <2>1, <3>1 DEF AppendToTopic
    <3> QED
      BY <3>2, <3>3
  <2>2. CASE topic' = topic /\ ~ok
    BY <1>1, <2>2
  <2> QED
    BY <2>1, <2>2
<1>6. ProducerTypeOK'
  BY <1>0, <1>1, <1>3, <1>4, <1>5 DEF ProducerInv, ProducerTypeOK
<1>7. LoopCounts'
  BY <1>0 DEF ProducerInv, LoopCounts
<1>8. ReportsHold'
  BY <1>0, <1>2, <1>4, <1>5 DEF ProducerInv, ReportsHold, InTopic
<1>9. ASSUME NEW id, AccountedFor(id)
      PROVE  AccountedFor(id)'
  <2>1. CASE InTopic(id) \/ id \in failed
    BY <1>0, <1>5, <2>1 DEF AccountedFor, InTopic
  <2>2. ASSUME NEW m \in Range(queue), m.id = id
        PROVE  AccountedFor(id)'
    <3>1. CASE m = queue[i]
      BY <1>2, <1>4, <2>2, <3>1 DEF AccountedFor
    <3>2. CASE m # queue[i]
      BY <1>3, <2>2, <3>2 DEF AccountedFor
    <3> QED
      BY <3>1, <3>2
  <2>3. ASSUME NEW r \in Range(reports), r.id = id
        PROVE  AccountedFor(id)'
    BY <1>4, <2>3 DEF AccountedFor
  <2> QED
    BY <1>9, <2>1, <2>2, <2>3 DEF AccountedFor
<1>10. NothingVanishes'
  BY <1>0, <1>9 DEF ProducerInv, NothingVanishes, AccountedFor, Accepted, InTopic
<1> QED
  BY <1>6, <1>7, <1>8, <1>10 DEF ProducerInv

\* A request that was in vain leaves its message where it was.
LEMMA SentInVainKeeps ==
  ASSUME ProducerInv, SentInVain
  PROVE  ProducerInv'
<1>1. /\ queue \in Seq(Message) /\ topic \in Seq((1 .. MaxRuns) \X Ids) /\ run \in 1 .. MaxRuns
      /\ Len(queue) + Len(reports) <= Capacity /\ faults \in 0 .. MaxFaults
  BY DEF ProducerInv, ProducerTypeOK
<1>0. /\ run' = run /\ pc' = pc /\ counter' = counter /\ left' = left /\ event' = event
      /\ sent' = sent /\ stopping' = stopping /\ failed' = failed /\ reports' = reports
      /\ resent' = TRUE
  BY DEF SentInVain, loopVars, generatorVars
<1>2. faults' \in 0 .. MaxFaults
  BY <1>1, ProducerBoundsAssumption DEF SentInVain, Fault
<1>3. PICK i \in DOMAIN queue :
        /\ AppendToTopic(i) \/ UNCHANGED topic
        /\ queue' = [queue EXCEPT ![i].tried = TRUE]
  BY DEF SentInVain
<1>4. DOMAIN queue = 1 .. Len(queue) /\ Len(queue) \in Nat /\ \A j \in DOMAIN queue : queue[j] \in Message
  <2>1. DOMAIN queue = 1 .. Len(queue) /\ Len(queue) \in Nat
    BY <1>1
  <2> QED
    BY <1>1, <2>1, ElementOfSeq, Zenon
<1>5. /\ DOMAIN queue' = DOMAIN queue
      /\ \A j \in DOMAIN queue : queue'[j] \in Message /\ queue'[j].id = queue[j].id
  BY <1>3, <1>4 DEF Message
<1>6. queue' \in Seq(Message) /\ Len(queue') = Len(queue)
  <2>1. queue' \in [1 .. Len(queue) -> Message]
    BY <1>3, <1>4, <1>5
  <2> QED
    BY <1>4, <2>1
<1>7. topic' \in Seq((1 .. MaxRuns) \X Ids) /\ Range(topic) \subseteq Range(topic')
  <2>1. CASE AppendToTopic(i)
    <3>1. <<run, queue[i].id>> \in (1 .. MaxRuns) \X Ids
      BY <1>1, <1>4 DEF Message
    <3>2. Range(topic') = Range(topic) \cup {<<run, queue[i].id>>}
      BY <1>1, <2>1, AppendRange DEF AppendToTopic
    <3>3. topic' \in Seq((1 .. MaxRuns) \X Ids)
      BY <1>1, <2>1, <3>1 DEF AppendToTopic
    <3> QED
      BY <3>2, <3>3
  <2> QED
    BY <1>1, <1>3, <2>1
<1>8. ProducerTypeOK'
  BY <1>0, <1>1, <1>2, <1>6, <1>7 DEF ProducerInv, ProducerTypeOK
<1>9. LoopCounts' /\ ReportsHold'
  BY <1>0, <1>7 DEF ProducerInv, LoopCounts, ReportsHold, InTopic
<1>10. ASSUME NEW id, AccountedFor(id)
       PROVE  AccountedFor(id)'
  <2>1. ASSUME NEW m \in Range(queue), m.id = id
        PROVE  \E n \in Range(queue') : n.id = id
    BY <1>5, <2>1 DEF Range
  <2> QED
    BY <1>0, <1>7, <1>10, <2>1 DEF AccountedFor, InTopic
<1>11. NothingVanishes'
  BY <1>0, <1>10 DEF ProducerInv, NothingVanishes, AccountedFor, Accepted, InTopic
<1> QED
  BY <1>8, <1>9, <1>11 DEF ProducerInv

-----------------------------------------------------------------------------
(* The loop *)

\* A poll turns reports into nothing worse than log lines.
LEMMA ServeKeeps ==
  ASSUME ProducerInv, ServeReports, run' = run, topic' = topic
  PROVE  /\ reports' = <<>> /\ reports' \in Seq(Report)
         /\ failed' \subseteq Ids /\ failed \subseteq failed'
         /\ ReportsHold'
         /\ queue' = queue => \A id : AccountedFor(id) => AccountedFor(id)'
<1>1. reports \in Seq(Report) /\ failed \subseteq Ids
  BY DEF ProducerInv, ProducerTypeOK
<1>2. \A r \in Range(reports) : r \in Report
  <2>1. DOMAIN reports = 1 .. Len(reports)
    BY <1>1
  <2> QED
    BY <1>1, <2>1, ElementOfSeq, Zenon DEF Range
<1>3. reports' = <<>> /\ Range(reports') = {} /\ reports' \in Seq(Report)
  BY DEF ServeReports, Range
<1>4. failed' \subseteq Ids /\ failed \subseteq failed'
  BY <1>1, <1>2 DEF ServeReports, Report
<1>5. ASSUME queue' = queue, NEW id, AccountedFor(id)
      PROVE  AccountedFor(id)'
  <2>1. ASSUME NEW r \in Range(reports), r.id = id
        PROVE  InTopic(id) \/ id \in failed'
    BY <1>2, <2>1 DEF ProducerInv, ReportsHold, ServeReports
  <2> QED
    BY <1>4, <1>5, <2>1 DEF AccountedFor, InTopic
<1> QED
  BY <1>3, <1>4, <1>5 DEF ReportsHold

\* What is enqueued finds room and is accounted for.
LEMMA EnqueueKeeps ==
  ASSUME ProducerInv, Room, Enqueue, UNCHANGED <<run, topic, event, reports, failed>>
  PROVE  /\ queue' \in Seq(Message)
         /\ Len(queue') + Len(reports') <= Capacity
         /\ AccountedFor(event)'
         /\ \A id : AccountedFor(id) => AccountedFor(id)'
<1> DEFINE new == [id |-> event, tried |-> FALSE]
<1>1. /\ queue \in Seq(Message) /\ reports \in Seq(Report)
      /\ event \in Ids
  BY DEF ProducerInv, ProducerTypeOK
<1>2. /\ queue' \in Seq(Message) /\ Len(queue') = Len(queue) + 1
      /\ Range(queue') = Range(queue) \cup {new}
  <2>1. queue \in Seq(Message) /\ new \in Message /\ queue' = Append(queue, new)
    BY <1>1 DEF Enqueue, Message
  <2> HIDE DEF new
  <2>2. queue' \in Seq(Message) /\ Len(queue') = Len(queue) + 1
    BY <2>1
  <2>3. Range(queue') = Range(queue) \cup {new}
    BY <2>1, AppendRange
  <2> QED
    BY <2>2, <2>3
<1>3. Len(queue') + Len(reports') <= Capacity
  BY <1>1, <1>2, CapacityAssumption DEF Room
<1>4. AccountedFor(event)'
  <2>1. new.id = event /\ new \in Range(queue')
    BY <1>2
  <2>2. \E m \in Range(queue') : m.id = event
    BY <2>1
  <2> QED
    BY <2>2 DEF AccountedFor
<1> QED
  BY <1>2, <1>3, <1>4 DEF AccountedFor, InTopic

\* An empty sequence fits any type and any room.
LEMMA Nothing == \A S : <<>> \in Seq(S) /\ Len(<<>>) = 0 /\ Range(<<>>) = {}
  BY DEF Range

\* Discarding the queue, or the reports, or both, leaves the buffer within its bound.
LEMMA DiscardKeeps ==
  ASSUME ProducerInv, queue' \in {queue, <<>>}, reports' \in {reports, <<>>}
  PROVE  /\ queue' \in Seq(Message) /\ reports' \in Seq(Report)
         /\ Len(queue') + Len(reports') <= Capacity
<1>1. /\ queue \in Seq(Message) /\ reports \in Seq(Report)
      /\ Len(queue) + Len(reports) <= Capacity
  BY DEF ProducerInv, ProducerTypeOK
<1>2. Len(queue) \in Nat /\ Len(reports) \in Nat
  BY <1>1
<1>3. queue' \in Seq(Message) /\ (Len(queue') = Len(queue) \/ Len(queue') = 0)
  BY <1>1, Nothing
<1>4. reports' \in Seq(Report) /\ (Len(reports') = Len(reports) \/ Len(reports') = 0)
  BY <1>1, Nothing
<1> QED
  BY <1>1, <1>2, <1>3, <1>4, CapacityAssumption

\* The initial state of a run satisfies the invariant.
LEMMA ProducerInitKeeps == Init => ProducerInv
<1> SUFFICES ASSUME Init PROVE ProducerInv
  OBVIOUS
<1>1. ProducerTypeOK
  <2>1. topic \in Seq((1 .. MaxRuns) \X Ids) /\ queue \in Seq(Message) /\ reports \in Seq(Report)
        /\ Len(queue) + Len(reports) <= Capacity
    BY Nothing, CapacityAssumption DEF Init
  <2>2. /\ 0 \in 0 .. MaxEvents /\ 0 \in 0 .. MaxEvents + 1 /\ 0 \in 0 .. MaxFaults
        /\ 0 \in 0 .. BurstMultiplier - 1 /\ 1 \in 1 .. MaxRuns
    BY BurstAssumption, ProducerBoundsAssumption
  <2> QED
    BY <2>1, <2>2 DEF Init, ProducerTypeOK, Ids
<1>2. LoopCounts /\ ReportsHold /\ NothingVanishes
  BY DEF Init, LoopCounts, ReportsHold, NothingVanishes, Accepted, Range
<1> QED
  BY <1>1, <1>2 DEF ProducerInv

\* Every step of the loop keeps the invariant.
LEMMA LoopKeeps ==
  ASSUME ProducerInv, Loop
  PROVE  ProducerInv'
<1>0. ProducerTypeOK /\ LoopCounts /\ ReportsHold
  BY DEF ProducerInv
<1>a. pc \notin Ended => \A id \in Accepted : AccountedFor(id)
  BY DEF ProducerInv, NothingVanishes, AccountedFor
<1>b. \A id : InTopic(id) /\ run' = run /\ topic' = topic => InTopic(id)'
  BY DEF InTopic
<1>c. ASSUME pc' \notin Ended => \A id \in Accepted' : AccountedFor(id)'
      PROVE  NothingVanishes'
  BY <1>c DEF NothingVanishes, AccountedFor
<1>1. CASE NextEvent
  <2>1. ProducerTypeOK'
    <3>1. counter \in Nat /\ counter <= MaxEvents /\ counter' = counter + 1 /\ event' = counter
      BY <1>0, <1>1, ProducerBoundsAssumption DEF NextEvent, ProducerTypeOK, LoopCounts, Ids
    <3>2. left' \in 0 .. BurstMultiplier - 1
      BY <1>0, <1>1, BurstAssumption DEF NextEvent, ProducerTypeOK, Emit
    <3> QED
      BY <1>0, <1>1, <3>1, <3>2, ProducerBoundsAssumption
         DEF NextEvent, ProducerTypeOK, bufferVars, Ids, Ended
  <2>2. LoopCounts' /\ ReportsHold'
    BY <1>0, <1>1, ProducerBoundsAssumption
       DEF NextEvent, ProducerTypeOK, LoopCounts, ReportsHold, InTopic, bufferVars, Ids
  <2>3. NothingVanishes'
    <3>1. ASSUME NEW id, AccountedFor(id) PROVE AccountedFor(id)'
      BY <1>1, <3>1 DEF NextEvent, AccountedFor, InTopic, bufferVars
    <3> QED
      BY <1>1, <1>a, <1>c, <3>1 DEF NextEvent, Accepted, Ended
  <2> QED
    BY <2>1, <2>2, <2>3 DEF ProducerInv
<1>2. ASSUME pc \in {"produce", "again"}, Room, Enqueue, pc' = "poll",
             UNCHANGED <<topic, run, generatorVars, event, sent, stopping, reports, failed, resent, faults>>
      PROVE  ProducerInv'
  <2>1. /\ queue' \in Seq(Message)
        /\ Len(queue') + Len(reports') <= Capacity
        /\ AccountedFor(event)'
        /\ \A id : AccountedFor(id) => AccountedFor(id)'
    BY <1>2, EnqueueKeeps
  <2>2. ProducerTypeOK'
    BY <1>0, <1>2, <2>1 DEF ProducerTypeOK, generatorVars
  <2>3. LoopCounts' /\ ReportsHold'
    BY <1>0, <1>2 DEF LoopCounts, ReportsHold, InTopic, generatorVars
  <2>4. NothingVanishes'
    <3>1. event' = event /\ event = sent /\ sent' = sent /\ sent \in Nat
      BY <1>0, <1>2 DEF LoopCounts, ProducerTypeOK, Ids
    <3>2. Accepted = 0 .. sent - 1 /\ Accepted' = 0 .. sent
      BY <1>2, <3>1 DEF Accepted
    <3>3. \A id \in Accepted' : id \in Accepted \/ id = event'
      BY <3>1, <3>2
    <3>4. \A id : id = event' => AccountedFor(id)'
      BY <2>1, <3>1
    <3> QED
      BY <1>2, <1>a, <1>c, <2>1, <3>3, <3>4 DEF Ended
  <2> QED
    BY <2>2, <2>3, <2>4 DEF ProducerInv
<1>3. ASSUME pc = "produce", pc' = "full",
             UNCHANGED <<topic, run, generatorVars, event, sent, stopping, queue, reports, failed, resent, faults>>
      PROVE  ProducerInv'
  <2>1. ProducerTypeOK' /\ LoopCounts' /\ ReportsHold'
    BY <1>0, <1>3 DEF ProducerTypeOK, LoopCounts, ReportsHold, InTopic, generatorVars
  <2>2. NothingVanishes'
    BY <1>3 DEF ProducerInv, NothingVanishes, Accepted, InTopic, Ended
  <2> QED
    BY <2>1, <2>2 DEF ProducerInv
<1>4. CASE Produce
  <2>1. CASE Room
    BY <1>2, <1>4, <2>1 DEF Produce
  <2>2. CASE ~Room
    BY <1>3, <1>4, <2>2 DEF Produce
  <2> QED
    BY <2>1, <2>2
<1>5. CASE ProduceAgain
  <2>1. CASE Room
    BY <1>2, <1>5, <2>1 DEF ProduceAgain
  <2>2. CASE ~Room
    <3>1. pc' = "gave up" /\ queue' = <<>>
      BY <1>5, <2>2 DEF ProduceAgain
    <3>2. ProducerTypeOK'
      <4>1. /\ queue' \in Seq(Message) /\ reports' \in Seq(Report)
            /\ Len(queue') + Len(reports') <= Capacity
        BY <1>5, <3>1, DiscardKeeps DEF ProduceAgain
      <4> QED
        BY <1>0, <1>5, <3>1, <4>1 DEF ProduceAgain, ProducerTypeOK, generatorVars, Ended
    <3>3. LoopCounts' /\ ReportsHold' /\ NothingVanishes'
      BY <1>0, <1>5, <3>1
         DEF ProduceAgain, LoopCounts, ReportsHold, NothingVanishes, InTopic, Ended
    <3> QED
      BY <3>2, <3>3 DEF ProducerInv
  <2> QED
    BY <2>1, <2>2
<1>6. CASE PollForRoom \/ Poll \/ Flush
  <2>1. ServeReports /\ run' = run /\ topic' = topic
    BY <1>6 DEF PollForRoom, Poll, Flush
  <2>2. /\ reports' = <<>> /\ reports' \in Seq(Report)
        /\ failed' \subseteq Ids
        /\ ReportsHold'
        /\ queue' = queue => \A id : AccountedFor(id) => AccountedFor(id)'
    BY <2>1, ServeKeeps
  <2>3. faults' \in 0 .. MaxFaults
    BY <1>0, <1>6, ProducerBoundsAssumption DEF PollForRoom, Poll, Flush, Fault, ProducerTypeOK
  <2>4. /\ queue' \in Seq(Message)
        /\ Len(queue') + Len(reports') <= Capacity
    BY <1>6, <2>2, DiscardKeeps DEF PollForRoom, Poll, Flush
  <2>5. LoopCounts' /\ sent' \in Ids
    <3>1. sent \in Nat /\ sent <= MaxEvents /\ MaxEvents \in Nat
      BY <1>0, ProducerBoundsAssumption DEF ProducerTypeOK, Ids
    <3>2. CASE PollForRoom
      BY <1>0, <3>1, <3>2 DEF PollForRoom, LoopCounts, generatorVars, Ids
    <3>3. CASE Poll
      BY <1>0, <3>1, <3>3 DEF Poll, LoopCounts, generatorVars, Ids
    <3>4. CASE Flush
      BY <1>0, <3>1, <3>4 DEF Flush, LoopCounts, generatorVars, Ids
    <3> QED
      BY <1>6, <3>2, <3>3, <3>4
  <2>6. ProducerTypeOK'
    BY <1>0, <1>6, <2>1, <2>2, <2>3, <2>4, <2>5
       DEF PollForRoom, Poll, Flush, ProducerTypeOK, generatorVars, Ended
  <2>7. NothingVanishes'
    <3>1. pc' \notin Ended => Accepted' = Accepted /\ queue' = queue /\ pc \notin Ended
      <4>1. sent \in Nat
        BY <1>0, ProducerBoundsAssumption DEF ProducerTypeOK, Ids
      <4>2. CASE PollForRoom
        BY <4>2 DEF PollForRoom, Accepted, Ended
      <4>3. CASE Poll
        <5>1. pc = "poll" /\ pc' = "next" /\ sent' = sent + 1 /\ queue' = queue
          BY <4>3 DEF Poll
        <5>2. (sent + 1) - 1 = sent
          BY <4>1
        <5> QED
          BY <5>1, <5>2 DEF Accepted, Ended
      <4>4. CASE Flush
        BY <4>4 DEF Flush, Ended
      <4> QED
        BY <1>6, <4>2, <4>3, <4>4
    <3> QED
      BY <1>a, <1>c, <2>2, <3>1
  <2> QED
    BY <2>2, <2>5, <2>6, <2>7 DEF ProducerInv
<1> QED
  BY <1>1, <1>4, <1>5, <1>6 DEF Loop

\* The invariant is inductive.
LEMMA ProducerStep == ProducerInv /\ [Next]_vars => ProducerInv'
<1> SUFFICES ASSUME ProducerInv, [Next]_vars PROVE ProducerInv'
  OBVIOUS
<1>0. ProducerTypeOK /\ LoopCounts /\ ReportsHold /\ NothingVanishes
  BY DEF ProducerInv
<1>1. CASE Loop
  BY <1>1, LoopKeeps
<1>2. CASE Start
  <2>1. ProducerTypeOK'
    <3>1. /\ queue' \in Seq(Message) /\ reports' \in Seq(Report)
          /\ Len(queue') + Len(reports') <= Capacity
      BY <1>2, DiscardKeeps DEF Start, Fresh
    <3>2. run' \in 1 .. MaxRuns
      BY <1>0, <1>2, ProducerBoundsAssumption DEF Start, ProducerTypeOK
    <3>3. /\ 0 \in 0 .. MaxEvents /\ 0 \in 0 .. MaxEvents + 1
          /\ 0 \in 0 .. BurstMultiplier - 1
      BY BurstAssumption, ProducerBoundsAssumption
    <3> QED
      BY <1>0, <1>2, <3>1, <3>2, <3>3 DEF Start, Fresh, ProducerTypeOK, Ids
  <2>2. LoopCounts' /\ ReportsHold' /\ NothingVanishes'
    BY <1>2 DEF Start, Fresh, LoopCounts, ReportsHold, NothingVanishes, Accepted, Range
  <2> QED
    BY <2>1, <2>2 DEF ProducerInv
<1>3. CASE Sigterm
  <2>1. ProducerTypeOK' /\ LoopCounts' /\ ReportsHold'
    BY <1>0, <1>3
       DEF Sigterm, ProducerTypeOK, LoopCounts, ReportsHold, InTopic, generatorVars, bufferVars
  <2>2. NothingVanishes'
    BY <1>0, <1>3 DEF Sigterm, NothingVanishes, Accepted, InTopic, bufferVars
  <2> QED
    BY <2>1, <2>2 DEF ProducerInv
<1>4. CASE Crash
  <2>1. faults' \in 0 .. MaxFaults
    BY <1>0, <1>4, ProducerBoundsAssumption DEF Crash, Fault, ProducerTypeOK
  <2>2. ProducerTypeOK'
    <3>1. /\ queue' \in Seq(Message) /\ reports' \in Seq(Report)
          /\ Len(queue') + Len(reports') <= Capacity
      BY <1>4, DiscardKeeps DEF Crash
    <3> QED
      BY <1>0, <1>4, <2>1, <3>1 DEF Crash, ProducerTypeOK, generatorVars, Ended
  <2>3. LoopCounts' /\ ReportsHold' /\ NothingVanishes'
    <3>1. pc' = "killed" /\ Range(reports') = {}
      BY <1>4, Nothing DEF Crash
    <3> QED
      BY <3>1 DEF LoopCounts, ReportsHold, NothingVanishes, Ended
  <2> QED
    BY <2>2, <2>3 DEF ProducerInv
<1>5. CASE Delivered \/ DeliveryFails
  <2>1. resent' \in BOOLEAN /\ faults' \in 0 .. MaxFaults /\ UNCHANGED loopVars
    <3>1. faults' \in 0 .. MaxFaults
      <4>1. faults \in 0 .. MaxFaults
        BY <1>0 DEF ProducerTypeOK
      <4>2. faults' = faults \/ Fault
        BY <1>5 DEF Delivered, DeliveryFails
      <4> QED
        BY <4>1, <4>2, ProducerBoundsAssumption DEF Fault
    <3>2. resent' \in BOOLEAN
      BY <1>0, <1>5 DEF Delivered, DeliveryFails, ProducerTypeOK
    <3>3. UNCHANGED loopVars
      BY <1>5 DEF Delivered, DeliveryFails
    <3> QED
      BY <3>1, <3>2, <3>3
  <2>2. PICK i \in DOMAIN queue, ok \in BOOLEAN :
          /\ Answer(i, ok) /\ (topic' = topic \/ AppendToTopic(i)) /\ (ok => AppendToTopic(i))
    BY <1>5 DEF Delivered, DeliveryFails
  <2> QED
    BY <2>1, <2>2, AnswerKeeps
<1>6. CASE SentInVain
  BY <1>6, SentInVainKeeps
<1>7. CASE UNCHANGED vars
  <2>1. ProducerTypeOK' /\ LoopCounts' /\ ReportsHold'
    BY <1>0, <1>7
       DEF vars, ProducerTypeOK, LoopCounts, ReportsHold, InTopic, generatorVars, bufferVars
  <2>2. NothingVanishes'
    BY <1>0, <1>7 DEF vars, NothingVanishes, Accepted, InTopic, bufferVars
  <2> QED
    BY <2>1, <2>2 DEF ProducerInv
<1> QED
  BY <1>1, <1>2, <1>3, <1>4, <1>5, <1>6, <1>7 DEF Next

\* In every reachable state the buffer is within its capacity, the counts of
\* the loop and of the generator agree, and reports of success are true.
THEOREM ProducerSound == Spec => []ProducerInv
  BY ProducerInitKeeps, ProducerStep, PTL DEF Spec

\* No event that main() has counted as sent vanishes while the process lives:
\* it is in the topic, in the buffer, or was logged as failed
\* (producer/main.py:85-100), whatever is lost, refused or sent again.
THEOREM CountedEventsAccountedFor == Spec => []NothingVanishes
  BY ProducerSound, PTL DEF ProducerInv

-----------------------------------------------------------------------------
(* The order in the topic *)

\* How many events of this run the topic has.
Arrived == Cardinality(Places(Len(topic)))

\* How many events this process has handed to the library.
Handed == IF pc = "poll" THEN sent + 1 ELSE sent

\* The buffer goes on where the topic ends, up to the last event handed over.
QueueFollows ==
  /\ \A i \in DOMAIN queue : ~queue[i].tried /\ queue[i].id = Arrived + i - 1
  /\ Arrived + Len(queue) = Handed

\* The inductive invariant: nothing is repeated without a fault, and as long as
\* nothing is, topic and buffer together are the stream so far.
StreamInv ==
  /\ \A i \in DOMAIN topic : topic[i][1] <= run
  /\ pc \in Ended => queue = <<>>
  /\ faults = 0 => ~resent
  /\ RunIsPrefix
  /\ ~resent /\ pc \notin Ended => QueueFollows
  /\ pc = "stopped" /\ faults = 0 => Arrived = sent

\* Places are finitely many, and their number is as large as they reach at most.
LEMMA PlacesFinite ==
  ASSUME NEW n \in Nat
  PROVE  IsFiniteSet(Places(n)) /\ Cardinality(Places(n)) \in Nat
<1>1. IsFiniteSet(1 .. n)
  BY FS_Interval
<1>2. Places(n) \subseteq 1 .. n
  BY DEF Places
<1> QED
  BY <1>1, <1>2, FS_Subset, FS_CardinalityType

\* One more event of this run behind the others leaves their places as they are
\* and is preceded by them.
LEMMA ArrivalCounts ==
  ASSUME NEW T, topic \in Seq(T), NEW id, topic' = Append(topic, <<run, id>>), run' = run
  PROVE  /\ Len(topic') = Len(topic) + 1 /\ Len(topic) \in Nat
         /\ \A i \in DOMAIN topic : topic'[i] = topic[i]
         /\ topic'[Len(topic) + 1] = <<run, id>>
         /\ \A n \in 0 .. Len(topic) : Places(n)' = Places(n)
         /\ Places(Len(topic))' = Places(Len(topic)) \cup {Len(topic) + 1}
         /\ Arrived' = Arrived + 1
<1>1. /\ Len(topic) \in Nat /\ Len(topic') = Len(topic) + 1 /\ DOMAIN topic = 1 .. Len(topic)
      /\ \A i \in 1 .. Len(topic) : topic'[i] = topic[i]
      /\ topic'[Len(topic) + 1] = <<run, id>>
  OBVIOUS
<1>2. \A n \in 0 .. Len(topic) : Places(n)' = Places(n)
  <2>1. \A n \in 0 .. Len(topic) : \A i \in 1 .. n : i \in 1 .. Len(topic)
    BY <1>1
  <2> QED
    BY <1>1, <2>1 DEF Places
<1>3. Places(Len(topic))' = Places(Len(topic)) \cup {Len(topic) + 1}
  <2>1. 1 .. Len(topic) + 1 = (1 .. Len(topic)) \cup {Len(topic) + 1}
    BY <1>1
  <2>2. topic'[Len(topic) + 1][1] = run
    BY <1>1
  <2> QED
    BY <1>1, <2>1, <2>2 DEF Places
<1>4. Arrived' = Arrived + 1
  <2>1. Len(topic) + 1 \notin Places(Len(topic))
    BY <1>1 DEF Places
  <2>2. IsFiniteSet(Places(Len(topic)))
    BY <1>1, PlacesFinite
  <2> QED
    BY <1>3, <2>1, <2>2, FS_AddElement DEF Arrived
<1> QED
  BY <1>1, <1>2, <1>3, <1>4

\* The head of a sequence goes, and the others move up.
LEMMA HeadRemoved ==
  ASSUME NEW S, NEW q \in Seq(S), 1 \in DOMAIN q
  PROVE  /\ Len(RemoveAt(q, 1)) = Len(q) - 1
         /\ \A i \in DOMAIN RemoveAt(q, 1) : i + 1 \in DOMAIN q /\ RemoveAt(q, 1)[i] = q[i + 1]
<1>1. Len(q) \in Nat /\ DOMAIN q = 1 .. Len(q) /\ 1 <= Len(q)
  OBVIOUS
<1> DEFINE tail == SubSeq(q, 2, Len(q))
<1>2. SubSeq(q, 1, 0) = <<>>
  OBVIOUS
<1>3. tail \in Seq(S) /\ Len(tail) = Len(q) - 1 /\ \A i \in 1 .. Len(q) - 1 : tail[i] = q[i + 1]
  BY <1>1
<1>4. RemoveAt(q, 1) = SubSeq(q, 1, 0) \o tail
  BY DEF RemoveAt
<1> HIDE DEF tail
<1>5. RemoveAt(q, 1) = tail
  BY <1>2, <1>3, <1>4
<1>6. \A i \in DOMAIN tail : i + 1 \in DOMAIN q /\ tail[i] = q[i + 1]
  <2>1. DOMAIN tail = 1 .. Len(q) - 1
    BY <1>1, <1>3
  <2> QED
    BY <1>1, <1>3, <2>1
<1> QED
  BY <1>3, <1>5, <1>6

\* What holds of the topic while it is not touched, in the same run.
LEMMA TopicKept ==
  ASSUME topic' = topic, run' = run
  PROVE  /\ Arrived' = Arrived
         /\ RunIsPrefix /\ (~resent' => ~resent) => RunIsPrefix'
         /\ (\A i \in DOMAIN topic : topic[i][1] <= run) =>
              \A i \in DOMAIN topic' : topic'[i][1] <= run'
<1>1. \A n : Places(n)' = Places(n)
  BY DEF Places
<1> QED
  BY <1>1 DEF Arrived, RunIsPrefix

\* A message at the head of the buffer arrives: the topic and the buffer are
\* still the stream together.
LEMMA ArrivalKeeps ==
  ASSUME ProducerInv, StreamInv, ~resent, pc \notin Ended, 1 \in DOMAIN queue,
         AppendToTopic(1), queue' = RemoveAt(queue, 1), UNCHANGED <<loopVars, resent, faults>>
  PROVE  StreamInv'
<1>1. /\ topic \in Seq((1 .. MaxRuns) \X Ids) /\ queue \in Seq(Message) /\ run \in 1 .. MaxRuns
      /\ DOMAIN queue = 1 .. Len(queue) /\ Len(queue) \in Nat
      /\ DOMAIN topic = 1 .. Len(topic) /\ Len(topic) \in Nat
  BY DEF ProducerInv, ProducerTypeOK
<1>2. /\ run' = run /\ pc' = pc /\ sent' = sent /\ resent' = resent /\ faults' = faults
  BY DEF loopVars
<1>3. /\ Len(topic') = Len(topic) + 1
      /\ \A i \in DOMAIN topic : topic'[i] = topic[i]
      /\ topic'[Len(topic) + 1] = <<run, queue[1].id>>
      /\ \A n \in 0 .. Len(topic) : Places(n)' = Places(n)
      /\ Places(Len(topic))' = Places(Len(topic)) \cup {Len(topic) + 1}
      /\ Arrived' = Arrived + 1
  <2>1. topic' = Append(topic, <<run, queue[1].id>>)
    BY DEF AppendToTopic
  <2> QED
    BY <1>1, <1>2, <2>1, ArrivalCounts
<1>4. QueueFollows /\ Arrived \in Nat
  BY <1>1, PlacesFinite DEF StreamInv, Arrived
<1>5. queue[1].id = Arrived
  BY <1>4 DEF QueueFollows
<1>6. DOMAIN topic' = 1 .. Len(topic) + 1
  BY <1>1, <1>3 DEF AppendToTopic
<1>7. \A i \in DOMAIN topic' : topic'[i][1] <= run'
  <2>1. ASSUME NEW i \in DOMAIN topic' PROVE topic'[i][1] <= run
    <3>1. CASE i \in DOMAIN topic
      BY <1>3, <3>1 DEF StreamInv
    <3>2. CASE i = Len(topic) + 1
      BY <1>1, <1>3, <3>2
    <3> QED
      BY <1>1, <1>6, <2>1, <3>1, <3>2
  <2> QED
    BY <1>2, <2>1
<1>8. RunIsPrefix'
  <2>1. ASSUME NEW i \in Places(Len(topic))'
        PROVE  topic'[i][2] = Cardinality(Places(i - 1)')
    <3>1. CASE i \in Places(Len(topic))
      <4>1. i \in 1 .. Len(topic) /\ i - 1 \in 0 .. Len(topic)
        BY <1>1, <3>1 DEF Places
      <4>2. topic[i][2] = Cardinality(Places(i - 1))
        BY <3>1 DEF StreamInv, RunIsPrefix
      <4> QED
        BY <1>1, <1>3, <4>1, <4>2
    <3>2. CASE i = Len(topic) + 1
      <4>1. i - 1 = Len(topic) /\ i - 1 \in 0 .. Len(topic)
        BY <1>1, <3>2
      <4>2. Cardinality(Places(i - 1)') = Arrived
        BY <1>3, <4>1 DEF Arrived
      <4> QED
        BY <1>3, <1>5, <3>2, <4>2
    <3> QED
      BY <1>3, <2>1, <3>1, <3>2
  <2>2. \A i \in Places(Len(topic))' : topic'[i][2] = Cardinality(Places(i - 1)')
    BY <2>1
  <2> QED
    BY <2>2 DEF RunIsPrefix
<1>9. QueueFollows'
  <2>1. /\ Len(queue') = Len(queue) - 1
        /\ \A i \in DOMAIN queue' : i + 1 \in DOMAIN queue /\ queue'[i] = queue[i + 1]
    BY <1>1, HeadRemoved
  <2>2. ASSUME NEW i \in DOMAIN queue'
        PROVE  ~queue'[i].tried /\ queue'[i].id = Arrived' + i - 1
    <3>1. i + 1 \in 1 .. Len(queue) /\ queue'[i] = queue[i + 1]
      BY <1>1, <2>1
    <3>2. ~queue[i + 1].tried /\ queue[i + 1].id = Arrived + (i + 1) - 1
      BY <1>1, <1>4, <3>1 DEF QueueFollows
    <3>3. i \in Int
      <4>1. queue' \in Seq(Message)
        BY <1>1, RemoveAtRange
      <4> QED
        BY <4>1
    <3>4. Arrived + (i + 1) - 1 = Arrived' + i - 1
      BY <1>3, <1>4, <3>3
    <3> QED
      BY <3>1, <3>2, <3>4
  <2>3. Handed' = Handed
    BY <1>2 DEF Handed
  <2>4. Arrived' + Len(queue') = Handed'
    <3>1. Arrived + Len(queue) = Handed
      BY <1>4 DEF QueueFollows
    <3> QED
      BY <1>1, <1>3, <1>4, <2>1, <2>3, <3>1, SMTT(30)
  <2> QED
    BY <2>2, <2>4 DEF QueueFollows
<1>10. pc' \notin Ended /\ pc' # "stopped"
  BY <1>2 DEF Ended
<1>11. ~resent'
  BY <1>2
<1> QED
  BY <1>7, <1>8, <1>9, <1>10, <1>11 DEF StreamInv

\* Once the library repeats or gives up, only the runs matter.
LEMMA RepetitionKeeps ==
  ASSUME ProducerInv, StreamInv, NEW i \in DOMAIN queue,
         topic' = topic \/ AppendToTopic(i), pc' = pc, run' = run,
         resent', faults' # 0
  PROVE  StreamInv'
<1>1. /\ topic \in Seq((1 .. MaxRuns) \X Ids) /\ run \in 1 .. MaxRuns
      /\ DOMAIN topic = 1 .. Len(topic) /\ Len(topic) \in Nat
  BY DEF ProducerInv, ProducerTypeOK
<1>2. pc \notin Ended
  BY DEF StreamInv
<1>3. \A j \in DOMAIN topic' : topic'[j][1] <= run'
  <2>1. CASE topic' = topic
    BY <2>1 DEF StreamInv
  <2>2. CASE AppendToTopic(i)
    <3>1. PICK e : e = <<run, queue[i].id>>
      OBVIOUS
    <3>2. /\ DOMAIN topic' = 1 .. Len(topic) + 1
          /\ \A j \in 1 .. Len(topic) : topic'[j] = topic[j]
          /\ topic'[Len(topic) + 1] = e
      <4>1. topic' = Append(topic, e)
        BY <2>2, <3>1 DEF AppendToTopic
      <4>2. PICK T : topic \in Seq(T)
        BY <1>1
      <4>3. /\ DOMAIN Append(topic, e) = 1 .. Len(topic) + 1
            /\ \A j \in 1 .. Len(topic) : Append(topic, e)[j] = topic[j]
            /\ Append(topic, e)[Len(topic) + 1] = e
        BY <4>2, AppendElements
      <4> QED
        BY <4>1, <4>3
    <3>3. ASSUME NEW j \in DOMAIN topic' PROVE topic'[j][1] <= run
      <4>1. CASE j \in 1 .. Len(topic)
        BY <1>1, <3>2, <4>1 DEF StreamInv
      <4>2. CASE j = Len(topic) + 1
        BY <1>1, <3>1, <3>2, <4>2
      <4> QED
        BY <1>1, <3>2, <3>3, <4>1, <4>2
    <3> QED
      BY <3>3
  <2> QED
    BY <2>1, <2>2
<1> QED
  BY <1>2, <1>3 DEF StreamInv, RunIsPrefix

\* What the loop enqueues is the next event of the stream.
LEMMA EnqueueFollows ==
  ASSUME ProducerInv, StreamInv, pc \in {"produce", "again"}, Enqueue, pc' = "poll",
         UNCHANGED <<topic, run, event, sent, resent, faults>>
  PROVE  StreamInv'
<1>1. /\ queue \in Seq(Message) /\ event = sent /\ sent \in Nat /\ event \in Ids
      /\ DOMAIN queue = 1 .. Len(queue) /\ Len(queue) \in Nat
  BY DEF ProducerInv, ProducerTypeOK, LoopCounts, Ids
<1>2. /\ Arrived' = Arrived
      /\ \A i \in DOMAIN topic' : topic'[i][1] <= run'
      /\ RunIsPrefix'
  BY TopicKept DEF StreamInv
<1>3. ASSUME ~resent PROVE QueueFollows'
  <2>1. QueueFollows /\ Handed = sent /\ Handed' = sent + 1
    BY <1>3 DEF StreamInv, Ended, Handed
  <2>2. Arrived \in Nat
    <3>1. Len(topic) \in Nat
      BY DEF ProducerInv, ProducerTypeOK
    <3> QED
      BY <3>1, PlacesFinite DEF Arrived
  <2> DEFINE new == [id |-> event, tried |-> FALSE]
  <2>3. new \in Message /\ new.id = sent /\ new.tried = FALSE /\ queue' = Append(queue, new)
    BY <1>1 DEF Enqueue, Message
  <2> HIDE DEF new
  <2>4. /\ DOMAIN queue' = 1 .. Len(queue) + 1 /\ Len(queue') = Len(queue) + 1
        /\ \A i \in 1 .. Len(queue) : queue'[i] = queue[i]
        /\ queue'[Len(queue) + 1] = new
    BY <1>1, <2>3
  <2>5. Arrived + Len(queue) = sent
    BY <2>1 DEF QueueFollows
  <2>6. ASSUME NEW i \in DOMAIN queue'
        PROVE  ~queue'[i].tried /\ queue'[i].id = Arrived + i - 1
    <3>1. CASE i \in 1 .. Len(queue)
      BY <1>1, <2>1, <2>4, <3>1 DEF QueueFollows
    <3>2. CASE i = Len(queue) + 1
      <4>1. Arrived + i - 1 = sent
        BY <1>1, <2>2, <2>5, <3>2
      <4> QED
        BY <2>3, <2>4, <3>2, <4>1
    <3> QED
      BY <1>1, <2>4, <2>6, <3>1, <3>2
  <2>7. Arrived + Len(queue') = Handed'
    BY <1>1, <2>1, <2>2, <2>4, <2>5
  <2> QED
    BY <1>2, <2>6, <2>7 DEF QueueFollows
<1> QED
  BY <1>2, <1>3 DEF StreamInv, Ended

\* A step of the living process that touches neither topic nor buffer.
LEMMA QuietKeeps ==
  ASSUME StreamInv, UNCHANGED <<topic, run, queue, resent>>, faults' = faults \/ faults' # 0,
         pc \notin Ended, pc' \notin Ended, Handed' = Handed
  PROVE  StreamInv'
<1>1. /\ Arrived' = Arrived
      /\ \A i \in DOMAIN topic' : topic'[i][1] <= run'
      /\ RunIsPrefix'
  BY TopicKept DEF StreamInv
<1>2. ~resent => QueueFollows'
  BY <1>1 DEF StreamInv, QueueFollows
<1>3. pc' # "stopped"
  BY DEF Ended
<1> QED
  BY <1>1, <1>2, <1>3 DEF StreamInv

\* A step that ends the process.
LEMMA EndKeeps ==
  ASSUME StreamInv, UNCHANGED <<topic, run, sent, resent>>, faults' = faults \/ faults' # 0,
         queue' = <<>>, pc' \in Ended, pc' = "stopped" /\ faults' = 0 => Arrived = sent
  PROVE  StreamInv'
<1>1. /\ Arrived' = Arrived
      /\ \A i \in DOMAIN topic' : topic'[i][1] <= run'
      /\ RunIsPrefix'
  BY TopicKept DEF StreamInv
<1> QED
  BY <1>1 DEF StreamInv

\* Faults are counted, never forgotten.
LEMMA FaultCounts ==
  ASSUME ProducerInv, Fault
  PROVE  faults' # 0
  BY ProducerBoundsAssumption DEF ProducerInv, ProducerTypeOK, Fault

\* The order in topic and buffer is kept by every step.
LEMMA StreamStep ==
  ASSUME ProducerInv, StreamInv, [Next]_vars
  PROVE  StreamInv'
<1>1. /\ topic \in Seq((1 .. MaxRuns) \X Ids) /\ run \in 1 .. MaxRuns
      /\ queue \in Seq(Message) /\ DOMAIN queue = 1 .. Len(queue) /\ Len(queue) \in Nat
      /\ DOMAIN topic = 1 .. Len(topic) /\ Len(topic) \in Nat /\ sent \in Nat
  BY DEF ProducerInv, ProducerTypeOK, Ids
<1>2. CASE NextEvent
  BY <1>2, QuietKeeps DEF NextEvent, bufferVars, Ended, Handed
<1>3. CASE Produce
  <2>1. CASE Room
    BY <1>3, <2>1, EnqueueFollows DEF Produce
  <2>2. CASE ~Room
    BY <1>3, <2>2, QuietKeeps DEF Produce, Ended, Handed
  <2> QED
    BY <2>1, <2>2
<1>4. CASE PollForRoom
  <2>1. faults' = faults \/ faults' # 0
    BY <1>4, FaultCounts DEF PollForRoom
  <2> QED
    BY <1>4, <2>1, QuietKeeps DEF PollForRoom, Ended, Handed
<1>5. CASE ProduceAgain
  <2>1. CASE Room
    BY <1>5, <2>1, EnqueueFollows DEF ProduceAgain
  <2>2. CASE ~Room
    BY <1>5, <2>2, EndKeeps DEF ProduceAgain, Ended
  <2> QED
    BY <2>1, <2>2
<1>6. CASE Poll
  BY <1>6, QuietKeeps DEF Poll, Ended, Handed
<1>7. CASE Flush
  <2>1. faults' = faults \/ faults' # 0
    BY <1>7, FaultCounts DEF Flush
  <2>2. ASSUME faults' = 0 PROVE Arrived = sent
    <3>1. queue = <<>> /\ faults = 0
      BY <1>7, <2>2, FaultCounts DEF Flush
    <3>2. QueueFollows /\ Handed = sent
      BY <1>7, <3>1 DEF Flush, StreamInv, Ended, Handed
    <3>3. Arrived \in Nat
      BY <1>1, PlacesFinite DEF Arrived
    <3> QED
      BY <3>1, <3>2, <3>3, Nothing DEF QueueFollows
  <2> QED
    BY <1>7, <2>1, <2>2, EndKeeps DEF Flush, Ended
<1>8. CASE Start
  <2>1. /\ topic' = topic /\ run' = run + 1 /\ faults' = faults
        /\ pc' = "next" /\ sent' = 0 /\ queue' = <<>> /\ resent' = FALSE
    BY <1>8 DEF Start, Fresh
  <2>2. \A i \in 1 .. Len(topic) : topic[i][1] <= run /\ topic[i][1] \in Nat
    <3>1. \A i \in 1 .. Len(topic) : topic[i] \in (1 .. MaxRuns) \X Ids
      BY <1>1, ElementOfSeq, Zenon
    <3> QED
      BY <1>1, <3>1, ProducerBoundsAssumption, SMTT(30) DEF StreamInv
  <2>3. \A i \in DOMAIN topic' : topic'[i][1] <= run'
    BY <1>1, <2>1, <2>2
  <2>4. Places(Len(topic))' = {}
    BY <1>1, <2>1, <2>2 DEF Places
  <2>5. Arrived' = 0
    BY <2>4, FS_EmptySet DEF Arrived
  <2>6. RunIsPrefix'
    BY <2>4 DEF RunIsPrefix
  <2>7. QueueFollows'
    BY <2>1, <2>5, Nothing DEF QueueFollows, Handed
  <2> QED
    BY <2>1, <2>3, <2>6, <2>7 DEF StreamInv, Ended
<1>9. CASE Sigterm
  BY <1>9, QuietKeeps DEF Sigterm, bufferVars, Handed
<1>10. CASE Crash
  <2>1. faults' # 0
    BY <1>10, FaultCounts DEF Crash
  <2> QED
    BY <1>10, <2>1, EndKeeps DEF Crash, Ended
<1>11. CASE Delivered
  <2>1. PICK i \in DOMAIN queue : Sendable(i) /\ AppendToTopic(i) /\ Answer(i, TRUE)
    BY <1>11 DEF Delivered
  <2>2. /\ UNCHANGED <<loopVars, resent, faults>> /\ queue' = RemoveAt(queue, i)
        /\ run' = run /\ pc' = pc /\ sent' = sent /\ resent' = resent /\ faults' = faults
    BY <1>11, <2>1 DEF Delivered, Answer, loopVars
  <2>3. pc \notin Ended
    BY <2>1 DEF StreamInv
  <2>4. CASE ~resent
    <3>1. i = 1
      <4>1. \A j \in DOMAIN queue : ~queue[j].tried
        BY <2>3, <2>4 DEF StreamInv, QueueFollows
      <4>2. ASSUME i # 1 PROVE FALSE
        <5>1. 1 \in 1 .. i - 1 /\ 1 \in DOMAIN queue
          BY <1>1, <4>2
        <5> QED
          BY <2>1, <4>1, <5>1 DEF Sendable
      <4> QED
        BY <4>2
    <3> QED
      BY <2>1, <2>2, <2>3, <2>4, <3>1, ArrivalKeeps
  <2>5. CASE resent
    BY <2>1, <2>2, <2>5, RepetitionKeeps DEF StreamInv
  <2> QED
    BY <2>4, <2>5
<1>12. CASE SentInVain \/ DeliveryFails
  <2>1. faults' # 0 /\ resent' /\ pc' = pc /\ run' = run
    BY <1>12, FaultCounts DEF SentInVain, DeliveryFails, loopVars
  <2>2. PICK i \in DOMAIN queue : topic' = topic \/ AppendToTopic(i)
    BY <1>12 DEF SentInVain, DeliveryFails
  <2> QED
    BY <2>1, <2>2, RepetitionKeeps
<1>13. CASE UNCHANGED vars
  <2>1. /\ topic' = topic /\ run' = run /\ queue' = queue /\ pc' = pc /\ sent' = sent
        /\ resent' = resent /\ faults' = faults
    BY <1>13 DEF vars, bufferVars
  <2>2. /\ Arrived' = Arrived /\ RunIsPrefix' /\ Handed' = Handed
        /\ \A i \in DOMAIN topic' : topic'[i][1] <= run'
    BY <2>1, TopicKept DEF StreamInv, Handed
  <2> QED
    BY <2>1, <2>2 DEF StreamInv, QueueFollows
<1> QED
  BY <1>2, <1>3, <1>4, <1>5, <1>6, <1>7, <1>8, <1>9, <1>10, <1>11, <1>12, <1>13 DEF Next, Loop

\* The numbers of events of this run before each of the run's events are the
\* numbers below their count.
LEMMA RanksCover ==
  ASSUME NEW n \in Nat
  PROVE  {Cardinality(Places(i - 1)) : i \in Places(n)} = 0 .. Cardinality(Places(n)) - 1
<1> DEFINE S == Places(n)
           ranks == {Cardinality(Places(i - 1)) : i \in S}
           rank == [i \in S |-> Cardinality(Places(i - 1))]
           k == Cardinality(S)
<1>1. IsFiniteSet(S) /\ k \in Nat
  BY PlacesFinite
<1>2. ASSUME NEW i \in S, NEW m \in Nat, m >= i
      PROVE  Cardinality(Places(i - 1)) \in Nat /\ Cardinality(Places(i - 1)) < Cardinality(Places(m))
  <2>1. i \in 1 .. n /\ i - 1 \in Nat /\ topic[i][1] = run
    BY DEF Places
  <2>2. IsFiniteSet(Places(m)) /\ IsFiniteSet(Places(i - 1))
        /\ Cardinality(Places(m)) \in Nat /\ Cardinality(Places(i - 1)) \in Nat
    BY <1>2, <2>1, PlacesFinite
  <2>3. Places(i - 1) \subseteq Places(m) /\ i \in Places(m) /\ i \notin Places(i - 1)
    BY <1>2, <2>1 DEF Places
  <2>4. /\ Cardinality(Places(i - 1)) <= Cardinality(Places(m))
        /\ Cardinality(Places(m)) = Cardinality(Places(i - 1)) => Places(m) = Places(i - 1)
    BY <2>2, <2>3, FS_Subset
  <2> QED
    BY <2>2, <2>3, <2>4
<1>3. ranks \subseteq 0 .. k - 1
  <2>1. ASSUME NEW i \in S PROVE Cardinality(Places(i - 1)) \in 0 .. k - 1
    <3>1. i \in 1 .. n
      BY DEF Places
    <3>2. Cardinality(Places(i - 1)) \in Nat /\ Cardinality(Places(i - 1)) < k
      BY <1>2, <3>1
    <3> QED
      BY <1>1, <3>2
  <2> QED
    BY <2>1
<1>4. ASSUME NEW i \in S, NEW j \in S, i # j
      PROVE  Cardinality(Places(i - 1)) # Cardinality(Places(j - 1))
  <2>1. i \in Nat /\ j \in Nat /\ i - 1 \in Nat /\ j - 1 \in Nat
    BY DEF Places
  <2>2. CASE i < j
    <3>1. j - 1 >= i
      BY <2>1, <2>2
    <3>2. Cardinality(Places(i - 1)) \in Nat /\ Cardinality(Places(i - 1)) < Cardinality(Places(j - 1))
      BY <1>2, <2>1, <3>1
    <3>3. Cardinality(Places(j - 1)) \in Nat
      BY <2>1, PlacesFinite
    <3> QED
      BY <3>2, <3>3
  <2>3. CASE j < i
    <3>1. i - 1 >= j
      BY <2>1, <2>3
    <3>2. Cardinality(Places(j - 1)) \in Nat /\ Cardinality(Places(j - 1)) < Cardinality(Places(i - 1))
      BY <1>2, <2>1, <3>1
    <3>3. Cardinality(Places(i - 1)) \in Nat
      BY <2>1, PlacesFinite
    <3> QED
      BY <3>2, <3>3
  <2> QED
    BY <1>4, <2>1, <2>2, <2>3
<1>5. rank \in Bijection(S, ranks)
  <2>1. rank \in [S -> ranks]
    OBVIOUS
  <2>2. rank \in Injection(S, ranks)
    BY <1>4, <2>1 DEF Injection, IsInjective
  <2>3. rank \in Surjection(S, ranks)
    BY <2>1 DEF Surjection
  <2> QED
    BY <2>2, <2>3 DEF Bijection
<1>6. Cardinality(ranks) = k
  BY <1>1, <1>5, FS_Bijection DEF ExistsBijection
<1>7. IsFiniteSet(0 .. k - 1) /\ Cardinality(0 .. k - 1) = k
  <2> HIDE DEF k
  <2>1. 0 \in Int /\ k - 1 \in Int
    BY <1>1
  <2>2. IsFiniteSet(0 .. k - 1) /\ Cardinality(0 .. k - 1) = IF 0 > k - 1 THEN 0 ELSE (k - 1) - 0 + 1
    BY <2>1, FS_Interval
  <2> QED
    BY <1>1, <2>2
<1> QED
  BY <1>3, <1>6, <1>7, FS_Subset

\* In every reachable state topic and buffer together are the stream so far,
\* unless the library had to repeat or to give up a message.
THEOREM StreamSound == Spec => [](ProducerInv /\ StreamInv)
<1>1. Init => ProducerInv /\ StreamInv
  <2> SUFFICES ASSUME Init PROVE StreamInv
    BY ProducerInitKeeps
  <2>1. topic = <<>> /\ queue = <<>> /\ pc = "next" /\ sent = 0 /\ ~resent /\ Places(Len(topic)) = {}
    BY DEF Init, Places
  <2>2. Arrived = 0
    BY <2>1, FS_EmptySet DEF Arrived
  <2> QED
    BY <2>1, <2>2, Nothing DEF StreamInv, QueueFollows, RunIsPrefix, Handed, Ended
<1>2. (ProducerInv /\ StreamInv) /\ [Next]_vars => (ProducerInv /\ StreamInv)'
  BY ProducerStep, StreamStep
<1> QED
  BY <1>1, <1>2, PTL DEF Spec

\* The topic has a prefix of each run's stream, in order and without gaps or
\* repetitions, unless the library had to repeat or to give up a message.
THEOREM TopicHasPrefix == Spec => []RunIsPrefix
<1>1. StreamInv => RunIsPrefix
  BY DEF StreamInv
<1> QED
  BY <1>1, StreamSound, PTL

\* A producer that is told to stop, and that no fault met, has delivered the
\* events 0 to sent - 1 and no others when main() returns (producer/main.py:102-104).
THEOREM CleanStopDelivers == Spec => []CleanStopDeliversAll
<1>1. ProducerInv /\ StreamInv => CleanStopDeliversAll
  <2> SUFFICES ASSUME ProducerInv, StreamInv, pc = "stopped", faults = 0
               PROVE  {topic[i][2] : i \in Places(Len(topic))} = 0 .. sent - 1
    BY DEF CleanStopDeliversAll
  <2>1. Arrived = sent /\ Len(topic) \in Nat
    BY DEF StreamInv, ProducerInv, ProducerTypeOK
  <2>2. \A i \in Places(Len(topic)) : topic[i][2] = Cardinality(Places(i - 1))
    BY DEF StreamInv, RunIsPrefix
  <2> QED
    BY <2>1, <2>2, RanksCover DEF Arrived
<1> QED
  BY <1>1, StreamSound, PTL

=============================================================================
