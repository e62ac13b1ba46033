-------------------------- MODULE ConnectionsProofs --------------------------
(***************************************************************************)
(* Proofs about the connections, for every number of pages, attempts and   *)
(* outages.                                                                *)
(***************************************************************************)
EXTENDS Connections, TLAPS

-----------------------------------------------------------------------------
(* The inductive invariant *)

\* The places in init_schema.
Connecting == {"init", "blocked", "commit"}

\* The ends at which a client may have used up its attempts: a stopped page has not.
Final == Ended \ {"stopped"}

\* Who still tries has an attempt left.
AttemptsLeft == \A c \in Clients : pc[c] \notin Final => tries[c] < Limit(c)

\* Whoever is between connect() and the return of init_schema has a connection.
ConnectingHasLink == \A c \in Clients : pc[c] \in Connecting => conn[c] # None

\* The uncommitted creation is of a client about to commit it, and whoever else
\* gets there has found the tables.
CreatorCommits ==
  /\ creator # None => pc[creator] = "commit" /\ conn[creator] = "live"
  /\ \A c \in Clients :
       pc[c] = "commit" /\ conn[c] = "live" => schema \/ creator = c

\* A connection is handed out only when the tables are there.
HandedOutWithSchema ==
  /\ \A c \in Clients : pc[c] \in {"ready", "shown"} => schema
  /\ cache # None => schema

\* Without an outage, only the race for the creation costs an attempt, and the
\* one it costs is the last before the tables are there.
OnlyTheRace ==
  outages = 0 =>
    /\ up /\ cache # "dead"
    /\ \A c \in Clients : conn[c] # "dead"
    /\ \A s \in Services :
         /\ pc[s] # "exited" /\ tries[s] <= 1
         /\ tries[s] = 1 => schema /\ pc[s] # "blocked"

\* The inductive invariant.
ConnInv ==
  /\ ConnectionsTypeOK
  /\ AttemptsLeft /\ ConnectingHasLink /\ CreatorCommits /\ HandedOutWithSchema

\* The clients are told apart by their names.
LEMMA ClientNames ==
  /\ Services \subseteq Clients /\ Pages \subseteq Clients /\ Check \in Clients
  /\ Check \notin Services /\ Check \notin Pages /\ Services \cap Pages = {}
  /\ None \notin Clients
  BY PagesAssumption DEF Clients, Services, Check, None

\* Everybody may try at least once.
LEMMA LimitType == \A c \in Clients : Limit(c) \in Nat /\ Limit(c) > 0
  BY RetriesAssumption DEF Limit

-----------------------------------------------------------------------------
(* Types and structure *)

\* The initial states satisfy the invariant.
LEMMA ConnInit == Init => ConnInv
<1> SUFFICES ASSUME Init PROVE ConnInv
  OBVIOUS
<1>1. ConnectionsTypeOK
  <2>1. up \in BOOLEAN /\ schema \in BOOLEAN /\ buffered \in BOOLEAN
    BY DEF Init
  <2>2. \A c \in Clients : tries[c] = 0 /\ 0 <= Limit(c)
    BY LimitType DEF Init
  <2>3. pc \in [Clients -> {"connect"}] /\ conn \in [Clients -> {None}] /\ tries \in [Clients -> {0}]
    BY DEF Init
  <2> QED
    BY <2>1, <2>2, <2>3, RetriesAssumption DEF Init, ConnectionsTypeOK, Link
<1>2. AttemptsLeft /\ ConnectingHasLink
  BY LimitType DEF Init, AttemptsLeft, ConnectingHasLink, Connecting
<1>3. CreatorCommits /\ HandedOutWithSchema
  BY DEF Init, CreatorCommits, HandedOutWithSchema
<1> QED
  BY <1>1, <1>2, <1>3 DEF ConnInv

\* A failed attempt leaves the client well typed and without a connection.
LEMMA AttemptFailsType ==
  ASSUME ConnInv, NEW c \in Clients, pc[c] \notin Ended, AttemptFails(c)
  PROVE  /\ pc' \in [Clients -> {"connect", "stopped", "failed", "exited"} \cup {pc[d] : d \in Clients}]
         /\ pc'[c] \in {"connect", "stopped", "failed", "exited"}
         /\ conn' = [conn EXCEPT ![c] = None]
         /\ tries' \in [Clients -> Nat]
         /\ tries'[c] <= Limit(c)
         /\ pc'[c] \notin Final => tries'[c] < Limit(c)
         /\ \A d \in Clients \ {c} : pc'[d] = pc[d] /\ tries'[d] = tries[d]
<1> USE DEF ConnInv, ConnectionsTypeOK
<1>1. tries[c] \in Nat /\ tries[c] < Limit(c) /\ Limit(c) \in Nat /\ Limit(c) > 0
  BY LimitType DEF AttemptsLeft, Final
<1>2. CASE c \in Pages
  BY <1>1, <1>2 DEF AttemptFails, Goto, Hold, Ended, Final
<1>3. CASE c = Check
  BY <1>1, <1>3, ClientNames DEF AttemptFails, Goto, Hold, Ended, Final, Limit
<1>4. CASE c \in Services
  BY <1>1, <1>4, ClientNames DEF AttemptFails, Goto, Hold, Ended, Final, Limit
<1> QED
  BY <1>2, <1>3, <1>4 DEF Clients

\* Each conjunct of the invariant, when one client moves, touches nothing but
\* its own place, connection and tries, and makes no creation or schema vanish.
LEMMA OwnStep ==
  ASSUME ConnInv, NEW c \in Clients,
         pc' \in [Clients -> {"connect", "init", "blocked", "commit", "ready", "shown"} \cup Ended],
         conn' \in [Clients -> Link],
         tries' \in [Clients -> Nat],
         \A d \in Clients \ {c} : pc'[d] = pc[d] /\ conn'[d] = conn[d] /\ tries'[d] = tries[d],
         tries'[c] <= Limit(c), pc'[c] \notin Final => tries'[c] < Limit(c),
         pc'[c] \in Connecting => conn'[c] # None,
         up' \in BOOLEAN, schema' \in BOOLEAN, buffered' \in BOOLEAN, cache' \in Link, outages' \in 0 .. MaxOutages,
         schema => schema',
         creator' \in {creator, c, None},
         creator' = None => creator \in {None, c} ,
         creator' = c => pc'[c] = "commit" /\ conn'[c] = "live",
         creator = c /\ creator' = None => schema' \/ (conn'[c] # "live" /\ pc'[c] # "commit"),
         creator' = c => creator \in {None, c},
         pc'[c] = "commit" /\ conn'[c] = "live" => schema' \/ creator' = c,
         pc'[c] \in {"ready", "shown"} => schema',
         cache' # None => schema' \/ cache # None
  PROVE  ConnInv'
<1> USE DEF ConnInv
<1>1. ConnectionsTypeOK'
  BY DEF ConnectionsTypeOK, Limit
<1>2. AttemptsLeft'
  BY DEF AttemptsLeft, Limit
<1>3. ConnectingHasLink'
  BY DEF ConnectingHasLink, ConnectionsTypeOK
<1>4. CreatorCommits'
  <2>1. creator' # None => pc'[creator'] = "commit" /\ conn'[creator'] = "live"
    BY DEF CreatorCommits, ConnectionsTypeOK
  <2>2. ASSUME NEW d \in Clients, pc'[d] = "commit", conn'[d] = "live"
        PROVE  schema' \/ creator' = d
    BY <2>2, ClientNames DEF CreatorCommits, ConnectionsTypeOK
  <2> QED
    BY <2>1, <2>2 DEF CreatorCommits
<1>5. HandedOutWithSchema'
  BY DEF HandedOutWithSchema, ConnectionsTypeOK
<1> QED
  BY <1>1, <1>2, <1>3, <1>4, <1>5

\* A failed attempt keeps the invariant, if it is not the creator's.
LEMMA AttemptFailsKeeps ==
  ASSUME ConnInv, NEW c \in Clients, pc[c] \notin Ended, AttemptFails(c),
         UNCHANGED <<up, schema, creator, cache, buffered, outages>>, creator # c
  PROVE  ConnInv'
<1>1. /\ pc'[c] \in {"connect", "stopped", "failed", "exited"}
      /\ tries' \in [Clients -> Nat] /\ tries'[c] <= Limit(c)
      /\ pc'[c] \notin Final => tries'[c] < Limit(c)
      /\ \A d \in Clients \ {c} : pc'[d] = pc[d] /\ tries'[d] = tries[d]
  BY AttemptFailsType
<1>2. pc' \in [Clients -> {"connect", "init", "blocked", "commit", "ready", "shown"} \cup Ended]
  BY <1>1, AttemptFailsType DEF AttemptFails, Goto, ConnInv, ConnectionsTypeOK, Ended
<1>3. conn' = [conn EXCEPT ![c] = None] /\ conn' \in [Clients -> Link]
  BY AttemptFailsType DEF ConnInv, ConnectionsTypeOK, Link
<1>4. \A d \in Clients \ {c} : conn'[d] = conn[d]
  BY <1>3 DEF ConnInv, ConnectionsTypeOK
<1> QED
  BY <1>1, <1>2, <1>3, <1>4, OwnStep DEF ConnInv, ConnectionsTypeOK, Connecting

\* One client's step of getting or using its connection.
ClientStep(c) ==
  \/ Connect(c) \/ InitSchema(c) \/ CreationEnds(c) \/ Commit(c)
  \/ c \in Services /\ Restart(c)
  \/ c = "processor" /\ (IngestEvent \/ ProcessorFails)
  \/ c = "alerter" /\ AlerterReconnects
  \/ c \in Pages /\ (GetConnection(c) \/ Show(c) \/ Rerun(c) \/ ClearAndRerun(c) \/ Reload(c))
  \/ c = Check /\ CheckPass

\* Every step is one of a client's, or Postgres' own.
LEMMA NextIsClientStep ==
  Next => (\E c \in Clients : ClientStep(c)) \/ Outage \/ PostgresStarts
  BY ClientNames DEF Next, ServiceStep, PageStep, CheckStep, ClientStep, Services

\* Every step of a client keeps the invariant.
LEMMA ClientStepKeeps ==
  ASSUME ConnInv, NEW c \in Clients, ClientStep(c)
  PROVE  ConnInv'
<1>0. ConnectionsTypeOK /\ AttemptsLeft /\ ConnectingHasLink /\ CreatorCommits /\ HandedOutWithSchema
  BY DEF ConnInv
<1>t. Limit(c) \in Nat /\ Limit(c) > 0 /\ tries[c] <= Limit(c) /\ tries[c] \in Nat
      /\ (pc[c] \notin Final => tries[c] < Limit(c))
  BY <1>0, LimitType DEF ConnectionsTypeOK, AttemptsLeft
<1>n. None \notin Clients /\ (creator = c => pc[c] = "commit" /\ conn[c] = "live")
  BY <1>0, ClientNames DEF CreatorCommits
<1>c. ASSUME pc[c] = "connect", ConnectTo(c), UNCHANGED <<up, schema, creator, cache, buffered, outages>>
      PROVE  ConnInv'
  <2>1. CASE ~up
    BY <1>c, <1>n, <2>1, AttemptFailsKeeps DEF ConnectTo, Ended
  <2>2. CASE up
    BY <1>c, <1>0, <1>t, <1>n, <2>2, OwnStep
       DEF ConnectTo, Goto, Hold, ConnectionsTypeOK, Link, Ended, Final, Connecting, None
  <2> QED
    BY <2>1, <2>2
<1>1. CASE Connect(c)
  BY <1>1, <1>c DEF Connect
<1>2. CASE InitSchema(c)
  <2>1. CASE conn[c] = "dead"
    BY <1>2, <1>n, <2>1, AttemptFailsKeeps DEF InitSchema, Ended
  <2>2. CASE conn[c] # "dead"
    <3>1. conn[c] = "live"
      BY <1>0, <1>2, <2>2 DEF InitSchema, ConnectingHasLink, Connecting, ConnectionsTypeOK, Link
    <3> QED
      BY <1>2, <1>0, <1>t, <1>n, <2>2, <3>1, OwnStep
         DEF InitSchema, Goto, ConnectionsTypeOK, Link, Ended, Final, Connecting, None
  <2> QED
    BY <2>1, <2>2
<1>3. CASE CreationEnds(c)
  <2>1. CASE conn[c] = "dead" \/ schema
    BY <1>3, <1>n, <2>1, AttemptFailsKeeps DEF CreationEnds, Ended
  <2>2. CASE ~(conn[c] = "dead" \/ schema)
    BY <1>3, <1>0, <1>t, <1>n, <2>2, OwnStep
       DEF CreationEnds, Goto, ConnectionsTypeOK, Ended, Final, Connecting, ConnectingHasLink
  <2> QED
    BY <2>1, <2>2
<1>4. CASE Commit(c)
  <2>1. CASE conn[c] = "dead"
    BY <1>4, <1>n, <2>1, AttemptFailsKeeps DEF Commit, Ended
  <2>2. CASE conn[c] # "dead"
    BY <1>4, <1>0, <1>t, <1>n, <2>2, OwnStep, ClientNames
       DEF Commit, Connected, Goto, ConnectionsTypeOK, Link, Ended, Final, Connecting, None
  <2> QED
    BY <2>1, <2>2
<1>5. CASE c \in Services /\ Restart(c)
  BY <1>5, <1>0, <1>t, <1>n, OwnStep DEF Restart, Goto, ConnectionsTypeOK, Ended, Final, Connecting
<1>6. CASE \/ c = "processor" /\ (IngestEvent \/ ProcessorFails)
           \/ c = "alerter" /\ AlerterReconnects
  <2>1. CASE c = "processor" /\ IngestEvent
    BY <2>1, <1>0, <1>t, <1>n, OwnStep
       DEF IngestEvent, ConnectionsTypeOK, Final, Ended, Connecting, HandedOutWithSchema
  <2>2. CASE c = "processor" /\ ProcessorFails
    BY <2>2, <1>0, <1>t, <1>n, OwnStep
       DEF ProcessorFails, Broken, Goto, Hold, ConnectionsTypeOK, Link, Ended, Final, Connecting
  <2>3. CASE c = "alerter" /\ AlerterReconnects
    BY <2>3, <1>0, <1>t, <1>n, OwnStep
       DEF AlerterReconnects, Broken, Goto, Hold, ConnectionsTypeOK, Link, Ended, Final, Connecting
  <2> QED
    BY <1>6, <2>1, <2>2, <2>3
<1>7. CASE c \in Pages /\ GetConnection(c)
  <2>1. CASE cache = None
    BY <1>7, <1>c, <2>1 DEF GetConnection
  <2>2. CASE cache # None
    BY <1>7, <1>0, <1>t, <1>n, <2>2, OwnStep
       DEF GetConnection, Goto, Hold, ConnectionsTypeOK, Ended, Final, Connecting, HandedOutWithSchema
  <2> QED
    BY <2>1, <2>2
<1>8. CASE c \in Pages /\ (Show(c) \/ Rerun(c) \/ ClearAndRerun(c) \/ Reload(c))
  <2>1. CASE Show(c)
    BY <1>8, <2>1, <1>0, <1>t, <1>n, OwnStep
       DEF Show, Usable, Goto, ConnectionsTypeOK, Link, Ended, Final, Connecting, HandedOutWithSchema
  <2>2. CASE Rerun(c)
    BY <1>8, <2>2, <1>0, <1>t, <1>n, OwnStep
       DEF Rerun, Goto, ConnectionsTypeOK, Link, Ended, Final, Connecting, HandedOutWithSchema
  <2>3. CASE ClearAndRerun(c)
    BY <1>8, <2>3, <1>0, <1>t, <1>n, OwnStep
       DEF ClearAndRerun, Broken, Hold, Goto, ConnectionsTypeOK, Link, Ended, Final, Connecting, HandedOutWithSchema
  <2>4. CASE Reload(c)
    BY <1>8, <2>4, <1>0, <1>t, <1>n, OwnStep
       DEF Reload, Goto, ConnectionsTypeOK, Link, Ended, Final, Connecting, HandedOutWithSchema
  <2> QED
    BY <1>8, <2>1, <2>2, <2>3, <2>4
<1>9. CASE c = Check /\ CheckPass
  <2>1. CASE conn[Check] = "dead"
    BY <1>9, <1>n, <2>1, AttemptFailsKeeps DEF CheckPass, Ended
  <2>2. CASE conn[Check] # "dead"
    BY <1>9, <1>0, <1>t, <1>n, <2>2, OwnStep
       DEF CheckPass, Goto, ConnectionsTypeOK, Ended, Final, Connecting, HandedOutWithSchema, Limit
  <2> QED
    BY <2>1, <2>2
<1> QED
  BY <1>1, <1>2, <1>3, <1>4, <1>5, <1>6, <1>7, <1>8, <1>9 DEF ClientStep

\* Postgres goes away: its connections die, and with them the open creation.
LEMMA OutageKeeps ==
  ASSUME ConnInv, Outage
  PROVE  ConnInv'
<1> USE DEF ConnInv, Outage
<1>1. /\ conn' \in [Clients -> Link] /\ cache' \in Link
      /\ \A c \in Clients : conn'[c] # "live" /\ (conn'[c] = None <=> conn[c] = None)
      /\ cache' = None <=> cache = None
  BY DEF ConnectionsTypeOK, Dead, Link, None
<1>2. ConnectionsTypeOK'
  <2>1. outages' \in 0 .. MaxOutages
    BY RetriesAssumption DEF ConnectionsTypeOK
  <2>2. up' \in BOOLEAN /\ schema' \in BOOLEAN /\ buffered' \in BOOLEAN /\ creator' \in Clients \cup {None}
    BY DEF ConnectionsTypeOK
  <2>3. /\ pc' = pc /\ tries' \in [Clients -> Nat]
        /\ \A c \in Clients : tries'[c] <= Limit(c)
    BY DEF ConnectionsTypeOK
  <2> QED
    BY <1>1, <2>1, <2>2, <2>3 DEF ConnectionsTypeOK, Limit
<1>3. AttemptsLeft' /\ ConnectingHasLink'
  BY <1>1 DEF AttemptsLeft, ConnectingHasLink, Limit
<1>4. CreatorCommits' /\ HandedOutWithSchema'
  BY <1>1 DEF CreatorCommits, HandedOutWithSchema
<1> QED
  BY <1>2, <1>3, <1>4

\* The invariant is inductive.
LEMMA ConnStep == ConnInv /\ [Next]_vars => ConnInv'
<1> SUFFICES ASSUME ConnInv, [Next]_vars PROVE ConnInv'
  OBVIOUS
<1>1. CASE \E c \in Clients : ClientStep(c)
  BY <1>1, ClientStepKeeps
<1>2. CASE Outage
  BY <1>2, OutageKeeps
<1>3. CASE PostgresStarts
  BY <1>3 DEF PostgresStarts, ConnInv, ConnectionsTypeOK, AttemptsLeft, ConnectingHasLink,
              CreatorCommits, HandedOutWithSchema, Limit
<1>4. CASE UNCHANGED vars
  BY <1>4 DEF vars, ConnInv, ConnectionsTypeOK, AttemptsLeft, ConnectingHasLink,
              CreatorCommits, HandedOutWithSchema, Limit
<1> QED
  BY <1>1, <1>2, <1>3, <1>4, NextIsClientStep

\* In every reachable state the variables have their types, nobody tries more
\* often than its loop allows, and the open creation is about to be committed.
THEOREM ConnectionsSound == Spec => []ConnInv
  BY ConnInit, ConnStep, PTL DEF Spec

\* Whoever holds a connection that init_schema has passed finds the tables, and
\* no creation of its own is left open (db.py:106-110).
THEOREM SchemaReady == Spec => []ReadyMeansSchema
<1>1. ConnInv => ReadyMeansSchema
  BY ClientNames DEF ConnInv, CreatorCommits, HandedOutWithSchema, ReadyMeansSchema
<1> QED
  BY <1>1, ConnectionsSound, PTL

-----------------------------------------------------------------------------
(* What the race costs *)

\* A service with more than one attempt survives its first failure.
LEMMA OnlyTheRaceStep ==
  ASSUME Retries > 1, ConnInv, OnlyTheRace, [Next]_vars
  PROVE  OnlyTheRace'
<1> SUFFICES ASSUME outages' = 0
             PROVE  OnlyTheRace'
  BY DEF OnlyTheRace
<1>0. ConnectionsTypeOK /\ CreatorCommits /\ HandedOutWithSchema /\ ConnectingHasLink
  BY DEF ConnInv
<1>1. CASE Outage
  BY <1>1, <1>0 DEF Outage, ConnectionsTypeOK
<1>2. CASE PostgresStarts
  BY <1>2 DEF PostgresStarts, OnlyTheRace
<1>3. CASE UNCHANGED vars
  BY <1>3 DEF vars, OnlyTheRace
<1>4. ASSUME NEW c \in Clients, ClientStep(c)
      PROVE  OnlyTheRace'
  <2>0. outages = 0 /\ up' = up
    BY <1>4 DEF ClientStep, Connect, InitSchema, CreationEnds, Commit, Restart, IngestEvent, ProcessorFails,
                AlerterReconnects, GetConnection, Show, Rerun, ClearAndRerun, Reload, CheckPass
  <2>1. /\ up /\ cache # "dead"
        /\ \A d \in Clients : conn[d] # "dead"
        /\ \A s \in Services :
             /\ pc[s] # "exited" /\ tries[s] <= 1
             /\ tries[s] = 1 => schema /\ pc[s] # "blocked"
    BY <2>0 DEF OnlyTheRace
  <2>2. ASSUME NEW s \in Services, c = s, AttemptFails(s), schema, tries[s] = 0
        PROVE  pc'[s] = "connect" /\ tries'[s] = 1
    BY <1>0, <2>2, ClientNames DEF AttemptFails, Goto, Limit, ConnectionsTypeOK
  <2>3. /\ cache' # "dead" /\ (schema => schema')
        /\ \A d \in Clients : conn'[d] # "dead"
    BY <1>0, <1>4, <2>0, <2>1 DEF ClientStep, Connect, InitSchema, CreationEnds, Commit,
       Connected, Restart, IngestEvent, ProcessorFails, AlerterReconnects, GetConnection, Show, Rerun,
       ClearAndRerun, Reload, CheckPass, ConnectTo, AttemptFails, Hold, ConnectionsTypeOK, None
  <2>4. ASSUME NEW s \in Services
        PROVE  /\ pc'[s] # "exited" /\ tries'[s] <= 1
               /\ tries'[s] = 1 => schema' /\ pc'[s] # "blocked"
    <3>1. CASE c # s
      BY <1>0, <1>4, <2>1, <2>3, <2>4, <3>1, ClientNames DEF ClientStep, Connect, InitSchema,
         CreationEnds, Commit, Connected, Restart, IngestEvent, ProcessorFails, AlerterReconnects,
         GetConnection, Show, Rerun, ClearAndRerun, Reload, CheckPass, ConnectTo, AttemptFails,
         Goto, ConnectionsTypeOK, Services
    <3>2. CASE c = s /\ CreationEnds(s)
      <4>1. CASE schema
        <5>1. tries[s] = 0
          BY <1>0, <2>1, <2>4, <3>2, ClientNames DEF CreationEnds, ConnectionsTypeOK
        <5> QED
          BY <2>1, <2>2, <2>4, <3>2, <4>1, <5>1 DEF CreationEnds
      <4>2. CASE ~schema
        BY <1>0, <2>1, <2>4, <3>2, <4>2, ClientNames DEF CreationEnds, Goto, ConnectionsTypeOK
      <4> QED
        BY <4>1, <4>2
    <3>3. CASE c = s /\ (Connect(s) \/ InitSchema(s) \/ Commit(s))
      <4>t. pc \in [Clients -> {"connect", "init", "blocked", "commit", "ready", "shown"} \cup Ended]
            /\ tries \in [Clients -> Nat] /\ s \in Clients /\ conn[s] # "dead"
            /\ tries[s] <= 1 /\ (tries[s] = 1 => schema)
        BY <1>0, <2>1, <2>4, ClientNames DEF ConnectionsTypeOK
      <4>1. CASE Connect(s)
        BY <4>t, <2>1, <2>3, <4>1 DEF Connect, ConnectTo, Goto
      <4>2. CASE InitSchema(s)
        BY <4>t, <2>3, <4>2 DEF InitSchema, Goto
      <4>3. CASE Commit(s)
        BY <4>t, <2>3, <2>4, <4>3 DEF Commit, Connected, Goto
      <4> QED
        BY <3>3, <4>1, <4>2, <4>3
    <3>4. CASE c = s /\ ~(Connect(s) \/ InitSchema(s) \/ Commit(s) \/ CreationEnds(s))
      <4>1. ~ProcessorFails /\ ~AlerterReconnects /\ ~Restart(s)
        BY <2>1, <2>4, ClientNames DEF ProcessorFails, AlerterReconnects, Restart, Broken, Services
      <4>2. IngestEvent
        BY <1>4, <3>4, <4>1, ClientNames DEF ClientStep
      <4> QED
        BY <2>1, <2>3, <2>4, <4>2 DEF IngestEvent
    <3> QED
      BY <3>1, <3>2, <3>3, <3>4
  <2> QED
    BY <2>0, <2>1, <2>3, <2>4 DEF OnlyTheRace
<1> QED
  BY <1>1, <1>2, <1>3, <1>4, NextIsClientStep

\* If _connect_with_retry tries at least twice, all the clients that create the
\* schema at once, however many pages there are, cost a service one attempt at
\* most, and none gives up while Postgres is up.
THEOREM RaceBounded == Retries > 1 => (Spec => []RaceCostsOneAttempt)
<1> SUFFICES ASSUME Retries > 1
             PROVE  Spec => []RaceCostsOneAttempt
  OBVIOUS
<1>1. Init => OnlyTheRace
  BY ClientNames DEF Init, OnlyTheRace, None
<1>2. ConnInv /\ OnlyTheRace /\ [Next]_vars => OnlyTheRace'
  BY OnlyTheRaceStep
<1>3. OnlyTheRace => RaceCostsOneAttempt
  BY DEF OnlyTheRace, RaceCostsOneAttempt
<1> QED
  BY <1>1, <1>2, <1>3, ConnectionsSound, PTL DEF Spec

=============================================================================
