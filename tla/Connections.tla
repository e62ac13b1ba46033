----------------------------- MODULE Connections -----------------------------
(***************************************************************************)
(* How StreamPulse's services get, lose and regain their connection to     *)
(* Postgres: _connect_with_retry of the processor and of the alerter, the  *)
(* connection the dashboard's pages share, the loop of e2e_check.py, and   *)
(* init_schema, which each of them runs first, all at once after           *)
(* `docker compose up'.                                                    *)
(*                                                                         *)
(* CREATE TABLE IF NOT EXISTS does not see what another transaction has    *)
(* created and not committed.  It waits for that transaction, and if it    *)
(* commits, fails on the duplicate key.                                    *)
(***************************************************************************)
EXTENDS Naturals, FiniteSets

CONSTANTS
  Pages,        \* the open pages of the dashboard
  Retries,      \* retries of _connect_with_retry
  Passes,       \* the passes e2e_check.py makes before its deadline
  MaxOutages    \* bound on the outages of Postgres

Services == {"processor", "alerter"}
Check == "e2e_check"
Clients == Services \cup Pages \cup {Check}

None == "none"

ASSUME PagesAssumption == Pages \cap (Services \cup {Check, None}) = {}
ASSUME RetriesAssumption == {Retries, Passes} \subseteq Nat \ {0} /\ MaxOutages \in Nat

VARIABLES
  up,         \* Postgres accepts connections
  schema,     \* durable: the tables are there
  creator,    \* who has created them and not committed, or None
  pc,
  conn,       \* the connection each client holds: None, "live" or "dead"
  buffered,   \* the processor has windows in memory
  cache,      \* what get_connection has cached, likewise
  tries,      \* failed attempts in a row; passes of the check
  outages

vars == <<up, schema, creator, pc, conn, buffered, cache, tries, outages>>

Ended == {"exited", "stopped", "passed", "failed"}
Link == {None, "live", "dead"}

\* How often a client tries.
Limit(c) == IF c = Check THEN Passes ELSE Retries

ConnectionsTypeOK ==
  /\ {up, schema, buffered} \subseteq BOOLEAN
  /\ creator \in Clients \cup {None}
  /\ pc \in [Clients -> {"connect", "init", "blocked", "commit", "ready", "shown"} \cup Ended]
  /\ conn \in [Clients -> Link] /\ cache \in Link
  /\ tries \in [Clients -> Nat] /\ \A c \in Clients : tries[c] <= Limit(c)
  /\ outages \in 0 .. MaxOutages

\* compose starts the containers once Postgres is healthy; the volume is new or
\* has the tables of an earlier time.
Init ==
  /\ up = TRUE
  /\ schema \in BOOLEAN
  /\ creator = None
  /\ pc = [c \in Clients |-> "connect"]
  /\ conn = [c \in Clients |-> None] /\ cache = None /\ buffered = FALSE
  /\ tries = [c \in Clients |-> 0]
  /\ outages = 0

Goto(c, place) == pc' = [pc EXCEPT ![c] = place]

Hold(c, link) == conn' = [conn EXCEPT ![c] = link]

-----------------------------------------------------------------------------
(* Connecting *)

\* A service tries again or raises RuntimeError, the check goes into its next
\* pass or ends, a page shows the error and stops.
AttemptFails(c) ==
  /\ Hold(c, None)
  /\ tries' = [tries EXCEPT ![c] = IF c \in Pages THEN 0 ELSE @ + 1]
  /\ Goto(c, IF c \in Pages THEN "stopped"
             ELSE IF tries[c] + 1 < Limit(c) THEN "connect"
             ELSE IF c = Check THEN "failed" ELSE "exited")

\* Streamlit computes a cached resource for one page at a time.
Computing == \E page \in Pages : pc[page] \in {"init", "blocked", "commit"}

ConnectTo(c) ==
  IF up THEN Hold(c, "live") /\ Goto(c, "init") /\ UNCHANGED tries ELSE AttemptFails(c)

Connect(c) ==
  /\ pc[c] = "connect" /\ c \notin Pages
  /\ ConnectTo(c)
  /\ UNCHANGED <<up, schema, creator, cache, buffered, outages>>

GetConnection(page) ==
  /\ pc[page] = "connect" /\ ~Computing
  /\ IF cache = None
       THEN ConnectTo(page)
       ELSE Hold(page, cache) /\ Goto(page, "ready") /\ UNCHANGED tries
  /\ UNCHANGED <<up, schema, creator, cache, buffered, outages>>

\* Mutant of InitSchema: CREATE TABLE without IF NOT EXISTS.
InitSchemaUnconditionally(c) ==
  /\ pc[c] = "init"
  /\ CASE conn[c] = "dead" \/ schema -> AttemptFails(c) /\ UNCHANGED creator
       [] creator = None /\ conn[c] = "live" /\ ~schema ->
            creator' = c /\ Goto(c, "commit") /\ UNCHANGED <<conn, tries>>
       [] OTHER -> Goto(c, "blocked") /\ UNCHANGED <<creator, conn, tries>>
  /\ UNCHANGED <<up, schema, cache, buffered, outages>>

InitSchema(c) ==
  /\ pc[c] = "init"
  /\ IF conn[c] = "dead"
       THEN AttemptFails(c) /\ UNCHANGED creator
       ELSE /\ creator' = IF schema \/ creator # None THEN creator ELSE c
            /\ Goto(c, IF schema \/ creator = None THEN "commit" ELSE "blocked")
            /\ UNCHANGED <<conn, tries>>
  /\ UNCHANGED <<up, schema, cache, buffered, outages>>

\* The creation this one waited for has been committed, or rolled back.
CreationEnds(c) ==
  /\ pc[c] = "blocked" /\ creator = None
  /\ IF conn[c] = "dead" \/ schema
       THEN AttemptFails(c)
       ELSE Goto(c, "init") /\ UNCHANGED <<conn, tries>>
  /\ UNCHANGED <<up, schema, creator, cache, buffered, outages>>

Connected(c) ==
  /\ Goto(c, "ready")
  /\ tries' = IF c \in Services THEN [tries EXCEPT ![c] = 0] ELSE tries
  /\ cache' = IF c \in Pages THEN "live" ELSE cache
  /\ UNCHANGED conn

\* Mutant of Commit: init_schema does not call commit().
CommitMissing(c) ==
  /\ pc[c] = "commit"
  /\ IF conn[c] = "dead"
       THEN AttemptFails(c) /\ UNCHANGED cache
       ELSE Connected(c)
  /\ UNCHANGED <<up, schema, creator, buffered, outages>>

Commit(c) ==
  /\ pc[c] = "commit"
  /\ IF conn[c] = "dead"
       THEN AttemptFails(c) /\ UNCHANGED <<schema, creator, cache>>
       ELSE /\ Connected(c)
            /\ schema' = TRUE
            /\ creator' = IF creator = c THEN None ELSE creator
  /\ UNCHANGED <<up, buffered, outages>>

-----------------------------------------------------------------------------
(* Using the connection *)

Usable(c) == pc[c] = "ready" /\ conn[c] = "live"

Broken(c) == pc[c] = "ready" /\ conn[c] = "dead"

\* The first event since the start opens a window, and _evict always keeps the
\* newest: from here on there is something to flush.  It asks Postgres nothing.
IngestEvent ==
  /\ pc["processor"] = "ready" /\ ~buffered
  /\ buffered' = TRUE
  /\ UNCHANGED <<up, schema, creator, pc, conn, cache, tries, outages>>

\* The failing upsert leaves the loop and fails once more in the finally block.
\* Both are skipped while there are no windows, and nothing else uses the
\* connection: until its first event the processor does not notice that it broke.
ProcessorFails ==
  /\ Broken("processor") /\ buffered
  /\ Goto("processor", "exited")
  /\ Hold("processor", None)
  /\ buffered' = FALSE
  /\ UNCHANGED <<up, schema, creator, cache, tries, outages>>

\* Mutant of AlerterReconnects: the failing rollback is swallowed.
AlerterGoesOn ==
  /\ Broken("alerter")
  /\ UNCHANGED vars

\* The pass fails, rollback() fails on the same connection, and only then does
\* the alerter connect anew.
AlerterReconnects ==
  /\ Broken("alerter")
  /\ Goto("alerter", "connect")
  /\ Hold("alerter", None)
  /\ UNCHANGED <<up, schema, creator, cache, tries, buffered, outages>>

Restart(s) ==
  /\ pc[s] = "exited"
  /\ Goto(s, "connect")
  /\ tries' = [tries EXCEPT ![s] = 0]
  /\ UNCHANGED <<up, schema, creator, conn, cache, buffered, outages>>

Show(page) ==
  /\ Usable(page)
  /\ Goto(page, "shown")
  /\ UNCHANGED <<up, schema, creator, conn, cache, tries, buffered, outages>>

Rerun(page) ==
  /\ pc[page] = "shown"
  /\ Goto(page, "connect")
  /\ UNCHANGED <<up, schema, creator, conn, cache, tries, buffered, outages>>

\* Mutant of ClearAndRerun: get_connection.clear() is missing.
RerunWithoutClear(page) ==
  /\ Broken(page)
  /\ Hold(page, None)
  /\ Goto(page, "connect")
  /\ UNCHANGED <<up, schema, creator, cache, tries, buffered, outages>>

\* What it clears need not be what failed: another page may have connected.
ClearAndRerun(page) ==
  /\ Broken(page)
  /\ cache' = None
  /\ Hold(page, None)
  /\ Goto(page, "connect")
  /\ UNCHANGED <<up, schema, creator, tries, buffered, outages>>

\* Nothing reruns a page that has called st.stop(): its reader reloads it.
Reload(page) ==
  /\ pc[page] = "stopped"
  /\ Goto(page, "connect")
  /\ UNCHANGED <<up, schema, creator, conn, cache, tries, buffered, outages>>

\* The gates are met or not: what is in the tables is for the other modules.
CheckPass ==
  /\ pc[Check] = "ready"
  /\ IF conn[Check] = "dead"
       THEN AttemptFails(Check)
       ELSE /\ tries' = [tries EXCEPT ![Check] = @ + 1]
            /\ \/ Goto(Check, "passed")
               \/ Goto(Check, IF tries[Check] + 1 = Passes THEN "failed" ELSE "ready")
            /\ UNCHANGED conn
  /\ UNCHANGED <<up, schema, creator, cache, buffered, outages>>

-----------------------------------------------------------------------------

Dead(link) == IF link = "live" THEN "dead" ELSE link

Outage ==
  /\ up /\ outages < MaxOutages
  /\ up' = FALSE
  /\ outages' = outages + 1
  /\ creator' = None
  /\ conn' = [c \in Clients |-> Dead(conn[c])] /\ cache' = Dead(cache)
  /\ UNCHANGED <<schema, pc, buffered, tries>>

PostgresStarts ==
  /\ ~up
  /\ up' = TRUE
  /\ UNCHANGED <<schema, creator, pc, conn, buffered, cache, tries, outages>>

ServiceStep(s) ==
  \/ Connect(s) \/ InitSchema(s) \/ CreationEnds(s) \/ Commit(s) \/ Restart(s)
  \/ s = "processor" /\ ProcessorFails
  \/ s = "alerter" /\ AlerterReconnects

PageStep(page) ==
  \/ GetConnection(page) \/ InitSchema(page) \/ CreationEnds(page) \/ Commit(page)
  \/ Show(page) \/ Rerun(page) \/ ClearAndRerun(page) \/ Reload(page)

CheckStep == Connect(Check) \/ InitSchema(Check) \/ CreationEnds(Check) \/ Commit(Check) \/ CheckPass

Next ==
  \/ \E s \in Services : ServiceStep(s)
  \/ \E page \in Pages : PageStep(page)
  \/ CheckStep
  \/ IngestEvent \/ Outage \/ PostgresStarts

Spec == Init /\ [][Next]_vars

\* Services are restarted by compose and pages are reloaded by their readers.
\* Postgres has no restart policy: that it comes back is not assumed, and
\* neither is that anything is published for the processor to consume.
FairSpec ==
  /\ Spec
  /\ \A s \in Services : WF_vars(ServiceStep(s))
  /\ \A page \in Pages : WF_vars(PageStep(page))
  /\ WF_vars(CheckStep)

-----------------------------------------------------------------------------
(* Safety *)

\* Whoever is past init_schema finds the tables, and nobody holds a creation
\* open on which the others would wait.
ReadyMeansSchema ==
  \A c \in Clients : pc[c] \in {"ready", "shown"} => schema /\ creator # c

\* However many clients create the schema at once, that costs a service one
\* attempt, and so none gives up while Postgres is up.
RaceCostsOneAttempt ==
  outages = 0 => \A s \in Services : tries[s] <= 1 /\ pc[s] # "exited"

-----------------------------------------------------------------------------
(* Liveness *)

\* Once Postgres stays up, the alerter gets a connection that works and keeps it,
\* whatever it had lost or given up before.  The processor comes up and stays up,
\* with a connection that works if it has consumed anything since its start: one
\* that has not holds on to a broken connection until it has windows to flush
\* (main.py:153).
ServicesComeUp ==
  <>[]up => /\ <>[]Usable("alerter")
            /\ <>[](pc["processor"] = "ready" /\ (buffered => conn["processor"] = "live"))

\* Once Postgres stays up, every page shows data again and again, although the
\* pages share, break and clear one connection.
PagesRecover == <>[]up => \A page \in Pages : []<>(pc[page] = "shown" /\ conn[page] = "live")

=============================================================================
