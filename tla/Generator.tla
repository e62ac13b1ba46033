------------------------------ MODULE Generator ------------------------------
(***************************************************************************)
(* The seeded generator of WarehouseLab (generate_events in                *)
(* generator/generate.py) over every random stream: the signup days, then  *)
(* the events user by user and day by day, then the orders day by day.     *)
(* The random draws are nondeterministic choices from small ranges.        *)
(*                                                                         *)
(* cursor is the place in the loops: the user and day of the inner event   *)
(* loop or the day of the order loop, and how many rows of it are left.    *)
(***************************************************************************)
EXTENDS Marts

CONSTANTS
  NUsers,          \* n_users
  Days,            \* days
  EventsPerDay,    \* what rng.integers(1, 5) may give
  OrdersPerDay,    \* what rng.integers(20, 60) may give
  Amounts,         \* what the rounded lognormal may give, in cents
  Statuses,        \* ORDER_STATUSES
  MaxEvents,       \* bound on the number of events
  MaxOrders        \* bound on the number of orders

ASSUME GeneratorAssumption ==
  /\ NUsers \in Nat \ {0} /\ Days \in Nat \ {0}
  /\ EventsPerDay \subseteq Nat \ {0} /\ OrdersPerDay \subseteq Nat /\ 0 \in OrdersPerDay
  /\ MaxEvents \in Nat /\ MaxOrders \in Nat
  /\ Amounts \subseteq Nat
  /\ "completed" \in Statuses

VARIABLES
  phase,     \* "users", "events", "orders" or "done"
  data,      \* what was generated so far
  cursor     \* [user, day, left]

genVars == <<phase, data, cursor>>

Users == 1 .. NUsers

GenInit ==
  /\ phase = "users"
  /\ data = NoData
  /\ cursor = [user |-> 1, day |-> 0, left |-> 0]

-----------------------------------------------------------------------------

GenerateUsers ==
  /\ phase = "users"
  /\ \E signup \in [Users -> 0 .. Days - 1] :
       data' = [data EXCEPT !.users =
                  {[user_id |-> u, signup_date |-> signup[u]] : u \in Users}]
  /\ phase' = "events"
  /\ UNCHANGED cursor

\* Mutant of SecondOffsets: the upper end is included.
SecondOffsetsInclusive == 0 .. DaySeconds

SecondOffsets == 0 .. DaySeconds - 1

Timestamp(day, offset) == day * DaySeconds + offset

\* event_id and order_id start at 1 and grow by one with every row.
EventId == Cardinality(data.events) + 1
OrderId == Cardinality(data.orders) + 1

\* The next (user, day) pair of the event loops, or the order loop.
NextPair ==
  IF cursor.day + 1 < Days
    THEN /\ cursor' = [user |-> cursor.user, day |-> cursor.day + 1, left |-> 0]
         /\ UNCHANGED phase
    ELSE IF cursor.user < NUsers
    THEN /\ cursor' = [user |-> cursor.user + 1, day |-> 0, left |-> 0]
         /\ UNCHANGED phase
    ELSE /\ cursor' = [user |-> 1, day |-> 0, left |-> 0]
         /\ phase' = "orders"

SignedUp == \E u \in data.users : u.user_id = cursor.user /\ u.signup_date <= cursor.day

\* `continue': before the signup, or not active.
SkipPair ==
  /\ phase = "events" /\ cursor.left = 0
  /\ NextPair
  /\ UNCHANGED data

\* The activity matrix has this pair, and the number of its events is drawn.
ActivePair ==
  /\ phase = "events" /\ cursor.left = 0
  /\ SignedUp
  /\ \E n \in EventsPerDay :
       /\ Cardinality(data.events) + n <= MaxEvents
       /\ cursor' = [cursor EXCEPT !.left = n]
  /\ UNCHANGED <<phase, data>>

GenerateEvent ==
  /\ phase = "events" /\ cursor.left > 0
  /\ \E offset \in SecondOffsets :
       data' = [data EXCEPT !.events = @ \cup
                  {[event_id   |-> EventId,
                    user_id    |-> cursor.user,
                    event_ts   |-> Timestamp(cursor.day, offset),
                    session_id |-> <<cursor.user, cursor.day>>]}]
  /\ IF cursor.left = 1
       THEN NextPair
       ELSE cursor' = [cursor EXCEPT !.left = @ - 1] /\ UNCHANGED phase

-----------------------------------------------------------------------------

\* The number of the day's orders is drawn; left counts one more than is left,
\* so that a day without orders can be told from a day not begun.
BeginOrders ==
  /\ phase = "orders" /\ cursor.left = 0
  /\ \E n \in OrdersPerDay :
       /\ Cardinality(data.orders) + n <= MaxOrders
       /\ cursor' = [cursor EXCEPT !.left = n + 1]
  /\ UNCHANGED <<phase, data>>

GenerateOrder ==
  /\ phase = "orders" /\ cursor.left > 1
  /\ \E buyer \in Users, amount \in Amounts, status \in Statuses, offset \in SecondOffsets :
       data' = [data EXCEPT !.orders = @ \cup
                  {[order_id |-> OrderId,
                    user_id  |-> buyer,
                    amount   |-> amount,
                    order_ts |-> Timestamp(cursor.day, offset),
                    status   |-> status]}]
  /\ cursor' = [cursor EXCEPT !.left = @ - 1]
  /\ UNCHANGED phase

EndOrders ==
  /\ phase = "orders" /\ cursor.left = 1
  /\ IF cursor.day + 1 < Days
       THEN cursor' = [cursor EXCEPT !.day = @ + 1, !.left = 0] /\ UNCHANGED phase
       ELSE cursor' = [cursor EXCEPT !.left = 0] /\ phase' = "done"
  /\ UNCHANGED data

GenNext ==
  \/ GenerateUsers
  \/ SkipPair \/ ActivePair \/ GenerateEvent
  \/ BeginOrders \/ GenerateOrder \/ EndOrders

GenSpec == GenInit /\ [][GenNext]_genVars

-----------------------------------------------------------------------------
(* Safety *)

\* "DAU exactly the count of users that drew an active flag for that day"
\* (generate.py:91-94): a session is a user's one active day, and the mart finds
\* as many active users on a day as sessions were drawn for it.
DauCountsSessions ==
  LET mart == fct_daily_active_users(data.events)
      sessions(date) == {e.session_id : e \in {f \in data.events : f.session_id[2] = date}}
  IN  \A date \in 0 .. Days :
        Cardinality(sessions(date)) = IF date \in DOMAIN mart THEN mart[date] ELSE 0

\* SQL and pandas agree on every day: a mart has a row for the days on which
\* the helper that derives the golden value finds something, and the same value.
MartsAgreeWithHelpers ==
  LET dau     == fct_daily_active_users(data.events)
      revenue == fct_revenue_by_day(data.orders)
  IN  \A date \in 0 .. Days - 1 :
        LET golden == derive_golden(data, date) IN
          /\ date \in DOMAIN dau <=> golden.golden_dau > 0
          /\ date \in DOMAIN revenue <=> golden.golden_n_orders > 0
          /\ assert_dau_golden(dau, golden)
          /\ assert_revenue_golden(revenue, golden)

\* What a column of a mart, a function of its key, adds up to.
ColumnTotal(column) == MapThenSumSet(LAMBDA key : column[key], DOMAIN column)

\* The user dimension and the day marts tell the same story: all events, all
\* completed orders and all revenue are someone's, and each exactly once.
MartsReconcile ==
  phase # "users" =>
    LET dim     == dim_users(data.users, data.events, data.orders)
        dau     == fct_daily_active_users(data.events)
        revenue == fct_revenue_by_day(data.orders)
    IN  /\ ColumnTotal([u \in DOMAIN dim |-> dim[u].n_events]) = Cardinality(data.events)
        /\ ColumnTotal([u \in DOMAIN dim |-> dim[u].n_completed_orders])
             = ColumnTotal([d \in DOMAIN revenue |-> revenue[d].n_orders])
        /\ ColumnTotal([u \in DOMAIN dim |-> dim[u].lifetime_revenue])
             = ColumnTotal([d \in DOMAIN revenue |-> revenue[d].revenue])
        /\ \A date \in DOMAIN dau :
             dau[date] <= Cardinality({u \in DOMAIN dim :
               dim[u].first_event_ts # NULL /\ DateOf(dim[u].first_event_ts) <= date
                 /\ date <= DateOf(dim[u].last_event_ts)})

=============================================================================
