-------------------------------- MODULE Marts --------------------------------
(***************************************************************************)
(* The pure part of WarehouseLab: the staging and mart models of dbt       *)
(* (warehouse_dbt/models/), the helpers that derive the golden values      *)
(* (generator/generate.py) and the two golden tests (warehouse_dbt/tests/).*)
(*                                                                         *)
(* A raw dataset is a record of three sets: users, events and orders.      *)
(* Timestamps are seconds since start_date, so that a calendar day is a    *)
(* whole number of DaySeconds; amounts are whole cents.  The columns that  *)
(* no model computes with (country, plan, event_type) are left out.        *)
(***************************************************************************)
EXTENDS Integers, FiniteSets, FiniteSetsExt

CONSTANT DaySeconds    \* 86400

ASSUME DaySecondsAssumption == DaySeconds \in Nat \ {0}

NoData == [users |-> {}, events |-> {}, orders |-> {}]

\* sum(amount)
TotalAmount(orders) == MapThenSumSet(LAMBDA o : o.amount, orders)

-----------------------------------------------------------------------------
(* Staging: the raw columns with a derived date *)

DateOf(ts) == ts \div DaySeconds

event_date(event) == DateOf(event.event_ts)
order_date(order) == DateOf(order.order_ts)

-----------------------------------------------------------------------------
(* The marts *)

fct_daily_active_users(events) ==
  [date \in {event_date(e) : e \in events} |->
     Cardinality({e.user_id : e \in {f \in events : event_date(f) = date}})]

\* Mutant of CompletedOf: what was not refunded.
NotRefundedOf(orders) == {o \in orders : o.status # "refunded"}

CompletedOf(orders) == {o \in orders : o.status = "completed"}

fct_revenue_by_day(orders) ==
  LET completed == CompletedOf(orders) IN
    [date \in {order_date(o) : o \in completed} |->
       LET rows == {o \in completed : order_date(o) = date} IN
         [revenue  |-> TotalAmount(rows),
          n_orders |-> Cardinality(rows)]]

event_rollup(events) ==
  [user_id \in {e.user_id : e \in events} |->
     LET times == {e.event_ts : e \in {f \in events : f.user_id = user_id}} IN
       [n_events       |-> Cardinality({e \in events : e.user_id = user_id}),
        first_event_ts |-> Min(times),
        last_event_ts  |-> Max(times)]]

order_rollup(orders) ==
  [user_id \in {o.user_id : o \in orders} |->
     LET completed == {o \in CompletedOf(orders) : o.user_id = user_id} IN
       [n_completed_orders |-> Cardinality(completed),
        lifetime_revenue   |-> TotalAmount(completed)]]

NULL == -1

\* Mutant of dim_users: inner joins.
dim_users_joined(users, events, orders) ==
  LET e == event_rollup(events)
      o == order_rollup(orders)
  IN  [user_id \in {u.user_id : u \in users} \cap DOMAIN e \cap DOMAIN o |->
         [n_events           |-> e[user_id].n_events,
          first_event_ts     |-> e[user_id].first_event_ts,
          last_event_ts      |-> e[user_id].last_event_ts,
          n_completed_orders |-> o[user_id].n_completed_orders,
          lifetime_revenue   |-> o[user_id].lifetime_revenue]]

\* Two left joins, and coalesce where there is nothing to join.
dim_users(users, events, orders) ==
  LET e == event_rollup(events)
      o == order_rollup(orders)
      active(user_id) == user_id \in DOMAIN e
      buying(user_id) == user_id \in DOMAIN o
  IN  [user_id \in {u.user_id : u \in users} |->
         [n_events           |-> IF active(user_id) THEN e[user_id].n_events ELSE 0,
          first_event_ts     |-> IF active(user_id) THEN e[user_id].first_event_ts ELSE NULL,
          last_event_ts      |-> IF active(user_id) THEN e[user_id].last_event_ts ELSE NULL,
          n_completed_orders |-> IF buying(user_id) THEN o[user_id].n_completed_orders ELSE 0,
          lifetime_revenue   |-> IF buying(user_id) THEN o[user_id].lifetime_revenue ELSE 0]]

-----------------------------------------------------------------------------
(* The golden values, and the tests that compare a mart with them *)

compute_dau(events, date) ==
  LET day == {e \in events : event_date(e) = date} IN Cardinality({e.user_id : e \in day})

CompletedOn(orders, date) ==
  {o \in orders : order_date(o) = date /\ o.status = "completed"}

compute_revenue(orders, date) == TotalAmount(CompletedOn(orders, date))

\* Mutant of compute_n_orders: orders of any status.
compute_n_orders_placed(orders, date) == Cardinality({o \in orders : order_date(o) = date})

compute_n_orders(orders, date) == Cardinality(CompletedOn(orders, date))

derive_golden(data, date) ==
  [golden_date     |-> date,
   golden_dau      |-> compute_dau(data.events, date),
   golden_revenue  |-> compute_revenue(data.orders, date),
   golden_n_orders |-> compute_n_orders(data.orders, date)]

\* Each test selects the offending row, and passes when there is none.
assert_dau_golden(mart, golden) ==
  golden.golden_date \in DOMAIN mart => mart[golden.golden_date] = golden.golden_dau

assert_revenue_golden(mart, golden) ==
  golden.golden_date \in DOMAIN mart =>
    LET row == mart[golden.golden_date] IN
      /\ row.revenue - golden.golden_revenue \in -1 .. 1
      /\ row.n_orders = golden.golden_n_orders

=============================================================================
