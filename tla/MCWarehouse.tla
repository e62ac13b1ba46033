----------------------------- MODULE MCWarehouse -----------------------------
(***************************************************************************)
(* A dataset in the shape of the generator's for the Warehouse module: two *)
(* users over two days of two seconds, the second day the golden date.     *)
(***************************************************************************)
EXTENDS Warehouse

User(id, day) == [user_id |-> id, signup_date |-> day]

EventRow(id, user, ts) ==
  [event_id |-> id, user_id |-> user, event_ts |-> ts, session_id |-> <<user, DateOf(ts)>>]

OrderRow(id, user, amount, ts, status) ==
  [order_id |-> id, user_id |-> user, amount |-> amount, order_ts |-> ts, status |-> status]

MCData ==
  [users  |-> {User(1, 0), User(2, 1)},
   events |-> {EventRow(1, 1, 0), EventRow(2, 1, 2), EventRow(3, 1, 3), EventRow(4, 2, 3)},
   orders |-> {OrderRow(1, 2, 5, 1, "completed"), OrderRow(2, 1, 7, 2, "placed"),
               OrderRow(3, 1, 9, 3, "completed")}]

=============================================================================
