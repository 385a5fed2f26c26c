----------------------------- MODULE TpccDriver -----------------------------
(***************************************************************************)
(* The TPC-C transactions of duckdb_lab: the Do functions of driver.cpp    *)
(* and the statements of templates.h they send, run by several connections *)
(* at once.                                                                *)
(*                                                                         *)
(* DuckDB (external) gives a transaction the database as it was at its     *)
(* START TRANSACTION together with its own changes, and refuses to change  *)
(* a cell that another open transaction has changed or one has committed   *)
(* since.  A statement may also fail for any other reason.  What only      *)
(* reads comes with the next statement that writes: a transaction reads    *)
(* the same whenever it reads.                                             *)
(*                                                                         *)
(* An amount in a statement is text: a float printed with the six          *)
(* significant digits of a stream, or an int.  h_amount, at most 5000.00,  *)
(* is printed in full; the columns keep what they are given and add        *)
(* exactly.                                                                *)
(*                                                                         *)
(* A cell is a column and a row.  A row that a transaction inserts is      *)
(* named after the transaction, so that two rows may have one key.         *)
(***************************************************************************)
EXTENDS Integers, Sequences, FiniteSets, FiniteSetsExt

CONSTANTS
  Txns,        \* the transactions, each on a connection of its own
  WarehouseIds,  \* 1 .. scale factor
  Districts,   \* 1 .. DISTRICTS_PER_WAREHOUSE
  Customers,   \* ids of the customers of a district
  HAmount,     \* h_amount of a payment
  Loaded,      \* SUM(OL_AMOUNT) of an order that was loaded
  NullValue,   \* what GetValue<int> makes of NULL
  FloatOf(_),  \* an amount as a float
  SixDigits(_),  \* an amount printed with six significant digits and read back
  IntOf(_)     \* what GetValue<int> makes of an amount

DistrictKeys == WarehouseIds \X Districts
CustomerKeys == WarehouseIds \X Districts \X Customers
FirstWarehouse == 1

ASSUME DriverAssumption ==
  /\ FirstWarehouse \in WarehouseIds /\ 1 \in Districts
  /\ Districts = 1 .. Cardinality(Districts) /\ Customers # {}
  /\ Txns \cap DistrictKeys = {}
  /\ HAmount \in Nat /\ Loaded \in Nat /\ NullValue \in Int

VARIABLES
  db,         \* the committed database, column by column
  view,       \* the database each open transaction sees
  written,    \* the cells an open transaction has changed
  stale,      \* the cells that were committed since it started
  statement,  \* the next statement of each transaction
  ctx,        \* its context
  d_id,       \* the loop variable of DoDelivery
  local       \* d_next_o_id of DoNewOrder, the row DoDelivery has found

driverVars == <<db, view, written, stale, statement, ctx, d_id, local>>

Closed == {"idle", "committed", "rolledback"}
Open(t) == statement[t] \notin Closed

NULL_CARRIER_ID == 0

AnyCustomer == CHOOSE c \in Customers : TRUE

\* One order of each district was loaded, of one customer and not delivered.
Rows == Txns \cup DistrictKeys
NoRow == [w |-> 0, d |-> 0, o |-> 0, c |-> 0, carrier |-> 0]
LoadedOrder(wd) ==
  [w |-> wd[1], d |-> wd[2], o |-> 1, c |-> AnyCustomer,
   carrier |-> NULL_CARRIER_ID]
Initially(r) == IF r \in DistrictKeys THEN LoadedOrder(r) ELSE NoRow

\* A customer's row, with as history what it was computed from: the payments and
\* the deliveries that the row has seen, and what each of them left in it.
InitialDb ==
  [W_YTD       |-> [w \in WarehouseIds |-> 0],
   D_YTD       |-> [wd \in DistrictKeys |-> 0],
   D_NEXT_O_ID |-> [wd \in DistrictKeys |-> 2],
   CUSTOMER    |-> [k \in CustomerKeys |-> [balance |-> 0, ytd_payment |-> 0, payment_cnt |-> 0, log |-> <<>>]],
   ORDERS      |-> [r \in Rows |-> Initially(r)],
   NEW_ORDER   |-> [r \in Rows |-> Initially(r)],
   HISTORY     |-> [t \in Txns |-> <<>>]]

\* The contexts that TpccFactory::NextContext makes; i_ids is always empty,
\* because MockItemIDS leaves its loop at once.  A payment for a customer of
\* another warehouse is made only with the first warehouse as the other one.
\* Fields that a type of context does not have are fixed.
Contexts ==
  {x \in [type : {"NEW_ORDER", "DELIVERY", "PAYMENT", "ORDER_STATUS", "STOCK_LEVEL"},
          w_id : WarehouseIds, d_id : Districts, c_id : Customers,
          c_w_id : WarehouseIds, c_d_id : Districts] :
     /\ x.type = "DELIVERY" => x.d_id = 1
     /\ x.type \in {"DELIVERY", "STOCK_LEVEL"} => x.c_id = AnyCustomer
     /\ \/ x.c_w_id = x.w_id /\ x.c_d_id = x.d_id
        \/ /\ x.type = "PAYMENT" /\ Cardinality(WarehouseIds) # 1
           /\ x.c_w_id = FirstWarehouse /\ x.w_id # FirstWarehouse}

NoContext == CHOOSE x \in Contexts : TRUE

DriverInit ==
  /\ db = InitialDb
  /\ view = [t \in Txns |-> <<>>]
  /\ written = [t \in Txns |-> {}]
  /\ stale = [t \in Txns |-> {}]
  /\ statement = [t \in Txns |-> "idle"]
  /\ ctx = [t \in Txns |-> NoContext]
  /\ d_id = [t \in Txns |-> 1]
  /\ local = [t \in Txns |-> 0]

\* The row x after the entry e, a payment or a delivery.
Entered(x, e, balance, ytd_payment, payment_cnt) ==
  [balance |-> balance, ytd_payment |-> ytd_payment, payment_cnt |-> payment_cnt,
   log     |-> Append(x.log, [of |-> e, balance |-> balance, ytd_payment |-> ytd_payment])]

-----------------------------------------------------------------------------
(* The connection. *)

GotoStatement(t, to) == statement' = [statement EXCEPT ![t] = to]

FirstStatement(type) ==
  CASE type = "NEW_ORDER" -> "increment"
    [] type = "DELIVERY" -> "find"
    [] type = "PAYMENT" -> "warehouse"
    [] type = "ORDER_STATUS" -> "status"
    [] type = "STOCK_LEVEL" -> "stock"

\* Connections are interchangeable: which of the idle ones starts is fixed.
NextIdle == CHOOSE t \in Txns : statement[t] = "idle"

StartTransaction(t) ==
  /\ statement[t] = "idle" /\ t = NextIdle
  /\ \E x \in Contexts :
       /\ ctx' = [ctx EXCEPT ![t] = x]
       /\ GotoStatement(t, FirstStatement(x.type))
  /\ view' = [view EXCEPT ![t] = db]
  /\ UNCHANGED <<db, written, stale, d_id, local>>

Conflict(t, cell) ==
  \/ cell \in stale[t]
  \/ \E u \in Txns \ {t} : cell \in written[u]

\* A statement that sets one cell and succeeds.
Set(t, column, row, value) ==
  /\ ~Conflict(t, <<column, row>>)
  /\ view' = [view EXCEPT ![t][column][row] = value]
  /\ written' = [written EXCEPT ![t] = @ \cup {<<column, row>>}]
  /\ UNCHANGED <<db, stale, ctx>>

Forget(t) ==
  /\ view' = [view EXCEPT ![t] = <<>>]
  /\ d_id' = [d_id EXCEPT ![t] = 1]
  /\ local' = [local EXCEPT ![t] = 0]
  /\ UNCHANGED ctx

Merged(t) ==
  [column \in DOMAIN db |->
     [row \in DOMAIN db[column] |->
        IF <<column, row>> \in written[t] THEN view[t][column][row]
        ELSE db[column][row]]]

CommitTransaction(t) ==
  /\ statement[t] = "commit"
  /\ db' = Merged(t)
  /\ stale' = [u \in Txns |->
                 IF u # t /\ Open(u) THEN stale[u] \cup written[t]
                 ELSE IF u = t THEN {} ELSE stale[u]]
  /\ written' = [written EXCEPT ![t] = {}]
  /\ GotoStatement(t, "committed")
  /\ Forget(t)

\* Variant: the changes made so far are kept.
RollBackKeeping(t) ==
  /\ Open(t)
  /\ db' = Merged(t)
  /\ stale' = [stale EXCEPT ![t] = {}]
  /\ written' = [written EXCEPT ![t] = {}]
  /\ GotoStatement(t, "rolledback")
  /\ Forget(t)

\* A statement fails and CHECK_ROLLBACK, or the handler of Task::Run, rolls
\* the transaction back.
RollBackTransaction(t) ==
  /\ Open(t)
  /\ stale' = [stale EXCEPT ![t] = {}]
  /\ written' = [written EXCEPT ![t] = {}]
  /\ GotoStatement(t, "rolledback")
  /\ Forget(t)
  /\ UNCHANGED db

-----------------------------------------------------------------------------
(* DoNewOrder. *)

InDistrict(v, table, t, d) ==
  {r \in Rows : v[table][r] # NoRow /\ v[table][r].w = ctx[t].w_id
                                    /\ v[table][r].d = d}

Home(t) == <<ctx[t].w_id, ctx[t].d_id>>

NEWORDER_GetDistrict(t) == view[t].D_NEXT_O_ID[Home(t)]

\* Variant: the order id is written back as it was read.
NEWORDER_WriteNextOrderId(t) ==
  /\ statement[t] = "increment"
  /\ Set(t, "D_NEXT_O_ID", Home(t), NEWORDER_GetDistrict(t))
  /\ local' = [local EXCEPT ![t] = NEWORDER_GetDistrict(t)]
  /\ GotoStatement(t, "order")
  /\ UNCHANGED d_id

NEWORDER_IncrementNextOrderId(t) ==
  /\ statement[t] = "increment"
  /\ Set(t, "D_NEXT_O_ID", Home(t), NEWORDER_GetDistrict(t) + 1)
  /\ local' = [local EXCEPT ![t] = NEWORDER_GetDistrict(t)]
  /\ GotoStatement(t, "order")
  /\ UNCHANGED d_id

TheOrder(t) ==
  [w |-> ctx[t].w_id, d |-> ctx[t].d_id, o |-> local[t], c |-> ctx[t].c_id,
   carrier |-> NULL_CARRIER_ID]

NEWORDER_CreateOrder(t) ==
  /\ statement[t] = "order"
  /\ Set(t, "ORDERS", t, TheOrder(t))
  /\ GotoStatement(t, "new_order")
  /\ UNCHANGED <<d_id, local>>

\* No line follows: i_ids is empty.
NEWORDER_CreateNewOrder(t) ==
  /\ statement[t] = "new_order"
  /\ Set(t, "NEW_ORDER", t, TheOrder(t))
  /\ GotoStatement(t, "commit")
  /\ UNCHANGED <<d_id, local>>

DoNewOrder(t) ==
  NEWORDER_IncrementNextOrderId(t) \/ NEWORDER_CreateOrder(t) \/ NEWORDER_CreateNewOrder(t)

-----------------------------------------------------------------------------
(* DoDelivery: one order of every district of the warehouse. *)

MIN_CARRIER_ID == 1

\* To the next district, or out of the loop.
NextDistrict(t) ==
  /\ d_id' = [d_id EXCEPT ![t] = IF @ + 1 \in Districts THEN @ + 1 ELSE 1]
  /\ local' = [local EXCEPT ![t] = 0]
  /\ GotoStatement(t, IF d_id[t] + 1 \in Districts THEN "find" ELSE "commit")

\* The first row of NEW_ORDER in no particular order; none: continue.
DELIVERY_GetNewOrder(t) ==
  LET found == InDistrict(view[t], "NEW_ORDER", t, d_id[t]) IN
  /\ statement[t] = "find"
  /\ \/ /\ found = {}
        /\ NextDistrict(t)
     \/ \E r \in found :
          /\ local' = [local EXCEPT ![t] = r]
          /\ GotoStatement(t, "delete")
          /\ UNCHANGED d_id
  /\ UNCHANGED <<db, view, written, stale, ctx>>

\* The order of the row that was found; without one GetCid has no value to
\* return and throws.
SameOrder(t) ==
  LET no == view[t].NEW_ORDER[local[t]] IN
  {r \in InDistrict(view[t], "ORDERS", t, d_id[t]) : view[t].ORDERS[r].o = no.o}

DELIVERY_GetCid(t, r) == view[t].ORDERS[r].c

\* The sum over the lines that were loaded with the order, if it was loaded;
\* the sum over no line is NULL.  It is taken as an int.
DELIVERY_SumOLAmount(r) == IF r \in DistrictKeys THEN IntOf(Loaded) ELSE NullValue

DELIVERY_DeleteNewOrder(t) ==
  /\ statement[t] = "delete" /\ SameOrder(t) # {}
  /\ Set(t, "NEW_ORDER", local[t], NoRow)
  /\ local' = [local EXCEPT ![t] = CHOOSE r \in SameOrder(t) : TRUE]
  /\ GotoStatement(t, "carrier")
  /\ UNCHANGED d_id

\* The dates of the order's lines follow; no other transaction sets them.
DELIVERY_UpdateOrders(t) ==
  /\ statement[t] = "carrier"
  /\ Set(t, "ORDERS", local[t], [view[t].ORDERS[local[t]] EXCEPT !.carrier = MIN_CARRIER_ID])
  /\ GotoStatement(t, "customer")
  /\ UNCHANGED <<d_id, local>>

DELIVERY_UpdateCustomer(t) ==
  LET k == <<ctx[t].w_id, d_id[t], DELIVERY_GetCid(t, local[t])>>
      customer == view[t].CUSTOMER[k] IN
  /\ statement[t] = "customer"
  /\ Set(t, "CUSTOMER", k,
         Entered(customer, <<"delivered", local[t]>>, customer.balance + DELIVERY_SumOLAmount(local[t]),
                 customer.ytd_payment, customer.payment_cnt))
  /\ NextDistrict(t)

DoDelivery(t) ==
  \/ DELIVERY_GetNewOrder(t) \/ DELIVERY_DeleteNewOrder(t)
  \/ DELIVERY_UpdateOrders(t) \/ DELIVERY_UpdateCustomer(t)

-----------------------------------------------------------------------------
(* DoPayment. *)

PAYMENT_UpdateWarehouseBalance(t) ==
  /\ statement[t] = "warehouse"
  /\ Set(t, "W_YTD", ctx[t].w_id, view[t].W_YTD[ctx[t].w_id] + HAmount)
  /\ GotoStatement(t, "district")
  /\ UNCHANGED <<d_id, local>>

PAYMENT_UpdateDistrictBalance(t) ==
  /\ statement[t] = "district"
  /\ Set(t, "D_YTD", Home(t), view[t].D_YTD[Home(t)] + HAmount)
  /\ GotoStatement(t, "pay")
  /\ UNCHANGED <<d_id, local>>

\* By id, or the one in the middle of those with the last name; the customer
\* is looked for in the district that is paid through.
PAYMENT_GetCustomer(t) ==
  view[t].CUSTOMER[<<ctx[t].w_id, ctx[t].d_id, ctx[t].c_id>>]

Payer(t) == <<ctx[t].c_w_id, ctx[t].c_d_id, ctx[t].c_id>>

\* Of good and of bad credit alike.  Both amounts are floats, and are printed.
PAYMENT_UpdateCustomer(t) ==
  LET customer == PAYMENT_GetCustomer(t) IN
  /\ statement[t] = "pay"
  /\ Set(t, "CUSTOMER", Payer(t),
         Entered(customer, <<"paid", t>>, SixDigits(FloatOf(FloatOf(customer.balance) - HAmount)),
                 SixDigits(FloatOf(FloatOf(customer.ytd_payment) + HAmount)), customer.payment_cnt + 1))
  /\ GotoStatement(t, "history")
  /\ UNCHANGED <<d_id, local>>

PAYMENT_InsertHistory(t) ==
  /\ statement[t] = "history"
  /\ Set(t, "HISTORY", t, Payer(t) \o Home(t))
  /\ GotoStatement(t, "commit")
  /\ UNCHANGED <<d_id, local>>

DoPayment(t) ==
  \/ PAYMENT_UpdateWarehouseBalance(t) \/ PAYMENT_UpdateDistrictBalance(t)
  \/ PAYMENT_UpdateCustomer(t) \/ PAYMENT_InsertHistory(t)

-----------------------------------------------------------------------------
(* DoOrderStatus and DoStockLevel only read. *)

\* ORDER BY O_ID DESC LIMIT 1; 0 when the customer has no order.
ORDER_STATUS_GetLastOrder(t) ==
  LET o_ids == {view[t].ORDERS[r].o :
                  r \in {r \in InDistrict(view[t], "ORDERS", t, ctx[t].d_id) :
                          view[t].ORDERS[r].c = ctx[t].c_id}}
  IN  Max(o_ids \cup {0})

\* The lines of the last order, if there is one, are read and dropped.
DoOrderStatus(t) ==
  /\ statement[t] = "status"
  /\ local' = [local EXCEPT ![t] = ORDER_STATUS_GetLastOrder(t)]
  /\ GotoStatement(t, "commit")
  /\ UNCHANGED <<db, view, written, stale, ctx, d_id>>

STOCKLEVEL_GetOid(t) == view[t].D_NEXT_O_ID[Home(t)]

\* The count of the stock of the last 20 orders is read and dropped.
DoStockLevel(t) ==
  /\ statement[t] = "stock"
  /\ local' = [local EXCEPT ![t] = STOCKLEVEL_GetOid(t)]
  /\ GotoStatement(t, "commit")
  /\ UNCHANGED <<db, view, written, stale, ctx, d_id>>

-----------------------------------------------------------------------------
Finished ==
  /\ \A t \in Txns : ~Open(t) /\ statement[t] # "idle"
  /\ UNCHANGED driverVars

DriverNext ==
  \/ \E t \in Txns :
       \/ StartTransaction(t) \/ DoNewOrder(t) \/ DoDelivery(t) \/ DoPayment(t)
       \/ DoOrderStatus(t) \/ DoStockLevel(t) \/ CommitTransaction(t) \/ RollBackTransaction(t)
  \/ Finished

DriverSpec == DriverInit /\ [][DriverNext]_driverVars

-----------------------------------------------------------------------------
(* Properties: the consistency conditions of the benchmark. *)

Columns == DOMAIN InitialDb

DriverTypeOK ==
  /\ DOMAIN db = Columns
  /\ \A x \in Columns : DOMAIN db[x] = DOMAIN InitialDb[x]
  /\ \A t \in Txns :
       /\ view[t] # <<>> <=> Open(t)
       /\ ~Open(t) => written[t] = {} /\ stale[t] = {}
       /\ \A cell \in written[t] \cup stale[t] :
            cell[1] \in Columns /\ cell[2] \in DOMAIN InitialDb[cell[1]]
       /\ ctx[t] \in Contexts
       /\ d_id[t] \in Districts

OrdersOf(wd) ==
  {r \in Rows : db.ORDERS[r] # NoRow /\ <<db.ORDERS[r].w, db.ORDERS[r].d>> = wd}

\* The order ids of a district are 1 .. D_NEXT_O_ID - 1, each given once.
OrderIdsDense ==
  \A wd \in DistrictKeys :
    LET last == db.D_NEXT_O_ID[wd] - 1 IN
    /\ {db.ORDERS[r].o : r \in OrdersOf(wd)} = 1 .. last
    /\ Cardinality(OrdersOf(wd)) = last

Key(row) == <<row.w, row.d, row.o>>

\* NEW_ORDER has exactly the orders without a carrier.
NewOrderIsUndelivered ==
  {Key(db.NEW_ORDER[r]) : r \in {r \in Rows : db.NEW_ORDER[r] # NoRow}}
    = {Key(db.ORDERS[r]) : r \in {r \in Rows : /\ db.ORDERS[r] # NoRow
                                              /\ db.ORDERS[r].carrier = NULL_CARRIER_ID}}

\* Order ids stay dense and unique also when two new orders have read the same
\* D_NEXT_O_ID, and no order is delivered twice or forgotten when two
\* deliveries find the same row.
OrdersSound == DriverTypeOK /\ OrderIdsDense /\ NewOrderIsUndelivered

PaymentsThrough(w) == {t \in Txns : db.HISTORY[t] # <<>> /\ db.HISTORY[t][4] = w}
PaymentsIn(wd) == {t \in Txns : db.HISTORY[t] # <<>> /\ <<db.HISTORY[t][4], db.HISTORY[t][5]>> = wd}

\* W_YTD and D_YTD are the amounts in HISTORY of what was paid through the
\* warehouse and through the district, so that W_YTD is also the sum of D_YTD
\* over the districts.
YtdBalanced ==
  /\ \A w \in WarehouseIds : db.W_YTD[w] = HAmount * Cardinality(PaymentsThrough(w))
  /\ \A wd \in DistrictKeys : db.D_YTD[wd] = HAmount * Cardinality(PaymentsIn(wd))

PaymentsOf(k) ==
  {t \in Txns : db.HISTORY[t] # <<>> /\ SubSeq(db.HISTORY[t], 1, 3) = k}

DeliveredTo(k) ==
  {r \in OrdersOf(<<k[1], k[2]>>) :
     db.ORDERS[r].c = k[3] /\ db.ORDERS[r].carrier # NULL_CARRIER_ID}

\* What the code makes of the amounts of a row by an entry.
After(x, e) ==
  IF e[1] = "paid"
  THEN [balance     |-> SixDigits(FloatOf(FloatOf(x.balance) - HAmount)),
        ytd_payment |-> SixDigits(FloatOf(FloatOf(x.ytd_payment) + HAmount))]
  ELSE [balance |-> x.balance + DELIVERY_SumOLAmount(e[2]), ytd_payment |-> x.ytd_payment]

Amounts(x) == [balance |-> x.balance, ytd_payment |-> x.ytd_payment]
NoAmounts == [balance |-> 0, ytd_payment |-> 0]
Left(log, i) == IF i = 0 THEN NoAmounts ELSE Amounts(log[i])

\* The amounts of a row are those of its entries one after the other, each once.
EntriesOnce(x) == \A i, j \in DOMAIN x.log : x.log[i].of = x.log[j].of => i = j
EntriesInTurn(x) ==
  /\ \A i \in DOMAIN x.log : Left(x.log, i) = After(Left(x.log, i - 1), x.log[i].of)
  /\ Amounts(x) = Left(x.log, Len(x.log))
EntriesOf(x) == {x.log[i].of : i \in DOMAIN x.log}

\* The row of a customer has seen every payment of the customer in HISTORY and
\* every order delivered to it, each once and one after the other.
CustomerLedger ==
  \A k \in CustomerKeys :
    LET row == db.CUSTOMER[k] IN
    /\ EntriesOf(row) = {<<"paid", t>> : t \in PaymentsOf(k)} \cup {<<"delivered", r>> : r \in DeliveredTo(k)}
    /\ EntriesOnce(row) /\ EntriesInTurn(row)
    /\ row.payment_cnt = Cardinality(PaymentsOf(k))

\* The sums of the warehouses and districts agree with HISTORY, and the amounts
\* and the count of a customer are what the payments in HISTORY and the orders
\* delivered make of them, in some order and with the roundings of the code: no
\* payment or delivery is lost or counted twice although a payment writes back
\* a balance that it computed from an earlier read, and a rollback takes back
\* all of them.
AccountsBalanced == YtdBalanced /\ CustomerLedger
=============================================================================
