--------------------------- MODULE SimulatedBroker ---------------------------
(***************************************************************************)
(* SimulatedBroker.execute (brokers/simulated.py): an order is carried out *)
(* at its own price against a local portfolio.  The method calls withdraw, *)
(* record_purchase, record_sale and deposit one after the other, and each  *)
(* of them may raise; what an earlier stage changed stays changed.  That   *)
(* the checks made beforehand leave no such stage to raise is for the      *)
(* properties to show, so the stages are kept.                             *)
(***************************************************************************)
EXTENDS Portfolio

CONSTANTS
  OrderIds,   \* Order.order_id
  Orders,     \* the orders a caller may construct; two may carry the same id
  Fee         \* SimulatedBroker.fee_per_order

Sides == {"buy", "sell"}

Order == [order_id : OrderIds, instrument : Instruments, side : Sides,
          quantity : Nat \ {0}, price : Amount]

ASSUME OrdersAssumption == Orders \subseteq Order
ASSUME FeeAssumption == Fee \in Nat

total_value(order) == order.price * order.quantity

\* The auditable record of one execution; the order stands for the fields
\* order_id, instrument, side, quantity, price and gross_value copied from it.
Transaction == [order : Orders, cash_change : Int, realized_profit : Int]

-----------------------------------------------------------------------------

\* Mutant for the checks: the balance is compared with the order's value alone.
execute_buy_GrossOnly(order, portfolio) ==
  LET total_debit == total_value(order) + Fee
      paid == [portfolio EXCEPT !.cash_balance = @ - total_debit]
  IN  IF total_value(order) > portfolio.cash_balance
      THEN Raise(portfolio)
      ELSE record_purchase(paid, order.instrument, order.quantity,
                           Quotient(total_debit, order.quantity))

\* Mutant for the checks: the fee is paid but not counted in the cost price.
execute_buy_FeeOutsideCost(order, portfolio) ==
  LET paid == withdraw(portfolio, total_value(order) + Fee)
  IN  IF paid.raised
      THEN paid
      ELSE record_purchase(paid.portfolio, order.instrument, order.quantity, order.price)

execute_buy(order, portfolio) ==
  LET total_debit == total_value(order) + Fee
      effective_unit_cost == Quotient(total_debit, order.quantity)
      paid == withdraw(portfolio, total_debit)
  IN  IF total_debit > portfolio.cash_balance \/ paid.raised
      THEN Raise(portfolio)
      ELSE record_purchase(paid.portfolio, order.instrument, order.quantity,
                           effective_unit_cost)

execute_sell(order, portfolio) ==
  LET symbol == order.instrument.symbol
      net_proceeds == total_value(order) - Fee
      sold == record_sale(portfolio, order.instrument, order.quantity,
                          Quotient(net_proceeds, order.quantity))
  IN  IF \/ ~Held(portfolio, symbol)
         \/ order.quantity > QuantityOf(portfolio, symbol)
         \/ net_proceeds <= 0
      THEN Raise(portfolio)
      ELSE IF sold.raised THEN sold ELSE deposit(sold.portfolio, net_proceeds)

\* Mutant for the checks: the instrument is only checked once the cash is gone.
execute_LateInstrumentCheck(order, portfolio) ==
  IF order.instrument.currency # AccountCurrency
  THEN Raise(portfolio)
  ELSE IF order.side = "buy"
       THEN execute_buy(order, portfolio)
       ELSE execute_sell(order, portfolio)

execute(order, portfolio) ==
  IF \/ order.instrument.currency # AccountCurrency
     \/ HeldByAnother(portfolio, order.instrument)
  THEN Raise(portfolio)
  ELSE IF order.side = "buy"
       THEN execute_buy(order, portfolio)
       ELSE execute_sell(order, portfolio)

\* The Transaction built after the portfolio has moved from before to after.
TransactionOf(order, before, after) ==
  [order |-> order,
   cash_change |-> IF order.side = "buy"
                   THEN -(total_value(order) + Fee)
                   ELSE total_value(order) - Fee,
   realized_profit |-> after.realized_profit - before.realized_profit]
=============================================================================
