----------------------- MODULE SimulatedBroker_proofs -----------------------
(***************************************************************************)
(* Lemmas about the operations of Portfolio and SimulatedBroker: whatever  *)
(* valid order is executed, the account it leaves behind is a valid one,   *)
(* and an execution that raises has left the account as it was.            *)
(***************************************************************************)
EXTENDS SimulatedBroker, WellFoundedInduction, TLAPS

\* Induction on the natural numbers, for the set of those that have a property.
LEMMA NumbersBySteps ==
  ASSUME NEW T, 0 \in T, \A k \in Nat : k \in T => k + 1 \in T
  PROVE  Nat \subseteq T
<1> DEFINE less == {ss \in Nat \X Nat : ss[1] < ss[2]}
           rest == Nat \ T
<1>1. SUFFICES ASSUME rest # {}
               PROVE  FALSE
  OBVIOUS
<1>2. PICK m \in rest : \A i \in rest : ~ (<<i, m>> \in less)
  <2>1. IsWellFoundedOn(less, Nat)
    BY NatLessThanWellFounded DEF less, OpToRel
  <2>2. rest \subseteq Nat
    OBVIOUS
  <2> HIDE DEF less, rest
  <2> QED
    BY <1>1, <2>1, <2>2, WFMin
<1>3. m \in Nat /\ m \notin T /\ m # 0
  OBVIOUS
<1>4. m - 1 \in Nat /\ (m - 1) + 1 = m /\ m - 1 < m
  BY <1>3
<1>5. m - 1 \notin T
  BY <1>3, <1>4
<1>6. <<m - 1, m>> \in less
  BY <1>3, <1>4
<1> QED
  BY <1>2, <1>4, <1>5, <1>6

\* A product of positive amounts is a positive amount.
LEMMA ProductPositive ==
  ASSUME NEW a \in Nat \ {0}, NEW b \in Nat \ {0}
  PROVE  a * b \in Nat \ {0}
<1>1. a * b \in Int
  OBVIOUS
<1>2. a * b > 0
  BY Z3
<1> QED
  BY <1>1, <1>2

\* Decimal division of a positive amount never yields a price of zero.
LEMMA QuotientType ==
  ASSUME NEW amount \in Nat, NEW n \in Nat \ {0}
  PROVE  Quotient(amount, n) \in Amount
<1>1. amount \div n \in Nat
  OBVIOUS
<1> DEFINE q == amount \div n
<1>2. q + 1 \in Nat
  BY <1>1
<1> QED
  BY <1>1, <1>2 DEF Quotient, Amount

-----------------------------------------------------------------------------
(* Cash. *)

LEMMA DepositType ==
  ASSUME NEW portfolio \in PortfolioType, NEW amount \in Amount
  PROVE  /\ deposit(portfolio, amount).raised = FALSE
         /\ deposit(portfolio, amount).portfolio \in PortfolioType
  BY DEF deposit, Return, PortfolioType, Amount

LEMMA WithdrawType ==
  ASSUME NEW portfolio \in PortfolioType, NEW amount \in Amount,
         amount <= portfolio.cash_balance
  PROVE  /\ withdraw(portfolio, amount).raised = FALSE
         /\ withdraw(portfolio, amount).portfolio \in PortfolioType
         /\ withdraw(portfolio, amount).portfolio.positions = portfolio.positions
  BY DEF withdraw, Return, PortfolioType, Amount

-----------------------------------------------------------------------------
(* Positions. *)

LEMMA HeldPosition ==
  ASSUME NEW portfolio \in PortfolioType, NEW symbol \in Symbols, Held(portfolio, symbol)
  PROVE  portfolio.positions[symbol] \in Position
  BY DEF Held, PortfolioType

LEMMA AddPurchaseType ==
  ASSUME NEW position \in Position, NEW quantity \in Nat \ {0}, NEW price \in Amount
  PROVE  add_purchase(position, quantity, price) \in Position
<1> DEFINE paid == position.average_price * position.quantity
           added == price * quantity
           new_quantity == position.quantity + quantity
<1>1. paid \in Nat /\ added \in Nat
  BY ProductPositive DEF Position, Amount
<1>2. new_quantity \in Nat \ {0}
  BY DEF Position
<1>3. Quotient(paid + added, new_quantity) \in Amount
  <2>1. paid + added \in Nat
    BY <1>1
  <2> HIDE DEF paid, added, new_quantity
  <2> QED
    BY <2>1, <1>2, QuotientType
<1> QED
  BY <1>2, <1>3 DEF add_purchase, Position

\* A purchase is recorded unless the symbol belongs to another instrument.
LEMMA RecordPurchaseType ==
  ASSUME NEW portfolio \in PortfolioType, NEW instrument \in Instruments,
         NEW quantity \in Nat \ {0}, NEW price \in Amount,
         ~HeldByAnother(portfolio, instrument)
  PROVE  /\ record_purchase(portfolio, instrument, quantity, price).raised = FALSE
         /\ record_purchase(portfolio, instrument, quantity, price).portfolio \in PortfolioType
<1> DEFINE symbol == instrument.symbol
           opened == [instrument |-> instrument, quantity |-> quantity, average_price |-> price]
           entry  == IF Held(portfolio, symbol)
                     THEN add_purchase(portfolio.positions[symbol], quantity, price)
                     ELSE opened
<1>1. symbol \in Symbols
  BY InstrumentsAssumption
<1>2. entry \in Position
  BY <1>1, HeldPosition, AddPurchaseType DEF Position
<1>3. record_purchase(portfolio, instrument, quantity, price)
        = Return([portfolio EXCEPT !.positions[symbol] = entry])
  BY DEF record_purchase, ValidTrade, Amount
<1>4. [portfolio EXCEPT !.positions[symbol] = entry] \in PortfolioType
  BY <1>1, <1>2 DEF PortfolioType
<1> QED
  BY <1>3, <1>4 DEF Return

\* A sale of no more than is held is recorded.
LEMMA RecordSaleType ==
  ASSUME NEW portfolio \in PortfolioType, NEW instrument \in Instruments,
         NEW quantity \in Nat \ {0}, NEW sale_price \in Amount,
         ~HeldByAnother(portfolio, instrument),
         Held(portfolio, instrument.symbol),
         quantity <= portfolio.positions[instrument.symbol].quantity
  PROVE  /\ record_sale(portfolio, instrument, quantity, sale_price).raised = FALSE
         /\ record_sale(portfolio, instrument, quantity, sale_price).portfolio \in PortfolioType
<1> DEFINE symbol   == instrument.symbol
           position == portfolio.positions[symbol]
           profit   == sale_price * quantity - position.average_price * quantity
           after    == [portfolio EXCEPT
                          !.realized_profit = @ + profit,
                          !.positions[symbol] = remove_sale(position, quantity)]
<1>1. symbol \in Symbols
  BY InstrumentsAssumption
<1>2. position \in Position
  BY <1>1, HeldPosition
<1>3. profit \in Int
  <2>1. sale_price * quantity \in Nat /\ position.average_price * quantity \in Nat
    BY <1>2, ProductPositive DEF Position, Amount
  <2> QED
    BY <2>1
<1>4. remove_sale(position, quantity) \in Position \cup {NoPosition}
  BY <1>2 DEF remove_sale, Position
<1>5. after \in PortfolioType
  <2> DEFINE left      == remove_sale(position, quantity)
             positions == [portfolio.positions EXCEPT ![symbol] = left]
  <2>1. positions \in [Symbols -> Position \cup {NoPosition}]
    <3> HIDE DEF left
    <3> QED
      BY <1>4 DEF PortfolioType, left
  <2>2. portfolio.realized_profit + profit \in Int
    <3> HIDE DEF profit
    <3> QED
      BY <1>3 DEF PortfolioType
  <2>3. after = [portfolio EXCEPT !.realized_profit = @ + profit, !.positions = positions]
    BY DEF PortfolioType
  <2> HIDE DEF after, positions, profit
  <2> QED
    BY <2>1, <2>2, <2>3 DEF PortfolioType
<1>6. record_sale(portfolio, instrument, quantity, sale_price) = Return(after)
  BY <1>2 DEF record_sale, ValidTrade, Amount, Position
<1> QED
  BY <1>5, <1>6 DEF Return

-----------------------------------------------------------------------------
(* SimulatedBroker.execute. *)

LEMMA TotalValuePositive ==
  ASSUME NEW order \in Order
  PROVE  total_value(order) \in Nat \ {0}
  BY ProductPositive DEF total_value, Order, Amount

\* A purchase either raises before anything has changed, or succeeds.
LEMMA ExecuteBuyAtomic ==
  ASSUME NEW order \in Order, NEW portfolio \in PortfolioType,
         ~HeldByAnother(portfolio, order.instrument)
  PROVE  LET outcome == execute_buy(order, portfolio)
         IN  /\ outcome.portfolio \in PortfolioType
             /\ outcome.raised \in BOOLEAN
             /\ outcome.raised => outcome.portfolio = portfolio
<1> DEFINE debit == total_value(order) + Fee
           paid  == withdraw(portfolio, debit)
<1>1. debit \in Amount
  BY TotalValuePositive, FeeAssumption DEF Amount
<1>2. Quotient(debit, order.quantity) \in Amount
  BY <1>1, QuotientType DEF Order, Amount
<1>3. order.instrument \in Instruments /\ order.quantity \in Nat \ {0}
  BY DEF Order
<1>4. CASE debit > portfolio.cash_balance
  BY <1>4 DEF execute_buy, Raise
<1>5. CASE ~(debit > portfolio.cash_balance)
  <2>1. debit <= portfolio.cash_balance
    BY <1>1, <1>5 DEF PortfolioType, Amount
  <2>2. /\ paid.raised = FALSE
        /\ paid.portfolio \in PortfolioType
        /\ paid.portfolio.positions = portfolio.positions
    <3> HIDE DEF debit
    <3> QED
      BY <1>1, <2>1, WithdrawType
  <2>3. ~HeldByAnother(paid.portfolio, order.instrument)
    BY <2>2 DEF HeldByAnother, Held
  <2>4. execute_buy(order, portfolio)
          = record_purchase(paid.portfolio, order.instrument, order.quantity,
                            Quotient(debit, order.quantity))
    BY <1>5, <2>2 DEF execute_buy
  <2> HIDE DEF paid, debit
  <2>5. /\ execute_buy(order, portfolio).raised = FALSE
        /\ execute_buy(order, portfolio).portfolio \in PortfolioType
    <3> DEFINE account == paid.portfolio
               cost    == Quotient(debit, order.quantity)
               bought  == record_purchase(account, order.instrument, order.quantity, cost)
    <3>1. /\ account \in PortfolioType
          /\ ~HeldByAnother(account, order.instrument)
          /\ cost \in Amount
      BY <1>2, <2>2, <2>3
    <3>2. bought.raised = FALSE /\ bought.portfolio \in PortfolioType
      <4> HIDE DEF account, cost
      <4> QED
        BY <1>3, <3>1, RecordPurchaseType
    <3> QED
      BY <2>4, <3>2
  <2> QED
    BY <2>5, Zenon
<1> QED
  BY <1>4, <1>5

\* A sale either raises before anything has changed, or succeeds: the deposit of
\* the proceeds cannot fail once the position is sold.
LEMMA ExecuteSellAtomic ==
  ASSUME NEW order \in Order, NEW portfolio \in PortfolioType,
         ~HeldByAnother(portfolio, order.instrument)
  PROVE  LET outcome == execute_sell(order, portfolio)
         IN  /\ outcome.portfolio \in PortfolioType
             /\ outcome.raised \in BOOLEAN
             /\ outcome.raised => outcome.portfolio = portfolio
<1> DEFINE symbol   == order.instrument.symbol
           proceeds == total_value(order) - Fee
           sold     == record_sale(portfolio, order.instrument, order.quantity,
                                   Quotient(proceeds, order.quantity))
           refused  == \/ ~Held(portfolio, symbol)
                       \/ order.quantity > QuantityOf(portfolio, symbol)
                       \/ proceeds <= 0
<1>1. order.instrument \in Instruments /\ order.quantity \in Nat \ {0}
  BY DEF Order
<1>2. CASE refused
  BY <1>2 DEF execute_sell, Raise
<1>3. CASE ~refused
  <2>1. proceeds \in Amount
    BY <1>3, TotalValuePositive, FeeAssumption DEF Amount
  <2>2. Quotient(proceeds, order.quantity) \in Amount
    <3> HIDE DEF proceeds
    <3> QED
      BY <1>1, <2>1, QuotientType DEF Amount
  <2>3. Held(portfolio, symbol) /\ order.quantity <= portfolio.positions[symbol].quantity
    <3>1. portfolio.positions[symbol] \in Position
      BY <1>1, <1>3, InstrumentsAssumption, HeldPosition
    <3> QED
      BY <1>1, <1>3, <3>1 DEF QuantityOf, Position
  <2>4. sold.raised = FALSE /\ sold.portfolio \in PortfolioType
    <3> HIDE DEF proceeds
    <3> QED
      BY <1>1, <2>2, <2>3, RecordSaleType
  <2>5. execute_sell(order, portfolio) = deposit(sold.portfolio, proceeds)
    BY <1>3, <2>4 DEF execute_sell
  <2> HIDE DEF sold, proceeds
  <2>6. /\ execute_sell(order, portfolio).raised = FALSE
        /\ execute_sell(order, portfolio).portfolio \in PortfolioType
    BY <2>1, <2>4, <2>5, DepositType
  <2> QED
    BY <2>6, Zenon
<1> QED
  BY <1>2, <1>3

\* SimulatedBroker.execute is all or nothing: the withdrawal, the position and the
\* deposit are separate calls that may each raise (simulated.py 138-183), yet no
\* order leaves the account half changed.
THEOREM ExecuteAtomic ==
  ASSUME NEW order \in Order, NEW portfolio \in PortfolioType
  PROVE  LET outcome == execute(order, portfolio)
         IN  /\ outcome.portfolio \in PortfolioType
             /\ outcome.raised \in BOOLEAN
             /\ outcome.raised => outcome.portfolio = portfolio
<1>1. CASE \/ order.instrument.currency # AccountCurrency
           \/ HeldByAnother(portfolio, order.instrument)
  BY <1>1 DEF execute, Raise
<1>2. CASE ~ \/ order.instrument.currency # AccountCurrency
             \/ HeldByAnother(portfolio, order.instrument)
  <2>1. CASE order.side = "buy"
    BY <1>2, <2>1, ExecuteBuyAtomic DEF execute
  <2>2. CASE order.side # "buy"
    BY <1>2, <2>2, ExecuteSellAtomic DEF execute
  <2> QED
    BY <2>1, <2>2
<1> QED
  BY <1>1, <1>2

\* A purchase that is recorded adds its quantity to the symbol and moves no cash.
LEMMA RecordPurchaseEffect ==
  ASSUME NEW portfolio \in PortfolioType, NEW instrument \in Instruments,
         NEW quantity \in Nat \ {0}, NEW price \in Amount,
         ~HeldByAnother(portfolio, instrument)
  PROVE  LET after == record_purchase(portfolio, instrument, quantity, price).portfolio
         IN  /\ after.cash_balance = portfolio.cash_balance
             /\ QuantityOf(after, instrument.symbol)
                  = QuantityOf(portfolio, instrument.symbol) + quantity
<1> DEFINE symbol == instrument.symbol
           opened == [instrument |-> instrument, quantity |-> quantity, average_price |-> price]
           entry  == IF Held(portfolio, symbol)
                     THEN add_purchase(portfolio.positions[symbol], quantity, price)
                     ELSE opened
           after  == [portfolio EXCEPT !.positions[symbol] = entry]
<1>1. symbol \in Symbols
  BY InstrumentsAssumption
<1>2. entry \in Position
  BY <1>1, HeldPosition, AddPurchaseType DEF Position
<1>3. record_purchase(portfolio, instrument, quantity, price) = Return(after)
  BY DEF record_purchase, ValidTrade, Amount
<1>4. entry.quantity = QuantityOf(portfolio, symbol) + quantity
  <2>1. CASE Held(portfolio, symbol)
    <3>1. portfolio.positions[symbol] \in Position
      BY <1>1, <2>1, HeldPosition
    <3> QED
      BY <2>1, <3>1 DEF add_purchase, QuantityOf, Position
  <2>2. CASE ~Held(portfolio, symbol)
    BY <2>2 DEF QuantityOf
  <2> QED
    BY <2>1, <2>2
<1>5. after.positions[symbol] = entry /\ after.cash_balance = portfolio.cash_balance
  <2> HIDE DEF entry
  <2> QED
    BY <1>1 DEF PortfolioType
<1>6. QuantityOf(after, symbol) = entry.quantity
  <2> HIDE DEF entry, after
  <2> QED
    BY <1>2, <1>5, NoPositionAssumption DEF QuantityOf, Held
<1>7. record_purchase(portfolio, instrument, quantity, price).portfolio = after
  <2> HIDE DEF after
  <2> QED
    BY <1>3 DEF Return
<1> HIDE DEF after, entry
<1> QED
  BY <1>4, <1>5, <1>6, <1>7

\* What a purchase does to the account when it succeeds: the cash pays for the order
\* and the fee, and the order's quantity joins what is held under its symbol.
LEMMA PurchaseEffect ==
  ASSUME NEW order \in Order, NEW portfolio \in PortfolioType,
         order.side = "buy", ~execute(order, portfolio).raised
  PROVE  LET after  == execute(order, portfolio).portfolio
             symbol == order.instrument.symbol
         IN  /\ after.cash_balance = portfolio.cash_balance - (total_value(order) + Fee)
             /\ QuantityOf(after, symbol) = QuantityOf(portfolio, symbol) + order.quantity
<1> DEFINE debit == total_value(order) + Fee
           paid  == withdraw(portfolio, debit)
           cost  == Quotient(debit, order.quantity)
<1>1. debit \in Amount
  BY TotalValuePositive, FeeAssumption DEF Amount
<1>2. order.instrument \in Instruments /\ order.quantity \in Nat \ {0}
  BY DEF Order
<1>3. cost \in Amount
  BY <1>1, <1>2, QuotientType DEF Amount
<1>4. ~HeldByAnother(portfolio, order.instrument)
  BY DEF execute, Raise
<1>5. execute(order, portfolio) = execute_buy(order, portfolio)
  BY DEF execute, Raise
<1>6. ~(debit > portfolio.cash_balance \/ paid.raised)
  BY <1>5 DEF execute_buy, Raise
<1>7. execute(order, portfolio)
        = record_purchase(paid.portfolio, order.instrument, order.quantity, cost)
  BY <1>5, <1>6 DEF execute_buy
<1>8. /\ paid.portfolio \in PortfolioType
      /\ paid.portfolio.positions = portfolio.positions
      /\ paid.portfolio.cash_balance = portfolio.cash_balance - debit
  <2>1. debit <= portfolio.cash_balance
    BY <1>1, <1>6 DEF PortfolioType, Amount
  <2> HIDE DEF debit
  <2>2. paid.portfolio.cash_balance = portfolio.cash_balance - debit
    BY <1>1, <2>1 DEF withdraw, Return, PortfolioType, Amount
  <2> QED
    BY <1>1, <2>1, <2>2, WithdrawType
<1> DEFINE account == paid.portfolio
<1>9. ~HeldByAnother(account, order.instrument)
  BY <1>4, <1>8 DEF HeldByAnother, Held
<1>10. QuantityOf(account, order.instrument.symbol)
         = QuantityOf(portfolio, order.instrument.symbol)
  BY <1>8 DEF QuantityOf, Held
<1> HIDE DEF cost, account, debit
<1>11. LET after == record_purchase(account, order.instrument, order.quantity, cost).portfolio
       IN  /\ after.cash_balance = account.cash_balance
           /\ QuantityOf(after, order.instrument.symbol)
                = QuantityOf(account, order.instrument.symbol) + order.quantity
  <2>1. account \in PortfolioType
    BY <1>8 DEF account
  <2> QED
    BY <2>1, <1>2, <1>3, <1>9, RecordPurchaseEffect
<1> QED
  BY <1>7, <1>8, <1>10, <1>11 DEF account, debit

\* A purchase that the cash pays for succeeds.
LEMMA PurchaseSucceeds ==
  ASSUME NEW order \in Order, NEW portfolio \in PortfolioType,
         order.side = "buy", order.instrument.currency = AccountCurrency,
         ~HeldByAnother(portfolio, order.instrument),
         total_value(order) + Fee <= portfolio.cash_balance
  PROVE  execute(order, portfolio).raised = FALSE
<1> DEFINE debit == total_value(order) + Fee
           paid  == withdraw(portfolio, debit)
           cost  == Quotient(debit, order.quantity)
<1>1. debit \in Amount
  BY TotalValuePositive, FeeAssumption DEF Amount
<1>2. order.instrument \in Instruments /\ order.quantity \in Nat \ {0}
  BY DEF Order
<1>3. cost \in Amount
  BY <1>1, <1>2, QuotientType DEF Amount
<1>4. execute(order, portfolio) = execute_buy(order, portfolio)
  BY DEF execute
<1>5. debit <= portfolio.cash_balance /\ ~(debit > portfolio.cash_balance)
  BY <1>1 DEF PortfolioType, Amount
<1> HIDE DEF debit
<1>6. /\ paid.raised = FALSE /\ paid.portfolio \in PortfolioType
      /\ paid.portfolio.positions = portfolio.positions
  BY <1>1, <1>5, WithdrawType
<1>7. execute_buy(order, portfolio)
        = record_purchase(paid.portfolio, order.instrument, order.quantity, cost)
  BY <1>5, <1>6 DEF execute_buy, debit
<1> DEFINE account == paid.portfolio
<1>8. account \in PortfolioType /\ ~HeldByAnother(account, order.instrument)
  BY <1>6 DEF HeldByAnother, Held
<1> HIDE DEF cost, account
<1>9. record_purchase(account, order.instrument, order.quantity, cost).raised = FALSE
  BY <1>2, <1>3, <1>8, RecordPurchaseType
<1> QED
  BY <1>4, <1>7, <1>9 DEF account

\* A sale of no more than is held fails only if its proceeds do not exceed the fee.
\* When it succeeds it leaves cash behind, and no position if it was of everything.
LEMMA SaleOutcome ==
  ASSUME NEW order \in Order, NEW portfolio \in PortfolioType,
         order.side = "sell", order.instrument.currency = AccountCurrency,
         ~HeldByAnother(portfolio, order.instrument),
         Held(portfolio, order.instrument.symbol),
         order.quantity <= QuantityOf(portfolio, order.instrument.symbol)
  PROVE  LET outcome == execute(order, portfolio)
         IN  /\ total_value(order) > Fee =>
                  /\ outcome.raised = FALSE
                  /\ outcome.portfolio.cash_balance > 0
                  /\ order.quantity = QuantityOf(portfolio, order.instrument.symbol) =>
                       ~Held(outcome.portfolio, order.instrument.symbol)
             /\ total_value(order) <= Fee => outcome.raised = TRUE
<1> DEFINE symbol   == order.instrument.symbol
           proceeds == total_value(order) - Fee
           cost     == Quotient(proceeds, order.quantity)
           sold     == record_sale(portfolio, order.instrument, order.quantity, cost)
           outcome  == execute(order, portfolio)
<1>1. order.instrument \in Instruments /\ order.quantity \in Nat \ {0} /\ symbol \in Symbols
  BY InstrumentsAssumption DEF Order
<1>2. total_value(order) \in Nat /\ Fee \in Nat
  BY TotalValuePositive, FeeAssumption
<1>3. order.quantity <= portfolio.positions[symbol].quantity
  BY DEF QuantityOf
<1>4. QuantityOf(portfolio, symbol) \in Nat
  BY <1>1, HeldPosition DEF QuantityOf, Position
<1>5. outcome = execute_sell(order, portfolio)
  BY DEF execute
<1>6. CASE total_value(order) <= Fee
  <2>1. proceeds <= 0
    BY <1>2, <1>6
  <2>2. outcome.raised = TRUE
    BY <1>5, <2>1 DEF execute_sell, Raise
  <2> QED
    BY <1>2, <1>6, <2>2
<1>7. CASE total_value(order) > Fee
  <2>1. proceeds \in Amount /\ ~(proceeds <= 0)
    BY <1>2, <1>7 DEF Amount
  <2>2. ~(order.quantity > QuantityOf(portfolio, symbol))
    BY <1>1, <1>4
  <2>3. cost \in Amount
    <3> HIDE DEF proceeds
    <3> QED
      BY <1>1, <2>1, QuotientType DEF Amount
  <2>4. sold.raised = FALSE /\ sold.portfolio \in PortfolioType
    <3> HIDE DEF cost
    <3> QED
      BY <1>1, <1>3, <2>3, RecordSaleType
  <2>5. outcome = deposit(sold.portfolio, proceeds)
    BY <1>5, <2>1, <2>2, <2>4 DEF execute_sell
  <2> DEFINE account == sold.portfolio
  <2>6. account \in PortfolioType
    BY <2>4
  <2>7. order.quantity = QuantityOf(portfolio, symbol) => account.positions[symbol] = NoPosition
    <3> DEFINE position == portfolio.positions[symbol]
               profit   == cost * order.quantity - position.average_price * order.quantity
               after    == [portfolio EXCEPT
                              !.realized_profit = @ + profit,
                              !.positions[symbol] = remove_sale(position, order.quantity)]
    <3>1. sold = Return(after)
      BY <2>4 DEF record_sale, Raise
    <3>2. account = after
      BY <3>1 DEF Return
    <3>3. after.positions[symbol] = remove_sale(position, order.quantity)
      BY <1>1 DEF PortfolioType
    <3> QED
      BY <3>2, <3>3 DEF remove_sale, QuantityOf
  <2> HIDE DEF proceeds, account, outcome
  <2>8. deposit(account, proceeds) = Return([account EXCEPT !.cash_balance = @ + proceeds])
    BY <2>1 DEF deposit, Amount
  <2>9. [account EXCEPT !.cash_balance = @ + proceeds].cash_balance > 0
    BY <2>1, <2>6 DEF PortfolioType, Amount
  <2>10. outcome = Return([account EXCEPT !.cash_balance = @ + proceeds])
    BY <2>5, <2>8 DEF account
  <2>11. outcome.raised = FALSE /\ outcome.portfolio.cash_balance > 0
    BY <2>9, <2>10 DEF Return
  <2>12. outcome.portfolio.positions = account.positions
    BY <2>6, <2>10 DEF Return, PortfolioType
  <2>13. order.quantity = QuantityOf(portfolio, symbol) => ~Held(outcome.portfolio, symbol)
    BY <2>7, <2>12 DEF Held
  <2> QED
    BY <1>2, <1>7, <2>11, <2>13 DEF outcome
<1> QED
  BY <1>2, <1>6, <1>7

\* The record made of an execution has the type of the log.
LEMMA TransactionOfType ==
  ASSUME NEW order \in Orders, NEW before \in PortfolioType, NEW after \in PortfolioType
  PROVE  TransactionOf(order, before, after) \in Transaction
<1>1. order \in Order
  BY OrdersAssumption
<1>2. total_value(order) \in Nat
  BY <1>1, TotalValuePositive
<1>3. after.realized_profit - before.realized_profit \in Int
  BY DEF PortfolioType
<1> QED
  BY <1>2, <1>3, FeeAssumption DEF TransactionOf, Transaction

-----------------------------------------------------------------------------
(* The account that a successful execution leaves. *)

\* The account after a purchase that has succeeded.
AccountBought(portfolio, order) ==
  LET symbol == order.instrument.symbol
      debit  == total_value(order) + Fee
      cost   == Quotient(debit, order.quantity)
      opened == [instrument |-> order.instrument, quantity |-> order.quantity,
                 average_price |-> cost]
      grown  == add_purchase(portfolio.positions[symbol], order.quantity, cost)
      entry  == IF Held(portfolio, symbol) THEN grown ELSE opened
  IN  [portfolio EXCEPT !.cash_balance = @ - debit, !.positions[symbol] = entry]

LEMMA PurchaseLeaves ==
  ASSUME NEW order \in Order, NEW portfolio \in PortfolioType,
         order.side = "buy", ~execute(order, portfolio).raised
  PROVE  /\ execute(order, portfolio).portfolio = AccountBought(portfolio, order)
         /\ ~HeldByAnother(portfolio, order.instrument)
<1> DEFINE symbol == order.instrument.symbol
           debit  == total_value(order) + Fee
           cost   == Quotient(debit, order.quantity)
           paid   == withdraw(portfolio, debit)
           opened == [instrument |-> order.instrument, quantity |-> order.quantity,
                      average_price |-> cost]
           entry  == IF Held(portfolio, symbol)
                     THEN add_purchase(portfolio.positions[symbol], order.quantity, cost)
                     ELSE opened
<1>1. debit \in Amount
  BY TotalValuePositive, FeeAssumption DEF Amount
<1>2. order.quantity > 0 /\ cost > 0 /\ symbol \in Symbols
  <2>1. cost \in Amount
    BY <1>1, QuotientType DEF Amount, Order
  <2> QED
    BY <2>1, InstrumentsAssumption DEF Order, Amount
<1>3. ~HeldByAnother(portfolio, order.instrument)
  BY DEF execute, Raise
<1>4. execute(order, portfolio) = execute_buy(order, portfolio)
  BY DEF execute, Raise
<1>5. ~(debit > portfolio.cash_balance \/ paid.raised)
  BY <1>4 DEF execute_buy, Raise
<1>6. execute(order, portfolio)
        = record_purchase(paid.portfolio, order.instrument, order.quantity, cost)
  BY <1>4, <1>5 DEF execute_buy
<1> DEFINE balance == [portfolio EXCEPT !.cash_balance = @ - debit]
<1>7. paid.portfolio = balance
  BY <1>5 DEF withdraw, Return, Raise
<1>8. balance.positions = portfolio.positions
  BY DEF PortfolioType
<1>9. /\ Held(balance, symbol) <=> Held(portfolio, symbol)
      /\ ~HeldByAnother(balance, order.instrument)
  BY <1>3, <1>8 DEF Held, HeldByAnother
<1>10. record_purchase(balance, order.instrument, order.quantity, cost)
         = Return([balance EXCEPT !.positions[symbol] = entry])
  <2> HIDE DEF balance, cost
  <2> QED
    BY <1>2, <1>8, <1>9 DEF record_purchase, ValidTrade
<1>11. execute(order, portfolio).portfolio = [balance EXCEPT !.positions[symbol] = entry]
  <2> HIDE DEF balance, entry
  <2> QED
    BY <1>6, <1>7, <1>10 DEF Return
<1>12. [balance EXCEPT !.positions[symbol] = entry]
         = [portfolio EXCEPT !.cash_balance = @ - debit, !.positions[symbol] = entry]
  <2> HIDE DEF entry, debit
  <2> QED
    BY DEF PortfolioType
<1> QED
  BY <1>3, <1>11, <1>12 DEF AccountBought

\* The account after a sale that has succeeded.
AccountSold(portfolio, order) ==
  LET symbol   == order.instrument.symbol
      position == portfolio.positions[symbol]
      proceeds == total_value(order) - Fee
      price    == Quotient(proceeds, order.quantity)
  IN  [portfolio EXCEPT
         !.cash_balance = @ + proceeds,
         !.realized_profit = @ + (price * order.quantity - position.average_price * order.quantity),
         !.positions[symbol] = remove_sale(position, order.quantity)]

LEMMA SaleLeaves ==
  ASSUME NEW order \in Order, NEW portfolio \in PortfolioType,
         order.side = "sell", ~execute(order, portfolio).raised
  PROVE  /\ execute(order, portfolio).portfolio = AccountSold(portfolio, order)
         /\ total_value(order) - Fee \in Amount
         /\ Held(portfolio, order.instrument.symbol)
         /\ order.quantity <= portfolio.positions[order.instrument.symbol].quantity
<1> DEFINE symbol   == order.instrument.symbol
           position == portfolio.positions[symbol]
           proceeds == total_value(order) - Fee
           price    == Quotient(proceeds, order.quantity)
           sold     == record_sale(portfolio, order.instrument, order.quantity, price)
           profit   == price * order.quantity - position.average_price * order.quantity
           left     == remove_sale(position, order.quantity)
           after    == [portfolio EXCEPT !.realized_profit = @ + profit,
                                         !.positions[symbol] = left]
<1>1. ~HeldByAnother(portfolio, order.instrument)
  BY DEF execute, Raise
<1>2. execute(order, portfolio) = execute_sell(order, portfolio)
  BY DEF execute, Raise
<1>3. /\ Held(portfolio, symbol)
      /\ ~(order.quantity > QuantityOf(portfolio, symbol))
      /\ ~(proceeds <= 0)
  BY <1>2 DEF execute_sell, Raise
<1>4. symbol \in Symbols /\ order.instrument \in Instruments /\ order.quantity \in Nat \ {0}
  BY InstrumentsAssumption DEF Order
<1>5. position \in Position
  BY <1>3, <1>4, HeldPosition
<1>6. order.quantity <= position.quantity
  BY <1>3, <1>4, <1>5 DEF QuantityOf, Position
<1>7. proceeds \in Amount
  BY <1>3, TotalValuePositive, FeeAssumption DEF Amount
<1>8. price \in Amount
  <2> HIDE DEF proceeds
  <2> QED
    BY <1>4, <1>7, QuotientType DEF Amount
<1>9. sold.raised = FALSE
  <2> HIDE DEF price
  <2> QED
    BY <1>1, <1>3, <1>4, <1>6, <1>8, RecordSaleType
<1>10. sold = Return(after)
  <2> HIDE DEF price
  <2> QED
    BY <1>9 DEF record_sale, Raise
<1>11. execute(order, portfolio) = deposit(sold.portfolio, proceeds)
  <2> HIDE DEF sold, proceeds
  <2> QED
    BY <1>2, <1>3, <1>9 DEF execute_sell, proceeds, sold, price
<1>12. execute(order, portfolio).portfolio = [after EXCEPT !.cash_balance = @ + proceeds]
  <2> HIDE DEF proceeds, after
  <2> QED
    BY <1>7, <1>10, <1>11 DEF deposit, Return, Amount
<1>13. [after EXCEPT !.cash_balance = @ + proceeds]
         = [portfolio EXCEPT !.cash_balance = @ + proceeds,
                             !.realized_profit = @ + profit, !.positions[symbol] = left]
  <2> HIDE DEF profit, left, proceeds
  <2> QED
    BY DEF PortfolioType
<1> QED
  BY <1>3, <1>6, <1>7, <1>12, <1>13 DEF AccountSold
=============================================================================
