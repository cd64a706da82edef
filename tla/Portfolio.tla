------------------------------ MODULE Portfolio ------------------------------
(***************************************************************************)
(* The account of domain/portfolio.py: cash, one position per symbol and   *)
(* realized profit, with the operations that move them.  A Python method   *)
(* either changes the object or raises, possibly after it has changed part *)
(* of it.  Each operation here takes a portfolio and returns the portfolio *)
(* the method leaves behind together with whether it raised, so that an    *)
(* operation that calls others can be followed stage by stage.             *)
(*                                                                         *)
(* Money is a whole number of the smallest unit the Decimal context keeps. *)
(* Sums and products of amounts are exact; a quotient is rounded half to   *)
(* even, as Decimal does.                                                  *)
(***************************************************************************)
EXTENDS Integers

CONSTANTS
  Symbols,          \* normalized ticker symbols, the keys of Portfolio.positions
  Instruments,      \* Instrument identities: records with a symbol and a currency
  AccountCurrency,  \* Portfolio.currency
  NoPosition        \* the symbol is no key of Portfolio.positions

Amount == Nat \ {0}

Position == [instrument : Instruments, quantity : Nat \ {0}, average_price : Amount]

ASSUME InstrumentsAssumption == \A i \in Instruments : i.symbol \in Symbols
ASSUME NoPositionAssumption == NoPosition \notin Position

PortfolioType ==
  [cash_balance : Nat,
   positions : [Symbols -> Position \cup {NoPosition}],
   realized_profit : Int]

\* Decimal division of a positive amount: half to even.  28 significant digits
\* never turn a positive price into zero, so neither does the smaller unit here.
Quotient(amount, n) ==
  LET q == amount \div n
      r == amount % n
      nearest == IF 2 * r < n \/ (2 * r = n /\ q % 2 = 0) THEN q ELSE q + 1
  IN  IF nearest = 0 THEN 1 ELSE nearest

-----------------------------------------------------------------------------
(* The outcome of a method. *)

Return(portfolio) == [raised |-> FALSE, portfolio |-> portfolio]
Raise(portfolio)  == [raised |-> TRUE,  portfolio |-> portfolio]

-----------------------------------------------------------------------------
(* Queries. *)

Held(portfolio, symbol) == portfolio.positions[symbol] # NoPosition

QuantityOf(portfolio, symbol) ==
  IF Held(portfolio, symbol) THEN portfolio.positions[symbol].quantity ELSE 0

\* A position of another instrument already stands under this symbol.
HeldByAnother(portfolio, instrument) ==
  /\ Held(portfolio, instrument.symbol)
  /\ portfolio.positions[instrument.symbol].instrument # instrument

-----------------------------------------------------------------------------
(* Cash. *)

deposit(portfolio, amount) ==
  IF amount > 0
  THEN Return([portfolio EXCEPT !.cash_balance = @ + amount])
  ELSE Raise(portfolio)

withdraw(portfolio, amount) ==
  IF amount > 0 /\ amount <= portfolio.cash_balance
  THEN Return([portfolio EXCEPT !.cash_balance = @ - amount])
  ELSE Raise(portfolio)

-----------------------------------------------------------------------------
(* Positions. *)

ValidTrade(quantity, price) == quantity > 0 /\ price > 0

add_purchase(position, quantity, price) ==
  LET new_quantity == position.quantity + quantity
  IN  [position EXCEPT
         !.average_price = Quotient(@ * position.quantity + price * quantity, new_quantity),
         !.quantity = new_quantity]

record_purchase(portfolio, instrument, quantity, price) ==
  LET symbol == instrument.symbol
      opened == [instrument |-> instrument, quantity |-> quantity, average_price |-> price]
      grown  == add_purchase(portfolio.positions[symbol], quantity, price)
  IN  IF ~ValidTrade(quantity, price) \/ HeldByAnother(portfolio, instrument)
      THEN Raise(portfolio)
      ELSE Return([portfolio EXCEPT
             !.positions[symbol] = IF Held(portfolio, symbol) THEN grown ELSE opened])

\* Mutant for the checks: a sold-out position stays behind.
remove_sale_KeepEmpty(position, quantity) == [position EXCEPT !.quantity = @ - quantity]

\* The position disappears with its last unit.
remove_sale(position, quantity) ==
  IF quantity = position.quantity
  THEN NoPosition
  ELSE [position EXCEPT !.quantity = @ - quantity]

record_sale(portfolio, instrument, quantity, sale_price) ==
  LET symbol     == instrument.symbol
      position   == portfolio.positions[symbol]
      cost_basis == position.average_price * quantity
  IN  IF \/ ~ValidTrade(quantity, sale_price)
         \/ ~Held(portfolio, symbol)
         \/ HeldByAnother(portfolio, instrument)
         \/ quantity > position.quantity
      THEN Raise(portfolio)
      ELSE Return([portfolio EXCEPT
             !.realized_profit = @ + (sale_price * quantity - cost_basis),
             !.positions[symbol] = remove_sale(position, quantity)])
=============================================================================
