------------------------------ MODULE Backtest ------------------------------
(***************************************************************************)
(* BacktestEngine.run: bar after bar the signal given at the last close is *)
(* carried out at the opening, the account is valued at the close and the  *)
(* strategy is asked again.  Purchases are sized to fit the risk policy    *)
(* before the risk gateway judges them; a refusal or an order that cannot  *)
(* be executed raises and ends the whole run.                              *)
(*                                                                         *)
(* The strategy is any, which returns one of the signals at every close,   *)
(* or the moving averages of the repository.  An order is identified by    *)
(* its bar, since at most one is made per bar.  What the report says of    *)
(* the curve, its maximum drawdown, and the buy-and-hold curve it is       *)
(* compared with are functions of the state, given after the actions.      *)
(***************************************************************************)
EXTENDS RiskEngine, MovingAverageStrategy, SequencesExt

CONSTANTS
  InitialCash,    \* BacktestConfig.initial_cash
  SlippageRate,   \* BacktestConfig.slippage_rate, a percentage
  Prices,         \* bound: opening and closing prices
  BenchmarkFees,  \* bound: fees the benchmark is computed with
  MaxBars         \* bound: bars of the dataset

ASSUME ConfigAssumption == InitialCash \in Amount /\ SlippageRate \in 0..99
ASSUME BenchmarkAssumption == BenchmarkFees \subseteq Nat
ASSUME DatasetAssumption == Prices \subseteq Amount /\ MaxBars \in Nat /\ 1..MaxBars \subseteq OrderIds
ASSUME OneInstrument == \E i \in Instruments :
  Instruments = {i} /\ Symbols = {i.symbol} /\ i.currency = AccountCurrency

Strategies == {"any", "moving_average"}

VARIABLES
  strategy,
  bars,            \* the bars gone by, history for the strategy
  portfolio,
  pending_signal,  \* given at the last close
  executions,      \* transactions with the bar they belong to
  equity_curve,    \* total equity at every close
  audit_log,       \* RiskEngine._audit_log
  raised           \* what ended the run early, "none" while it goes on

vars == <<strategy, bars, portfolio, pending_signal, executions, equity_curve, audit_log, raised>>

Bar == [open : Prices, close : Prices]

TypeOK ==
  /\ strategy \in Strategies
  /\ bars \in Seq(Bar)
  /\ portfolio \in PortfolioType
  /\ pending_signal \in Signals
  /\ \A i \in DOMAIN executions :
       executions[i].bar \in DOMAIN bars /\ executions[i].quantity > 0
  /\ equity_curve \in Seq(Int)
  /\ audit_log \in Seq(RiskAssessment)
  /\ raised \in {"none", "risk_rejected", "order_error"}

Init ==
  /\ strategy \in Strategies
  /\ bars = <<>>
  /\ portfolio = [cash_balance |-> InitialCash,
                  positions |-> [s \in Symbols |-> NoPosition],
                  realized_profit |-> 0]
  /\ pending_signal = "hold"
  /\ executions = <<>>
  /\ equity_curve = <<>>
  /\ audit_log = <<>>
  /\ raised = "none"

-----------------------------------------------------------------------------

TheInstrument == CHOOSE i \in Instruments : TRUE
Quantity == QuantityOf(portfolio, TheInstrument.symbol)
QuoteAt(price) == [s \in Symbols |-> price]

\* Purchases cost more than the opening price and sales bring in less.
fill_price(side, open) ==
  Quotient(open * (IF side = "buy" THEN 100 + SlippageRate ELSE 100 - SlippageRate), 100)

\* Mutant for the checks: the fee is forgotten.
allowed_value_NoFee(open) ==
  LET held == Quantity * open
      equity == portfolio.cash_balance + held
  IN  Min({100 * MaxOrderValue,
           100 * (MaxPositionValue - held),
           equity * MaxConcentration - 100 * held,
           100 * portfolio.cash_balance - equity * MinCashReserve})

\* A hundred times what the policy leaves for another purchase.
allowed_value(open) ==
  LET held == Quantity * open
      equity == portfolio.cash_balance + held
  IN  Min({100 * MaxOrderValue,
           100 * (MaxPositionValue - held),
           equity * MaxConcentration - 100 * held,
           100 * (portfolio.cash_balance - Fee) - equity * MinCashReserve})

\* Mutant for the checks: the quantity is rounded up.
buy_quantity_RoundedUp(open) ==
  IF allowed_value(open) <= 0 THEN 0
  ELSE (allowed_value(open) \div (100 * fill_price("buy", open))) + 1

\* The largest whole number of shares, of the exact quotient: the code truncates a
\* quotient that Decimal has already rounded to 28 digits, which can only matter when
\* it lies closer than that below a whole number.
buy_quantity(open) ==
  IF allowed_value(open) <= 0 THEN 0
  ELSE allowed_value(open) \div (100 * fill_price("buy", open))

\* What the signal asks for at this opening; 0 shares is no order.
SignalQuantity(open) ==
  CASE pending_signal = "buy"  -> buy_quantity(open)
    [] pending_signal = "sell" -> Quantity
    [] OTHER -> 0

OrderAt(bar, side, quantity, open) ==
  [order_id |-> bar, instrument |-> TheInstrument, side |-> side, quantity |-> quantity,
   price |-> fill_price(side, open)]

\* The day starts, for the daily loss rule, with the equity at the opening.
ContextAt(open) ==
  ContextFor(portfolio, Equity(portfolio, QuoteAt(open)), QuoteAt(open), Fee)

\* Mutant for the checks: what is held is subtracted.
EquityPoint_LostSign(account, close) ==
  2 * account.cash_balance - Equity(account, QuoteAt(close))

\* portfolio.value: cash and what is held, at the closing price.
EquityPoint(account, close) == Equity(account, QuoteAt(close))

\* Mutant for the checks: the position of before the opening is reported.
NextSignals_StalePosition(history, account) ==
  IF strategy = "any" THEN Signals
  ELSE {decide(history, Held(portfolio, TheInstrument.symbol))}

\* What the strategy may answer to the bars up to this close.
NextSignals(history, account) ==
  IF strategy = "any" THEN Signals
  ELSE {decide(history, Held(account, TheInstrument.symbol))}

\* The close: a point of the equity curve and the next signal.
Close(account, open, close) ==
  /\ equity_curve' = Append(equity_curve, EquityPoint(account, close))
  /\ pending_signal' \in NextSignals(Append(bars, [open |-> open, close |-> close]), account)

\* A bar on which no order is made.
QuietBar(open, close) ==
  /\ SignalQuantity(open) = 0
  /\ Close(portfolio, open, close)
  /\ UNCHANGED <<portfolio, executions, audit_log, raised>>

\* A bar that opens with an order, through RiskManagedBroker.execute.
OrderBar(open, close) ==
  LET quantity == SignalQuantity(open)
      order == OrderAt(Len(bars) + 1, pending_signal, quantity, open)
      approved == Approved(order, ContextAt(open), portfolio, FALSE, TRUE)
      outcome == execute(order, portfolio)
  IN  /\ quantity > 0
      /\ audit_log' = Log(audit_log, order, approved)
      /\ IF ~approved \/ outcome.raised
         THEN /\ raised' = IF approved THEN "order_error" ELSE "risk_rejected"
              /\ portfolio' = IF approved THEN outcome.portfolio ELSE portfolio
              /\ UNCHANGED <<executions, equity_curve, pending_signal>>
         ELSE /\ portfolio' = outcome.portfolio
              /\ executions' = Append(executions,
                                 [bar |-> order.order_id, side |-> order.side,
                                  quantity |-> quantity, price |-> order.price])
              /\ Close(outcome.portfolio, open, close)
              /\ UNCHANGED raised

NextBar ==
  /\ raised = "none"
  /\ Len(bars) < MaxBars
  /\ \E open, close \in Prices :
       /\ bars' = Append(bars, [open |-> open, close |-> close])
       /\ QuietBar(open, close) \/ OrderBar(open, close)
  /\ UNCHANGED strategy

Next == NextBar

Spec == Init /\ [][Next]_vars

-----------------------------------------------------------------------------
(* What is reported of a run. *)

\* Mutant for the checks: the peak starts at each point anew.
Fall_NoPeak(fall, equity) ==
  [peak |-> equity,
   worst |-> IF (equity - fall.peak) * fall.worst[2] < fall.worst[1] * fall.peak
             THEN <<equity - fall.peak, fall.peak>> ELSE fall.worst]

\* A turn of the loop of calculate_metrics: the highest point so far and the
\* smallest quotient so far of a point less the highest one by the highest one,
\* as a fraction.
Fall(fall, equity) ==
  LET peak == IF equity > fall.peak THEN equity ELSE fall.peak
  IN  [peak |-> peak,
       worst |-> IF (equity - peak) * fall.worst[2] < fall.worst[1] * peak
                 THEN <<equity - peak, peak>> ELSE fall.worst]

maximum_drawdown ==
  FoldLeft(Fall, [peak |-> Head(equity_curve), worst |-> <<0, 1>>], equity_curve).worst

BenchmarkPrice == fill_price("buy", bars[1].open)

\* Mutant for the checks: the fee is not set aside.
benchmark_quantity_NoFee(fee) == InitialCash \div BenchmarkPrice

\* As many shares as the cash less the fee buys, rounded towards zero.
benchmark_quantity(fee) ==
  IF fee <= InitialCash THEN (InitialCash - fee) \div BenchmarkPrice
  ELSE -((fee - InitialCash) \div BenchmarkPrice)

benchmark_cash(fee) ==
  LET quantity == benchmark_quantity(fee)
  IN  InitialCash - BenchmarkPrice * quantity - (IF quantity > 0 THEN fee ELSE 0)

_build_benchmark_curve(fee) ==
  [i \in DOMAIN bars |-> benchmark_cash(fee) + bars[i].close * benchmark_quantity(fee)]

-----------------------------------------------------------------------------
(* Properties. *)

\* A purchase has the largest quantity that the risk rules approve and the cash
\* pays for, and none is made only when not even one share is approved: the
\* sizing of _execute_signal (engine.py 163-176) and the rules (risk/rules.py)
\* are two statements of one policy.
SizingMatchesRules ==
  [][pending_signal = "buy" /\ bars' # bars =>
       LET open == bars'[Len(bars')].open
           approved(q) == Approved(OrderAt(Len(bars'), "buy", q, open), ContextAt(open),
                                   portfolio, FALSE, TRUE)
           bought == buy_quantity(open)
       IN  /\ bought > 0 => approved(bought)
           /\ ~approved(bought + 1)]_vars

\* A run is never ended by the risk engine, and by an order only if it is a sale
\* whose proceeds do not exceed the fee; the position is then still there.
OnlyAWorthlessSaleEndsRun ==
  /\ raised # "risk_rejected"
  /\ raised = "order_error" =>
       /\ pending_signal = "sell" /\ Quantity > 0
       /\ Quantity * fill_price("sell", bars[Len(bars)].open) <= Fee

\* The moving averages never trade on what they cannot know yet.  Purchases and
\* sales of the whole position alternate, though a signal may come to nothing, and
\* each is justified by the average closes strictly before the bar at whose opening
\* it is carried out.  ("no signal before the opening of the next trading day",
\* engine.py 76; the strategy is given the bars and the position of line 129-131)
MovingAverageTradesJustified ==
  strategy = "moving_average" =>
    /\ Held(portfolio, TheInstrument.symbol) <=> Len(executions) % 2 = 1
    /\ \A k \in DOMAIN executions :
         LET bar == executions[k].bar
             total(window) == MapThenSumSet(LAMBDA i : bars[i].close, (bar - window)..(bar - 1))
             difference == total(ShortWindow) * LongWindow - total(LongWindow) * ShortWindow
         IN  /\ bar > LongWindow
             /\ IF k % 2 = 1 THEN executions[k].side = "buy" /\ difference > 0
                             ELSE executions[k].side = "sell" /\ difference < 0

\* The drawdown that is reported is the worst fall from any point of the curve to
\* any later one, and is a loss of less than everything.  (engine.py 234-242)
DrawdownIsWorstFall ==
  equity_curve # <<>> =>
    LET fallsFrom(i) == {<<equity_curve[j] - equity_curve[i], equity_curve[i]>> :
                           j \in i..Len(equity_curve)}
        falls == UNION {fallsFrom(i) : i \in DOMAIN equity_curve}
        loss == maximum_drawdown
    IN  /\ loss \in falls \/ loss[1] = 0
        /\ \A fall \in falls : loss[1] * fall[2] <= fall[1] * loss[2]
        /\ -loss[2] < loss[1] /\ loss[1] <= 0

\* As long as the fee does not exceed the cash, the benchmark buys as many shares
\* as cash and fee allow, not one more, and its curve can be divided by.  It sells
\* short, which nothing checks, exactly when the fee exceeds the cash by the price
\* of a share.  (_build_benchmark_curve, engine.py 266-275)
BenchmarkWithinMeans ==
  bars # <<>> => \A fee \in BenchmarkFees :
    LET quantity == benchmark_quantity(fee)
        cost(shares) == shares * BenchmarkPrice + fee
        curve == _build_benchmark_curve(fee)
    IN  /\ fee <= InitialCash =>
             /\ quantity >= 0 /\ benchmark_cash(fee) >= 0
             /\ cost(quantity) <= InitialCash \/ quantity = 0
             /\ cost(quantity + 1) > InitialCash
             /\ \A i \in DOMAIN curve : curve[i] > 0
        /\ quantity < 0 <=> fee >= InitialCash + BenchmarkPrice

\* Every point of the equity curve is positive, so that the metrics, which
\* divide by the point before and by the peak, are defined (engine.py 239-244).
EquityPositive == \A i \in DOMAIN equity_curve : equity_curve[i] > 0
=============================================================================
