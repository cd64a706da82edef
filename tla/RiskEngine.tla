------------------------------ MODULE RiskEngine ------------------------------
(***************************************************************************)
(* The pre-trade control of risk/: the policy, the context an order is     *)
(* judged in, the six rules and RiskEngine.assess, which asks every rule.  *)
(*                                                                         *)
(* A RiskContext refers to the portfolio object itself, so the rules read  *)
(* its cash and quantities at the moment of the assessment, while the      *)
(* equity, the prices and the fee in it are those of the moment it was     *)
(* built.  Here a context is the frozen part, and the live portfolio is an *)
(* argument of its own.                                                    *)
(*                                                                         *)
(* Rates are whole percentages, compared after cross-multiplication.       *)
(***************************************************************************)
EXTENDS SimulatedBroker, Sequences, FiniteSetsExt

CONSTANTS
  MaxOrderValue, MaxPositionValue,             \* RiskPolicy, amounts
  MaxConcentration, MinCashReserve, MaxDailyLoss   \* RiskPolicy, percentages

ASSUME PolicyAssumption ==
  /\ MaxOrderValue \in Amount
  /\ MaxPositionValue \in Amount
  /\ MaxConcentration \in 1..100
  /\ MinCashReserve \in 0..100
  /\ MaxDailyLoss \in 1..100

\* The frozen part of a RiskContext.  A symbol without a quote has price 0.
RiskContext ==
  [current_equity : Amount,
   day_start_equity : Amount,
   market_prices : [Symbols -> Nat],
   fee : Nat]

\* RiskAssessment: the audit record of one assessment.
RiskAssessment == [order_id : OrderIds, approved : BOOLEAN]

HeldSymbols(portfolio) == {s \in Symbols : Held(portfolio, s)}

\* Cash plus the market value of every position.
Equity(portfolio, prices) ==
  portfolio.cash_balance
    + MapThenSumSet(LAMBDA s : QuantityOf(portfolio, s) * prices[s], HeldSymbols(portfolio))

\* RiskContext.__post_init__ accepts these values for this portfolio.
ValidContext(context, portfolio) ==
  /\ context \in RiskContext
  /\ \A s \in HeldSymbols(portfolio) : context.market_prices[s] > 0
  /\ context.current_equity = Equity(portfolio, context.market_prices)

\* The context a caller builds: it has to state the equity the check computes.
ContextFor(portfolio, day_start_equity, prices, fee) ==
  [current_equity |-> Equity(portfolio, prices),
   day_start_equity |-> day_start_equity,
   market_prices |-> prices,
   fee |-> fee]

price_for(order, context) ==
  LET quote == context.market_prices[order.instrument.symbol]
  IN  IF quote > 0 THEN quote ELSE order.price

-----------------------------------------------------------------------------
(* The rules.  A sale passes every rule but the kill switch. *)

\* Mutant for the checks: the position already held is forgotten.
ProjectedPosition_OrderOnly(order, context, portfolio) == total_value(order)

\* Value of the position in the order's symbol once the order is carried out.
ProjectedPosition(order, context, portfolio) ==
  QuantityOf(portfolio, order.instrument.symbol) * price_for(order, context)
    + total_value(order)

KillSwitchRule(active) == ~active

MaxOrderValueRule(order) ==
  order.side = "sell" \/ total_value(order) <= MaxOrderValue

MaxPositionValueRule(order, context, portfolio) ==
  order.side = "sell" \/ ProjectedPosition(order, context, portfolio) <= MaxPositionValue

MaxConcentrationRule(order, context, portfolio) ==
  \/ order.side = "sell"
  \/ ProjectedPosition(order, context, portfolio) * 100
       <= MaxConcentration * context.current_equity

\* Mutant for the checks: the fee is left out.
CashReserveRule_WithoutFee(order, context, portfolio) ==
  \/ order.side = "sell"
  \/ (portfolio.cash_balance - total_value(order)) * 100
       >= MinCashReserve * context.current_equity

CashReserveRule(order, context, portfolio) ==
  \/ order.side = "sell"
  \/ (portfolio.cash_balance - total_value(order) - context.fee) * 100
       >= MinCashReserve * context.current_equity

\* current_equity / day_start_equity - 1 > -max_daily_loss
DailyLossRule(order, context) ==
  \/ order.side = "sell"
  \/ (context.current_equity - context.day_start_equity) * 100
       > -(MaxDailyLoss * context.day_start_equity)

\* The verdict of RiskEngine.assess: approved only when every rule approves.  extra is the
\* conjunction of the extra_rules, where a rule that raises counts as a refusal.
Approved(order, context, portfolio, kill_switch, extra) ==
  /\ KillSwitchRule(kill_switch)
  /\ MaxOrderValueRule(order)
  /\ MaxPositionValueRule(order, context, portfolio)
  /\ MaxConcentrationRule(order, context, portfolio)
  /\ CashReserveRule(order, context, portfolio)
  /\ DailyLossRule(order, context)
  /\ extra

\* Mutant for the checks: only refusals are logged.
Log_RefusalsOnly(audit_log, order, approved) ==
  IF approved THEN audit_log
  ELSE Append(audit_log, [order_id |-> order.order_id, approved |-> FALSE])

\* RiskEngine.assess logs every verdict, refusals included.
Log(audit_log, order, approved) ==
  Append(audit_log, [order_id |-> order.order_id, approved |-> approved])
=============================================================================
