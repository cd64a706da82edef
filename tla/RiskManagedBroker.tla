-------------------------- MODULE RiskManagedBroker --------------------------
(***************************************************************************)
(* The synchronous order path that the demos and the backtest use          *)
(* (risk/gateway.py, RiskManagedBroker): a caller builds a RiskContext     *)
(* from the account and the market, the risk engine judges the order in    *)
(* it, and only an approved order reaches SimulatedBroker.execute.         *)
(*                                                                         *)
(* The caller is the environment: it may present any order of Orders, any  *)
(* number of times, while prices move, a new day starts and the operator   *)
(* throws the kill switch.  The gateway refuses a context of another       *)
(* portfolio before anything else happens; there is one portfolio here.    *)
(***************************************************************************)
EXTENDS RiskEngine, SequencesExt

CONSTANTS
  InitialCash,
  PriceLevels,      \* the prices a symbol may have
  ContextFees,      \* the fees callers put in a context
  NoContext,
  MaxAssessments    \* bound: length of the audit log

ASSUME CallerAssumption ==
  /\ InitialCash \in Amount
  /\ PriceLevels \subseteq Amount
  /\ ContextFees \subseteq Nat
  /\ NoContext \notin RiskContext

VARIABLES
  portfolio,
  transactions,   \* SimulatedBroker._transactions
  audit_log,      \* RiskEngine._audit_log
  kill_switch,    \* KillSwitchRule.active
  context,        \* the context presented last
  prices,         \* the market
  day_start       \* equity at the start of the day, as callers report it

vars == <<portfolio, transactions, audit_log, kill_switch, context, prices, day_start>>

TypeOK ==
  /\ portfolio \in PortfolioType
  /\ transactions \in Seq(Transaction)
  /\ audit_log \in Seq(RiskAssessment)
  /\ kill_switch \in BOOLEAN
  /\ context \in RiskContext \cup {NoContext}
  /\ prices \in [Symbols -> PriceLevels]
  /\ day_start \in Amount

Init ==
  /\ portfolio = [cash_balance |-> InitialCash,
                  positions |-> [s \in Symbols |-> NoPosition],
                  realized_profit |-> 0]
  /\ transactions = <<>>
  /\ audit_log = <<>>
  /\ kill_switch = FALSE
  /\ context = NoContext
  /\ prices \in [Symbols -> PriceLevels]
  /\ day_start = InitialCash

-----------------------------------------------------------------------------

\* A caller builds a context of this moment, or presents its last one again.
FreshContexts ==
  {c \in {ContextFor(portfolio, day_start, prices, fee) : fee \in ContextFees} :
     ValidContext(c, portfolio)}

PresentableContexts == FreshContexts \cup ({context} \ {NoContext})

\* RiskManagedBroker.execute; extra says whether the extra rules approve.
Execute(order, ctx, extra) ==
  LET approved == Approved(order, ctx, portfolio, kill_switch, extra)
      outcome == execute(order, portfolio)
  IN  /\ Len(audit_log) < MaxAssessments
      /\ audit_log' = Log(audit_log, order, approved)
      /\ context' = ctx
      /\ IF approved
         THEN /\ portfolio' = outcome.portfolio
              /\ transactions' =
                   IF outcome.raised THEN transactions
                   ELSE Append(transactions, TransactionOf(order, portfolio, portfolio'))
         ELSE UNCHANGED <<portfolio, transactions>>
      /\ UNCHANGED <<kill_switch, prices, day_start>>

SetKillSwitch(active) ==
  /\ kill_switch # active
  /\ kill_switch' = active
  /\ UNCHANGED <<portfolio, transactions, audit_log, context, prices, day_start>>

MovePrice(symbol, price) ==
  /\ prices[symbol] # price
  /\ prices' = [prices EXCEPT ![symbol] = price]
  /\ UNCHANGED <<portfolio, transactions, audit_log, kill_switch, context, day_start>>

StartDay ==
  /\ day_start' = Equity(portfolio, prices)
  /\ day_start' \in Amount
  /\ UNCHANGED <<portfolio, transactions, audit_log, kill_switch, context, prices>>

Next ==
  \/ \E order \in Orders, ctx \in PresentableContexts, extra \in BOOLEAN :
       Execute(order, ctx, extra)
  \/ \E active \in BOOLEAN : SetKillSwitch(active)
  \/ \E symbol \in Symbols, price \in PriceLevels : MovePrice(symbol, price)
  \/ StartDay

Spec == Init /\ [][Next]_vars

-----------------------------------------------------------------------------
(* Properties. *)

Purchase == Len(transactions') > Len(transactions) /\ Last(transactions').order.side = "buy"

\* The entries of the two logs that are about one order id.
ExecutionsOf(id) == {i \in DOMAIN transactions : transactions[i].order.order_id = id}
ApprovalsOf(id)  == {i \in DOMAIN audit_log : audit_log[i].order_id = id /\ audit_log[i].approved}

\* Every execution has an approved assessment of its own: an order executed
\* twice was approved twice (gateway.py, the only road to the broker).
EveryExecutionApproved ==
  \A id \in OrderIds : Cardinality(ExecutionsOf(id)) <= Cardinality(ApprovalsOf(id))

Signed(order) == IF order.side = "buy" THEN order.quantity ELSE -order.quantity

\* What the transactions of a log add up to.
LoggedCash(log) == FoldLeft(LAMBDA sum, t : sum + t.cash_change, InitialCash, log)
LoggedProfit(log) == FoldLeft(LAMBDA sum, t : sum + t.realized_profit, 0, log)
LoggedShares(log, s) ==
  FoldLeft(LAMBDA sum, t : IF t.order.instrument.symbol = s THEN sum + Signed(t.order) ELSE sum,
           0, log)

\* The transaction log explains the account: cash, realized profit and every
\* quantity are what the logged executions add up to, so no failed execution
\* has left a trace and no execution is missing (SimulatedBroker.execute).
LogExplainsAccount ==
  /\ portfolio.cash_balance = LoggedCash(transactions)
  /\ portfolio.realized_profit = LoggedProfit(transactions)
  /\ \A s \in Symbols : QuantityOf(portfolio, s) = LoggedShares(transactions, s)

CostBasis(account, s) == QuantityOf(account, s) * account.positions[s].average_price
Invested(account) == MapThenSumSet(LAMBDA s : CostBasis(account, s), HeldSymbols(account))
BookValue(account) == account.cash_balance + Invested(account) - account.realized_profit

\* Buying moves cash into cost basis, selling moves cost basis and result back
\* into cash; what the account is worth by its books stays.  Only executions touch
\* the account, and of its book value they move no more than is rounded: half a unit
\* for each share bought and each share then held, a unit for each share sold, since
\* average prices and proceeds per share are (Position.add_purchase, _execute_sell).
BookValueConserved ==
  [][LET change == BookValue(portfolio') - BookValue(portfolio)
         order  == Last(transactions').order
         held   == QuantityOf(portfolio', order.instrument.symbol)
         shares == order.quantity + IF order.side = "buy" THEN held ELSE order.quantity
     IN  IF transactions' = transactions
         THEN portfolio' = portfolio
         ELSE 2 * change <= shares /\ -2 * change <= shares]_vars

\* A purchase judged in a context with at least the broker's fee, however old that
\* context is and whatever was bought, sold or repriced since it was built, leaves
\* the reserve that the policy demands of the equity stated in it: the equity is
\* frozen in the context, the cash is read when the order is judged (CashReserveRule).
CashReserveHeld ==
  [][Purchase /\ context'.fee >= Fee
       => portfolio'.cash_balance * 100 >= MinCashReserve * context'.current_equity]_vars

\* The same of the position: orders judged in one context, however often it is
\* presented again, never add up to a position above the maximum value or the share
\* of the equity, at the quote in that context or the order's own price, whichever is
\* lower (MaxPositionValueRule, MaxConcentrationRule read the quantity held live).
ExposureWithinPolicy ==
  [][LET order == Last(transactions').order
         s     == order.instrument.symbol
         price == price_for(order, context')
         value == QuantityOf(portfolio', s) * IF price < order.price THEN price ELSE order.price
     IN  Purchase => /\ value <= MaxPositionValue
                     /\ value * 100 <= MaxConcentration * context'.current_equity]_vars
=============================================================================
