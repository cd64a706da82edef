----------------------- MODULE RiskManagedBroker_proofs -----------------------
(***************************************************************************)
(* Proofs about the synchronous gateway, for every portfolio, policy and   *)
(* set of orders and prices: the state keeps its types, every execution    *)
(* has an approval of its own, a purchase judged in a context of its       *)
(* moment keeps what the policy promises of the account after it, the log  *)
(* adds up to the account and the books balance.                           *)
(*                                                                         *)
(* The rules compare numbers of the context with numbers of the order      *)
(* before the purchase; the properties speak of the account after it.  The *)
(* bridge are the effects in SimulatedBroker_proofs: what execute_buy and  *)
(* execute_sell did to the account when they did not raise.                *)
(***************************************************************************)
EXTENDS RiskManagedBroker, SimulatedBroker_proofs, FiniteSetTheorems

\* The engine's verdict is one or the other, and its record fits the log.
LEMMA LogType ==
  ASSUME NEW log \in Seq(RiskAssessment), NEW order \in Order, NEW approved \in BOOLEAN
  PROVE  Log(log, order, approved) \in Seq(RiskAssessment)
<1>1. [order_id |-> order.order_id, approved |-> approved] \in RiskAssessment
  BY DEF RiskAssessment, Order
<1> QED
  BY <1>1 DEF Log

LEMMA VerdictType ==
  ASSUME NEW order, NEW ctx, NEW account, NEW active, NEW extra
  PROVE  Approved(order, ctx, account, active, extra) \in BOOLEAN
  BY Zenon DEF Approved

\* A caller presents a context RiskContext has accepted, now or earlier.
LEMMA PresentableType ==
  ASSUME TypeOK
  PROVE  PresentableContexts \subseteq RiskContext
  BY DEF PresentableContexts, FreshContexts, ValidContext, TypeOK

-----------------------------------------------------------------------------
(* Type correctness. *)

LEMMA InitType == Init => TypeOK
<1> SUFFICES ASSUME Init PROVE TypeOK
  OBVIOUS
<1>1. portfolio \in PortfolioType
  BY CallerAssumption DEF Init, PortfolioType, Amount
<1>2. transactions \in Seq(Transaction) /\ audit_log \in Seq(RiskAssessment)
  BY DEF Init
<1>3. kill_switch \in BOOLEAN /\ context \in RiskContext \cup {NoContext}
  BY DEF Init
<1>4. prices \in [Symbols -> PriceLevels] /\ day_start \in Amount
  BY CallerAssumption DEF Init
<1> QED
  BY <1>1, <1>2, <1>3, <1>4 DEF TypeOK

LEMMA ExecuteType ==
  ASSUME TypeOK, NEW order \in Orders, NEW ctx \in PresentableContexts,
         NEW extra \in BOOLEAN, Execute(order, ctx, extra)
  PROVE  TypeOK'
<1> DEFINE approved == Approved(order, ctx, portfolio, kill_switch, extra)
           outcome  == execute(order, portfolio)
<1>1. order \in Order
  BY OrdersAssumption
<1>2. approved \in BOOLEAN
  BY VerdictType
<1>3. audit_log' \in Seq(RiskAssessment)
  <2>1. audit_log' = Log(audit_log, order, approved)
    BY DEF Execute
  <2> HIDE DEF approved
  <2> QED
    BY <1>1, <1>2, <2>1, LogType DEF TypeOK
<1>4. context' \in RiskContext
  BY PresentableType DEF Execute
<1>5. outcome.portfolio \in PortfolioType
  BY <1>1, ExecuteAtomic DEF TypeOK
<1>6. portfolio' \in PortfolioType
  BY <1>5 DEF Execute, TypeOK
<1>7. transactions' \in Seq(Transaction)
  <2>1. TransactionOf(order, portfolio, portfolio') \in Transaction
    BY <1>6, TransactionOfType DEF TypeOK
  <2> QED
    BY SMTT(30), <2>1 DEF Execute, TypeOK
<1> QED
  BY <1>3, <1>4, <1>6, <1>7 DEF Execute, TypeOK

LEMMA NextType == TypeOK /\ [Next]_vars => TypeOK'
<1> SUFFICES ASSUME TypeOK, [Next]_vars PROVE TypeOK'
  OBVIOUS
<1>1. ASSUME NEW order \in Orders, NEW ctx \in PresentableContexts, NEW extra \in BOOLEAN,
             Execute(order, ctx, extra)
      PROVE  TypeOK'
  BY <1>1, ExecuteType
<1>2. ASSUME NEW active \in BOOLEAN, SetKillSwitch(active)
      PROVE  TypeOK'
  BY <1>2 DEF SetKillSwitch, TypeOK
<1>3. ASSUME NEW symbol \in Symbols, NEW price \in PriceLevels, MovePrice(symbol, price)
      PROVE  TypeOK'
  BY <1>3 DEF MovePrice, TypeOK
<1>4. CASE StartDay
  BY <1>4 DEF StartDay, TypeOK
<1>5. CASE UNCHANGED vars
  BY <1>5 DEF vars, TypeOK
<1> QED
  BY <1>1, <1>2, <1>3, <1>4, <1>5 DEF Next

\* The account, both logs, the market and the context keep their types: cash never
\* goes below zero and no position is left empty or worthless, whatever is ordered.
THEOREM TypeCorrect == Spec => []TypeOK
  BY InitType, NextType, PTL DEF Spec

-----------------------------------------------------------------------------
(* Every execution was approved. *)

\* An entry appended to a log adds at most its own index to a set of indices.
LEMMA ExecutionsGrow ==
  ASSUME TypeOK, NEW id \in OrderIds, NEW entry \in Transaction,
         transactions' = Append(transactions, entry)
  PROVE  ExecutionsOf(id)'
           = IF entry.order.order_id = id
             THEN ExecutionsOf(id) \cup {Len(transactions) + 1}
             ELSE ExecutionsOf(id)
<1>1. /\ DOMAIN transactions = 1..Len(transactions)
      /\ Len(transactions) \in Nat
      /\ DOMAIN transactions' = 1..(Len(transactions) + 1)
      /\ \A i \in 1..Len(transactions) : transactions'[i] = transactions[i]
      /\ transactions'[Len(transactions) + 1] = entry
  BY DEF TypeOK
<1> QED
  BY <1>1 DEF ExecutionsOf

LEMMA ApprovalsGrow ==
  ASSUME TypeOK, NEW id \in OrderIds, NEW entry \in RiskAssessment,
         audit_log' = Append(audit_log, entry)
  PROVE  ApprovalsOf(id)'
           = IF entry.order_id = id /\ entry.approved
             THEN ApprovalsOf(id) \cup {Len(audit_log) + 1}
             ELSE ApprovalsOf(id)
<1>1. /\ DOMAIN audit_log = 1..Len(audit_log)
      /\ Len(audit_log) \in Nat
      /\ DOMAIN audit_log' = 1..(Len(audit_log) + 1)
      /\ \A i \in 1..Len(audit_log) : audit_log'[i] = audit_log[i]
      /\ audit_log'[Len(audit_log) + 1] = entry
  BY DEF TypeOK
<1> QED
  BY <1>1 DEF ApprovalsOf

LEMMA LogsFinite ==
  ASSUME TypeOK, NEW id \in OrderIds
  PROVE  /\ IsFiniteSet(ExecutionsOf(id)) /\ Cardinality(ExecutionsOf(id)) \in Nat
         /\ IsFiniteSet(ApprovalsOf(id)) /\ Cardinality(ApprovalsOf(id)) \in Nat
         /\ Len(transactions) + 1 \notin ExecutionsOf(id)
         /\ Len(audit_log) + 1 \notin ApprovalsOf(id)
<1>1. /\ DOMAIN transactions = 1..Len(transactions) /\ Len(transactions) \in Nat
      /\ DOMAIN audit_log = 1..Len(audit_log) /\ Len(audit_log) \in Nat
  BY DEF TypeOK
<1>2. /\ ExecutionsOf(id) \subseteq 1..Len(transactions)
      /\ ApprovalsOf(id) \subseteq 1..Len(audit_log)
  BY <1>1 DEF ExecutionsOf, ApprovalsOf
<1>3. IsFiniteSet(1..Len(transactions)) /\ IsFiniteSet(1..Len(audit_log))
  BY <1>1, FS_Interval
<1>4. IsFiniteSet(ExecutionsOf(id)) /\ IsFiniteSet(ApprovalsOf(id))
  BY <1>2, <1>3, FS_Subset
<1>5. Cardinality(ExecutionsOf(id)) \in Nat /\ Cardinality(ApprovalsOf(id)) \in Nat
  BY <1>4, FS_CardinalityType
<1> QED
  BY <1>1, <1>2, <1>4, <1>5

LEMMA ExecuteApproved ==
  ASSUME TypeOK, EveryExecutionApproved,
         NEW order \in Orders, NEW ctx \in PresentableContexts, NEW extra \in BOOLEAN,
         Execute(order, ctx, extra)
  PROVE  EveryExecutionApproved'
<1> SUFFICES ASSUME NEW id \in OrderIds
             PROVE  Cardinality(ExecutionsOf(id)') <= Cardinality(ApprovalsOf(id)')
  BY DEF EveryExecutionApproved
<1> DEFINE approved   == Approved(order, ctx, portfolio, kill_switch, extra)
           assessment == [order_id |-> order.order_id, approved |-> approved]
           record     == TransactionOf(order, portfolio, portfolio')
<1>1. order \in Order
  BY OrdersAssumption
<1>2. assessment \in RiskAssessment
  <2>1. approved \in BOOLEAN
    BY VerdictType
  <2> HIDE DEF approved
  <2> QED
    BY <1>1, <2>1 DEF RiskAssessment, Order
<1>3. ApprovalsOf(id)'
        = IF order.order_id = id /\ approved
          THEN ApprovalsOf(id) \cup {Len(audit_log) + 1}
          ELSE ApprovalsOf(id)
  <2>1. audit_log' = Append(audit_log, assessment)
    BY DEF Execute, Log
  <2>2. PICK entry \in RiskAssessment : entry = assessment
    BY <1>2
  <2>3. entry.order_id = order.order_id /\ entry.approved = approved
    BY <2>2
  <2> HIDE DEF assessment, approved
  <2>4. ApprovalsOf(id)'
          = IF entry.order_id = id /\ entry.approved
            THEN ApprovalsOf(id) \cup {Len(audit_log) + 1}
            ELSE ApprovalsOf(id)
    BY <2>1, <2>2, ApprovalsGrow
  <2> QED
    BY <2>3, <2>4
<1>4. Cardinality(ExecutionsOf(id)) <= Cardinality(ApprovalsOf(id))
  BY DEF EveryExecutionApproved
<1>5. /\ Cardinality(ApprovalsOf(id) \cup {Len(audit_log) + 1})
           = Cardinality(ApprovalsOf(id)) + 1
      /\ Cardinality(ExecutionsOf(id) \cup {Len(transactions) + 1})
           = Cardinality(ExecutionsOf(id)) + 1
  BY LogsFinite, FS_AddElement
<1>6. CASE transactions' = transactions
  <2>1. ExecutionsOf(id)' = ExecutionsOf(id)
    BY <1>6 DEF ExecutionsOf
  <2> HIDE DEF approved
  <2> QED
    BY <1>3, <1>4, <1>5, <2>1, LogsFinite
<1>7. CASE approved /\ transactions' = Append(transactions, record)
  <2>1. portfolio' \in PortfolioType
    BY <1>7, ExecuteType DEF TypeOK
  <2>2. PICK entry \in Transaction : entry = record
    BY <2>1, TransactionOfType DEF TypeOK
  <2>3. entry.order.order_id = order.order_id
    BY <2>2 DEF TransactionOf
  <2>4. ExecutionsOf(id)'
          = IF entry.order.order_id = id
            THEN ExecutionsOf(id) \cup {Len(transactions) + 1}
            ELSE ExecutionsOf(id)
    BY <1>7, <2>2, ExecutionsGrow
  <2> HIDE DEF approved
  <2> QED
    BY <1>3, <1>4, <1>5, <1>7, <2>3, <2>4, LogsFinite
<1>8. \/ transactions' = transactions
      \/ approved /\ transactions' = Append(transactions, record)
  BY DEF Execute
<1> QED
  BY <1>6, <1>7, <1>8

LEMMA NextApproved ==
  TypeOK /\ EveryExecutionApproved /\ [Next]_vars => EveryExecutionApproved'
<1> SUFFICES ASSUME TypeOK, EveryExecutionApproved, [Next]_vars
             PROVE  EveryExecutionApproved'
  OBVIOUS
<1>1. ASSUME NEW order \in Orders, NEW ctx \in PresentableContexts, NEW extra \in BOOLEAN,
             Execute(order, ctx, extra)
      PROVE  EveryExecutionApproved'
  BY <1>1, ExecuteApproved
<1>2. CASE UNCHANGED <<transactions, audit_log>>
  <2>1. \A id \in OrderIds : /\ ExecutionsOf(id)' = ExecutionsOf(id)
                             /\ ApprovalsOf(id)' = ApprovalsOf(id)
    BY <1>2 DEF ExecutionsOf, ApprovalsOf
  <2> QED
    BY <2>1 DEF EveryExecutionApproved
<1> QED
  BY <1>1, <1>2 DEF Next, vars, SetKillSwitch, MovePrice, StartDay

\* No order reaches the broker twice on one approval, or on none: the gateway asks
\* the engine anew each time, and the engine logs before the gateway acts on it.
THEOREM ApprovalInvariant == Spec => []EveryExecutionApproved
<1>1. Init => EveryExecutionApproved
  <2> SUFFICES ASSUME Init, NEW id \in OrderIds
               PROVE  Cardinality(ExecutionsOf(id)) <= Cardinality(ApprovalsOf(id))
    BY DEF EveryExecutionApproved
  <2>1. ExecutionsOf(id) = {} /\ ApprovalsOf(id) = {}
    BY DEF Init, ExecutionsOf, ApprovalsOf
  <2> QED
    BY <2>1, FS_EmptySet
<1> QED
  BY <1>1, NextApproved, TypeCorrect, PTL DEF Spec

-----------------------------------------------------------------------------
(* What a purchase keeps. *)

\* Whatever step logs a purchase, it is the execution of an approved buy order.
LEMMA PurchaseStep ==
  ASSUME TypeOK, [Next]_vars, Purchase
  PROVE  LET order == Last(transactions').order
         IN  /\ order \in Order
             /\ order.side = "buy"
             /\ context' \in RiskContext
             /\ \E extra \in BOOLEAN :
                  Approved(order, context', portfolio, kill_switch, extra)
             /\ ~execute(order, portfolio).raised
             /\ portfolio' = execute(order, portfolio).portfolio
<1>1. ~(transactions' = transactions)
  BY DEF Purchase, TypeOK
<1>2. PICK order \in Orders, ctx \in PresentableContexts, extra \in BOOLEAN :
        Execute(order, ctx, extra)
  BY <1>1 DEF Next, vars, SetKillSwitch, MovePrice, StartDay
<1> DEFINE record == TransactionOf(order, portfolio, portfolio')
<1>3. /\ Approved(order, ctx, portfolio, kill_switch, extra)
      /\ ~execute(order, portfolio).raised
      /\ portfolio' = execute(order, portfolio).portfolio
      /\ transactions' = Append(transactions, record)
      /\ context' = ctx
  BY <1>1, <1>2 DEF Execute
<1>4. Last(transactions') = record
  <2> HIDE DEF record
  <2> QED
    BY <1>3 DEF Last, TypeOK
<1>5. Last(transactions').order = order
  BY <1>4 DEF TransactionOf
<1>6. order \in Order /\ ctx \in RiskContext
  BY OrdersAssumption, PresentableType
<1> QED
  BY <1>3, <1>5, <1>6 DEF Purchase

\* The rule's inequality on the account before the purchase is the property's on
\* the account after it, once the fee in the context covers the broker's.
LEMMA ReserveStep ==
  ASSUME TypeOK, [Next]_vars, Purchase, context'.fee >= Fee
  PROVE  portfolio'.cash_balance * 100 >= MinCashReserve * context'.current_equity
<1> DEFINE order == Last(transactions').order
<1>2. /\ order \in Order /\ order.side = "buy" /\ context' \in RiskContext
      /\ \E extra \in BOOLEAN : Approved(order, context', portfolio, kill_switch, extra)
      /\ ~execute(order, portfolio).raised
      /\ portfolio' = execute(order, portfolio).portfolio
  BY PurchaseStep
<1>3. CashReserveRule(order, context', portfolio)
  BY <1>2 DEF Approved
<1>4. (portfolio.cash_balance - total_value(order) - context'.fee) * 100
        >= MinCashReserve * context'.current_equity
  BY <1>2, <1>3 DEF CashReserveRule
<1> HIDE DEF order
<1>5. portfolio'.cash_balance = portfolio.cash_balance - (total_value(order) + Fee)
  BY <1>2, PurchaseEffect DEF TypeOK
<1>6. /\ portfolio.cash_balance \in Nat /\ total_value(order) \in Nat /\ Fee \in Nat
      /\ context'.fee \in Nat /\ context'.current_equity \in Nat
  BY <1>2, TotalValuePositive, FeeAssumption DEF TypeOK, PortfolioType, RiskContext, Amount
<1>7. /\ portfolio'.cash_balance >= portfolio.cash_balance - total_value(order) - context'.fee
      /\ portfolio'.cash_balance \in Int
  BY <1>5, <1>6
<1>8. MinCashReserve * context'.current_equity \in Int
  BY <1>6, PolicyAssumption
<1> QED
  BY <1>4, <1>6, <1>7, <1>8

\* In a context that states the fee, no purchase spends the reserve.
THEOREM ReserveHeld == Spec => CashReserveHeld
<1>1. TypeOK /\ [Next]_vars
        => [Purchase /\ context'.fee >= Fee
              => portfolio'.cash_balance * 100 >= MinCashReserve * context'.current_equity]_vars
  BY ReserveStep
<1> QED
  BY <1>1, TypeCorrect, PTL DEF Spec, CashReserveHeld

\* At a price no higher than the quote and the order's, the rule's projection
\* bounds the value held after.
LEMMA ProjectionBounds ==
  ASSUME NEW held \in Nat, NEW bought \in Nat, NEW quote \in Nat, NEW price \in Nat,
         NEW lower \in Nat, lower <= quote, lower <= price
  PROVE  (held + bought) * lower <= held * quote + price * bought
<1>1. (held + bought) * lower = held * lower + lower * bought
  BY Z3
<1>2. price * bought = lower * bought + (price - lower) * bought
  BY Z3
<1>3. held * quote = held * lower + held * (quote - lower)
  BY Z3
<1>4. (price - lower) * bought >= 0 /\ held * (quote - lower) >= 0
  BY Z3
<1>5. /\ held * lower \in Int /\ lower * bought \in Int /\ held * quote \in Int
      /\ price * bought \in Int /\ (price - lower) * bought \in Int
      /\ held * (quote - lower) \in Int
  OBVIOUS
<1> QED
  BY <1>1, <1>2, <1>3, <1>4, <1>5

LEMMA ExposureStep ==
  ASSUME TypeOK, [Next]_vars, Purchase
  PROVE  LET order == Last(transactions').order
             s     == order.instrument.symbol
             price == price_for(order, context')
             value == QuantityOf(portfolio', s)
                        * IF price < order.price THEN price ELSE order.price
         IN  /\ value <= MaxPositionValue
             /\ value * 100 <= MaxConcentration * context'.current_equity
<1> DEFINE order == Last(transactions').order
           s == order.instrument.symbol
           held == QuantityOf(portfolio, s)
           price == price_for(order, context')
           lower == IF price < order.price THEN price ELSE order.price
           value == QuantityOf(portfolio', s) * lower
           projected == held * price + total_value(order)
<1>2. /\ order \in Order /\ order.side = "buy" /\ context' \in RiskContext
      /\ \E extra \in BOOLEAN : Approved(order, context', portfolio, kill_switch, extra)
      /\ ~execute(order, portfolio).raised
      /\ portfolio' = execute(order, portfolio).portfolio
  BY PurchaseStep
<1>3. /\ MaxPositionValueRule(order, context', portfolio)
      /\ MaxConcentrationRule(order, context', portfolio)
  BY <1>2 DEF Approved
<1>4. s \in Symbols
  <2>1. order.instrument \in Instruments
    BY <1>2 DEF Order
  <2> QED
    BY <2>1, InstrumentsAssumption
<1>5. ProjectedPosition(order, context', portfolio) = projected
  BY DEF ProjectedPosition
<1>6. /\ projected <= MaxPositionValue
      /\ projected * 100 <= MaxConcentration * context'.current_equity
  BY <1>2, <1>3, <1>5 DEF MaxPositionValueRule, MaxConcentrationRule
<1>7. held \in Nat
  <2>1. Held(portfolio, s) => portfolio.positions[s] \in Position
    BY <1>4, HeldPosition DEF TypeOK
  <2> QED
    BY <2>1 DEF QuantityOf, Position
<1>8. order.quantity \in Nat /\ order.price \in Nat /\ price \in Nat
  <2>1. order.quantity \in Nat /\ order.price \in Nat
    BY <1>2 DEF Order, Amount
  <2>2. context'.market_prices[s] \in Nat
    BY <1>2, <1>4 DEF RiskContext
  <2> HIDE DEF order
  <2> QED
    BY <2>1, <2>2 DEF price_for
<1>9. QuantityOf(portfolio', s) = held + order.quantity
  <2> HIDE DEF order
  <2> QED
    BY <1>2, PurchaseEffect DEF TypeOK
<1>10. value <= projected
  <2>1. value = (held + order.quantity) * lower
    BY <1>9
  <2>2. projected = held * price + order.price * order.quantity
    BY DEF total_value
  <2> HIDE DEF price, order
  <2>3. lower \in Nat /\ lower <= price /\ lower <= order.price
    BY <1>8
  <2> HIDE DEF value, projected, held, s, lower
  <2> QED
    BY <1>7, <1>8, <2>1, <2>2, <2>3, ProjectionBounds
<1>11. value \in Int /\ projected \in Int
  <2>1. total_value(order) \in Nat
    BY <1>2, TotalValuePositive
  <2> HIDE DEF order, held, price
  <2> QED
    BY <1>7, <1>8, <1>9, <2>1
<1>12. MaxPositionValue \in Int /\ MaxConcentration * context'.current_equity \in Int
  BY <1>2, PolicyAssumption DEF Amount, RiskContext
<1>13. value <= MaxPositionValue /\ value * 100 <= MaxConcentration * context'.current_equity
  <2> DEFINE allowed == MaxConcentration * context'.current_equity
  <2> HIDE DEF value, projected, allowed
  <2> QED
    BY <1>6, <1>10, <1>11, <1>12 DEF allowed
<1> QED
  BY <1>13

\* However often one context is presented, the purchases approved in it never build
\* up a position beyond the limits that were judged in it.
THEOREM ExposureHeld == Spec => ExposureWithinPolicy
<1> DEFINE Within ==
      LET order == Last(transactions').order
          s     == order.instrument.symbol
          price == price_for(order, context')
          value == QuantityOf(portfolio', s)
                     * IF price < order.price THEN price ELSE order.price
      IN  Purchase => /\ value <= MaxPositionValue
                      /\ value * 100 <= MaxConcentration * context'.current_equity
<1>1. TypeOK /\ [Next]_vars => [Within]_vars
  BY ExposureStep
<1> QED
  BY <1>1, TypeCorrect, PTL DEF Spec, ExposureWithinPolicy


-----------------------------------------------------------------------------
(***************************************************************************)
(* Sums over a log, one entry after the other.                             *)
(***************************************************************************)
\* What the counted entries of a log of n entries add up to, from a base: the sum that
\* FoldLeft takes.
Tally(base, counts, worth, n) ==
  LET body(h) == [s \in SUBSET (1..n) |->
                    IF s = {} THEN base
                    ELSE LET x == Max(s)
                         IN  IF counts[x] THEN h[s \ {x}] + worth[x] ELSE h[s \ {x}]]
  IN  (CHOOSE h : h = body(h))[1..n]

\* The same, entry by entry.
EntryByEntry(fold, base, counts, worth, n) ==
  /\ Tally(base, counts, worth, n) = fold[n]
  /\ fold[0] = base
  /\ \A k \in 1..n : fold[k] = IF counts[k] THEN fold[k - 1] + worth[k] ELSE fold[k - 1]

LEMMA TallyByEntry ==
  ASSUME NEW n \in Nat, NEW base, NEW counts, NEW worth
  PROVE  \E fold : EntryByEntry(fold, base, counts, worth, n)
<1> DEFINE Step(sum, x) == IF counts[x] THEN sum + worth[x] ELSE sum
           body(h, m) == [s \in SUBSET (1..m) |->
                            IF s = {} THEN base
                            ELSE LET x == Max(s) IN Step(h[s \ {x}], x)]
           iter == CHOOSE h : h = body(h, n)
<1>1. \A m \in Nat : \E h : h = body(h, m)
  <2> DEFINE T == {m \in Nat : \E h : h = body(h, m)}
  <2>1. 0 \in T
    <3> DEFINE h == [s \in SUBSET (1..0) |-> base]
    <3>1. \A s \in SUBSET (1..0) : s = {}
      OBVIOUS
    <3>2. h = body(h, 0)
      BY <3>1
    <3> QED
      BY <3>2
  <2>2. ASSUME NEW m \in Nat, m \in T
        PROVE  m + 1 \in T
    <3>1. PICK h : h = body(h, m)
      BY <2>2
    <3> DEFINE last == m + 1
               g == [s \in SUBSET (1..last) |->
                       IF last \in s THEN Step(h[s \ {last}], last) ELSE h[s]]
    <3> HIDE DEF Step
    <3>2. ASSUME NEW s \in SUBSET (1..last)
          PROVE  g[s] = body(g, last)[s]
      <4>1. CASE last \in s
        <5>1. Max(s) = last /\ s # {}
          <6>1. \A y \in s : last >= y
            OBVIOUS
          <6>2. \A x \in s : (\A y \in s : x >= y) => x = last
            BY <4>1
          <6> QED
            BY <4>1, <6>1, <6>2 DEF Max
        <5>2. s \ {last} \in SUBSET (1..last) /\ last \notin s \ {last}
          OBVIOUS
        <5>3. g[s \ {last}] = h[s \ {last}]
          BY <5>2
        <5>4. g[s] = Step(h[s \ {last}], last)
          BY <4>1
        <5>5. body(g, last)[s] = Step(g[s \ {last}], last)
          <6> HIDE DEF g
          <6> QED
            BY <5>1
        <5> QED
          BY <5>3, <5>4, <5>5
      <4>2. CASE last \notin s
        <5>1. s \in SUBSET (1..m)
          BY <4>2
        <5>2. g[s] = h[s] /\ h[s] = body(h, m)[s]
          BY <3>1, <4>2
        <5>3. PICK x : x = Max(s)
          OBVIOUS
        <5>4. s \ {x} \in SUBSET (1..last) /\ last \notin s \ {x}
          BY <4>2
        <5>5. g[s \ {x}] = h[s \ {x}]
          BY <5>4
        <5>6. body(h, m)[s] = IF s = {} THEN base ELSE Step(h[s \ {x}], x)
          BY <5>1, <5>3
        <5>7. body(g, last)[s] = IF s = {} THEN base ELSE Step(g[s \ {x}], x)
          <6> HIDE DEF g
          <6> QED
            BY <5>3
        <5> QED
          BY <5>2, <5>5, <5>6, <5>7
      <4> QED
        BY <4>1, <4>2
    <3>3. g = body(g, last)
      <4>1. g = [s \in SUBSET (1..last) |-> g[s]]
        OBVIOUS
      <4>2. body(g, last) = [s \in SUBSET (1..last) |-> body(g, last)[s]]
        OBVIOUS
      <4> HIDE DEF g, body
      <4> QED
        BY <3>2, <4>1, <4>2
    <3> HIDE DEF g, body
    <3> QED
      BY <3>3
  <2> HIDE DEF T
  <2>3. Nat \subseteq T
    BY <2>1, <2>2, NumbersBySteps
  <2> QED
    BY <2>3 DEF T
<1>2. iter = body(iter, n)
  <2> HIDE DEF body
  <2> QED
    BY <1>1
<1>3. Tally(base, counts, worth, n) = iter[1..n]
  BY DEF Tally
<1> HIDE DEF iter, Step
<1> DEFINE fold == [k \in 0..n |-> iter[1..k]]
<1>4. iter[{}] = base
  BY <1>2
<1>5. fold[0] = base
  <2>1. 1..0 = {}
    OBVIOUS
  <2> QED
    BY <1>4, <2>1
<1>6. ASSUME NEW k \in 1..n
      PROVE  fold[k] = Step(fold[k - 1], k)
  <2>1. 1..k \in SUBSET (1..n) /\ 1..k # {}
    <3>1. k \in 1..k /\ k \in Nat /\ k <= n
      OBVIOUS
    <3>2. 1..k \subseteq 1..n
      BY <3>1
    <3> QED
      BY <3>1, <3>2
  <2>2. Max(1..k) = k
    <3>1. k \in 1..k /\ \A y \in 1..k : k >= y
      OBVIOUS
    <3>2. ASSUME NEW x \in 1..k, \A y \in 1..k : x >= y
          PROVE  x = k
      <4>1. x >= k
        BY <3>1, <3>2
      <4> QED
        BY <4>1
    <3> QED
      BY <3>1, <3>2 DEF Max
  <2>3. (1..k) \ {k} = 1..(k - 1)
    OBVIOUS
  <2>4. iter[1..k] = Step(iter[1..(k - 1)], k)
    BY <1>2, <2>1, <2>2, <2>3
  <2> QED
    BY <2>4
<1> HIDE DEF fold
<1>7. Tally(base, counts, worth, n) = fold[n]
  BY <1>3 DEF fold
<1> QED
  BY <1>5, <1>6, <1>7 DEF EntryByEntry, Step

LEMMA TallyEmpty ==
  ASSUME NEW base, NEW counts, NEW worth
  PROVE  Tally(base, counts, worth, 0) = base
<1>1. PICK fold : EntryByEntry(fold, base, counts, worth, 0)
  BY TallyByEntry
<1> QED
  BY <1>1 DEF EntryByEntry

\* One entry more adds what it is worth, if it counts.
LEMMA TallyAppend ==
  ASSUME NEW n \in Nat, NEW base, NEW counts, NEW worth, NEW counts2, NEW worth2,
         \A k \in 1..n : counts2[k] = counts[k] /\ worth2[k] = worth[k]
  PROVE  Tally(base, counts2, worth2, n + 1)
           = IF counts2[n + 1] THEN Tally(base, counts, worth, n) + worth2[n + 1]
                               ELSE Tally(base, counts, worth, n)
<1>1. PICK fold : EntryByEntry(fold, base, counts, worth, n)
  BY TallyByEntry
<1>2. PICK fold2 : EntryByEntry(fold2, base, counts2, worth2, n + 1)
  <2>1. n + 1 \in Nat
    OBVIOUS
  <2> QED
    BY <2>1, TallyByEntry
<1> DEFINE T == {k \in Nat : k <= n => fold2[k] = fold[k]}
<1>3. 0 \in T
  BY <1>1, <1>2 DEF EntryByEntry
<1>4. ASSUME NEW k \in Nat, k \in T
      PROVE  k + 1 \in T
  <2> SUFFICES ASSUME k + 1 <= n
               PROVE  fold2[k + 1] = fold[k + 1]
    OBVIOUS
  <2>1. k + 1 \in 1..n /\ k + 1 \in 1..(n + 1) /\ (k + 1) - 1 = k
    OBVIOUS
  <2>2. fold2[k] = fold[k]
    BY <1>4
  <2>3. fold[k + 1] = IF counts[k + 1] THEN fold[k] + worth[k + 1] ELSE fold[k]
    BY <1>1, <2>1 DEF EntryByEntry
  <2>4. fold2[k + 1] = IF counts2[k + 1] THEN fold2[k] + worth2[k + 1] ELSE fold2[k]
    BY <1>2, <2>1 DEF EntryByEntry
  <2> QED
    BY <2>1, <2>2, <2>3, <2>4
<1> HIDE DEF T
<1>5. n \in T
  BY <1>3, <1>4, NumbersBySteps
<1>6. fold2[n] = fold[n]
  BY <1>5 DEF T
<1>7. fold2[n + 1] = IF counts2[n + 1] THEN fold2[n] + worth2[n + 1] ELSE fold2[n]
  <2>1. n + 1 \in 1..(n + 1) /\ (n + 1) - 1 = n
    OBVIOUS
  <2> QED
    BY <1>2, <2>1 DEF EntryByEntry
<1> QED
  BY <1>1, <1>2, <1>6, <1>7 DEF EntryByEntry

\* A set of numbers up to n has a largest.
LEMMA LargestExists ==
  ASSUME NEW n \in Nat, NEW S \in SUBSET (1..n), S # {}
  PROVE  Max(S) \in S
<1> DEFINE T == {m \in Nat : \A s \in SUBSET (1..m) :
                   s # {} => \E x \in s : \A y \in s : x >= y}
<1>1. 0 \in T
  <2>1. \A s \in SUBSET (1..0) : s = {}
    OBVIOUS
  <2> QED
    BY <2>1
<1>2. ASSUME NEW m \in Nat, m \in T
      PROVE  m + 1 \in T
  <2> SUFFICES ASSUME NEW s \in SUBSET (1..(m + 1)), s # {}
               PROVE  \E x \in s : \A y \in s : x >= y
    OBVIOUS
  <2>1. CASE m + 1 \in s
    BY <2>1
  <2>2. CASE m + 1 \notin s
    <3>1. s \in SUBSET (1..m)
      BY <2>2
    <3> QED
      BY <1>2, <3>1
  <2> QED
    BY <2>1, <2>2
<1> HIDE DEF T
<1>3. n \in T
  BY <1>1, <1>2, NumbersBySteps
<1>4. \E x \in S : \A y \in S : x >= y
  BY <1>3 DEF T
<1> QED
  BY <1>4 DEF Max

\* The three sums of the log are such sums.
LEMMA CashTally ==
  ASSUME NEW log, NEW n \in Nat, DOMAIN log = 1..n
  PROVE  LoggedCash(log) = Tally(InitialCash, [i \in 1..n |-> TRUE],
                                 [i \in 1..n |-> log[i].cash_change], n)
<1> DEFINE counts == [i \in 1..n |-> TRUE]
           worth  == [i \in 1..n |-> log[i].cash_change]
           F(h) == [s \in SUBSET (1..n) |->
                      IF s = {} THEN InitialCash
                      ELSE LET x == Max(s) IN h[s \ {x}] + log[x].cash_change]
           G(h) == [s \in SUBSET (1..n) |->
                      IF s = {} THEN InitialCash
                      ELSE LET x == Max(s)
                           IN  IF counts[x] THEN h[s \ {x}] + worth[x] ELSE h[s \ {x}]]
<1>1. ASSUME NEW h
      PROVE  F(h) = G(h)
  <2>1. ASSUME NEW s \in SUBSET (1..n), s # {}
        PROVE  counts[Max(s)] /\ worth[Max(s)] = log[Max(s)].cash_change
    <3>1. Max(s) \in 1..n
      BY <2>1, LargestExists
    <3> QED
      BY <3>1
  <2> HIDE DEF counts, worth
  <2>2. \A s \in SUBSET (1..n) : F(h)[s] = G(h)[s]
    BY <2>1
  <2> QED
    BY <2>2
<1>2. LoggedCash(log) = (CHOOSE h : h = F(h))[1..n]
  BY DEF LoggedCash, FoldLeft, MapThenFoldSet
<1>3. Tally(InitialCash, counts, worth, n) = (CHOOSE h : h = G(h))[1..n]
  BY DEF Tally
<1> HIDE DEF F, G
<1>4. (CHOOSE h : h = F(h)) = (CHOOSE h : h = G(h))
  BY <1>1
<1> QED
  BY <1>2, <1>3, <1>4

LEMMA ProfitTally ==
  ASSUME NEW log, NEW n \in Nat, DOMAIN log = 1..n
  PROVE  LoggedProfit(log) = Tally(0, [i \in 1..n |-> TRUE],
                                   [i \in 1..n |-> log[i].realized_profit], n)
<1> DEFINE counts == [i \in 1..n |-> TRUE]
           worth  == [i \in 1..n |-> log[i].realized_profit]
           F(h) == [s \in SUBSET (1..n) |->
                      IF s = {} THEN 0
                      ELSE LET x == Max(s) IN h[s \ {x}] + log[x].realized_profit]
           G(h) == [s \in SUBSET (1..n) |->
                      IF s = {} THEN 0
                      ELSE LET x == Max(s)
                           IN  IF counts[x] THEN h[s \ {x}] + worth[x] ELSE h[s \ {x}]]
<1>1. ASSUME NEW h
      PROVE  F(h) = G(h)
  <2>1. ASSUME NEW s \in SUBSET (1..n), s # {}
        PROVE  counts[Max(s)] /\ worth[Max(s)] = log[Max(s)].realized_profit
    <3>1. Max(s) \in 1..n
      BY <2>1, LargestExists
    <3> QED
      BY <3>1
  <2> HIDE DEF counts, worth
  <2>2. \A s \in SUBSET (1..n) : F(h)[s] = G(h)[s]
    BY <2>1
  <2> QED
    BY <2>2
<1>2. LoggedProfit(log) = (CHOOSE h : h = F(h))[1..n]
  BY DEF LoggedProfit, FoldLeft, MapThenFoldSet
<1>3. Tally(0, counts, worth, n) = (CHOOSE h : h = G(h))[1..n]
  BY DEF Tally
<1> HIDE DEF F, G
<1>4. (CHOOSE h : h = F(h)) = (CHOOSE h : h = G(h))
  BY <1>1
<1> QED
  BY <1>2, <1>3, <1>4

LEMMA SharesTally ==
  ASSUME NEW log, NEW n \in Nat, DOMAIN log = 1..n, NEW symbol
  PROVE  LoggedShares(log, symbol)
           = Tally(0, [i \in 1..n |-> log[i].order.instrument.symbol = symbol],
                   [i \in 1..n |-> Signed(log[i].order)], n)
<1> DEFINE counts == [i \in 1..n |-> log[i].order.instrument.symbol = symbol]
           worth  == [i \in 1..n |-> Signed(log[i].order)]
           F(h) == [s \in SUBSET (1..n) |->
                      IF s = {} THEN 0
                      ELSE LET x == Max(s)
                           IN  IF log[x].order.instrument.symbol = symbol
                               THEN h[s \ {x}] + Signed(log[x].order) ELSE h[s \ {x}]]
           G(h) == [s \in SUBSET (1..n) |->
                      IF s = {} THEN 0
                      ELSE LET x == Max(s)
                           IN  IF counts[x] THEN h[s \ {x}] + worth[x] ELSE h[s \ {x}]]
<1>1. ASSUME NEW h
      PROVE  F(h) = G(h)
  <2>1. ASSUME NEW s \in SUBSET (1..n), s # {}
        PROVE  /\ counts[Max(s)] <=> log[Max(s)].order.instrument.symbol = symbol
               /\ worth[Max(s)] = Signed(log[Max(s)].order)
    <3>1. Max(s) \in 1..n
      BY <2>1, LargestExists
    <3> QED
      BY <3>1
  <2> HIDE DEF counts, worth
  <2>2. \A s \in SUBSET (1..n) : F(h)[s] = G(h)[s]
    BY <2>1
  <2> QED
    BY <2>2
<1>2. LoggedShares(log, symbol) = (CHOOSE h : h = F(h))[1..n]
  BY DEF LoggedShares, FoldLeft, MapThenFoldSet
<1>3. Tally(0, counts, worth, n) = (CHOOSE h : h = G(h))[1..n]
  BY DEF Tally
<1> HIDE DEF F, G
<1>4. (CHOOSE h : h = F(h)) = (CHOOSE h : h = G(h))
  BY <1>1
<1> QED
  BY <1>2, <1>3, <1>4

-----------------------------------------------------------------------------
(* The log explains the account. *)

\* What an execution that has succeeded did to the account is what it is logged as.
LEMMA ExecutionEffect ==
  ASSUME NEW order \in Order, NEW account \in PortfolioType, ~execute(order, account).raised
  PROVE  LET after == execute(order, account).portfolio
             entry == TransactionOf(order, account, after)
         IN  /\ after.cash_balance = account.cash_balance + entry.cash_change
             /\ after.realized_profit = account.realized_profit + entry.realized_profit
             /\ \A s \in Symbols :
                  QuantityOf(after, s)
                    = IF order.instrument.symbol = s
                      THEN QuantityOf(account, s) + Signed(order) ELSE QuantityOf(account, s)
<1> DEFINE symbol == order.instrument.symbol
           after  == execute(order, account).portfolio
           entry  == TransactionOf(order, account, after)
           debit  == total_value(order) + Fee
<1>1. /\ symbol \in Symbols /\ order.quantity \in Nat \ {0} /\ order.instrument \in Instruments
      /\ order.side = "buy" \/ order.side = "sell"
  BY InstrumentsAssumption DEF Order, Sides
<1>2. account.cash_balance \in Nat /\ account.realized_profit \in Int
  BY DEF PortfolioType
<1>3. total_value(order) \in Nat /\ Fee \in Nat
  BY TotalValuePositive, FeeAssumption
<1>4. after \in PortfolioType
  BY ExecuteAtomic
<1>5. after.realized_profit = account.realized_profit + entry.realized_profit
  <2>1. after.realized_profit \in Int
    BY <1>4 DEF PortfolioType
  <2>2. entry.realized_profit = after.realized_profit - account.realized_profit
    BY DEF TransactionOf
  <2> HIDE DEF after, entry
  <2> QED
    BY <1>2, <2>1, <2>2
<1>6. CASE order.side = "buy"
  <2> DEFINE cost   == Quotient(debit, order.quantity)
             opened == [instrument |-> order.instrument, quantity |-> order.quantity,
                        average_price |-> cost]
             grown  == add_purchase(account.positions[symbol], order.quantity, cost)
             record == IF Held(account, symbol) THEN grown ELSE opened
  <2>1. after = [account EXCEPT !.cash_balance = @ - debit, !.positions[symbol] = record]
    BY <1>6, PurchaseLeaves DEF AccountBought
  <2>2. QuantityOf(after, symbol) = QuantityOf(account, symbol) + order.quantity
    BY <1>6, PurchaseEffect
  <2> HIDE DEF record, debit
  <2>3. /\ after.cash_balance = account.cash_balance - debit
        /\ \A s \in Symbols : s # symbol => after.positions[s] = account.positions[s]
    <3> HIDE DEF after, symbol
    <3> QED
      BY <1>1, <2>1 DEF PortfolioType
  <2>4. entry.cash_change = -debit /\ debit \in Nat
    BY <1>3, <1>6 DEF TransactionOf, debit
  <2>5. Signed(order) = order.quantity
    BY <1>6 DEF Signed
  <2> HIDE DEF after, entry, symbol
  <2>6. \A s \in Symbols : s # symbol => QuantityOf(after, s) = QuantityOf(account, s)
    BY <2>3 DEF QuantityOf, Held
  <2>7. after.cash_balance = account.cash_balance + entry.cash_change
    BY <1>2, <2>3, <2>4
  <2> QED
    BY <1>5, <2>2, <2>5, <2>6, <2>7 DEF after, entry, symbol
<1>7. CASE order.side = "sell"
  <2> DEFINE position == account.positions[symbol]
             proceeds == total_value(order) - Fee
             price    == Quotient(proceeds, order.quantity)
             profit   == price * order.quantity - position.average_price * order.quantity
             left     == remove_sale(position, order.quantity)
  <2>1. after = [account EXCEPT !.cash_balance = @ + proceeds,
                   !.realized_profit = @ + profit, !.positions[symbol] = left]
    BY <1>7, SaleLeaves DEF AccountSold
  <2>2. Held(account, symbol) /\ order.quantity <= position.quantity
    BY <1>7, SaleLeaves
  <2>3. position \in Position
    BY <1>1, <2>2, HeldPosition
  <2>4. QuantityOf(account, symbol) = position.quantity
    BY <2>2 DEF QuantityOf
  <2>5. \/ order.quantity = position.quantity /\ left = NoPosition
        \/ /\ order.quantity # position.quantity /\ left # NoPosition
           /\ left.quantity = position.quantity - order.quantity
    <3>1. CASE order.quantity = position.quantity
      BY <3>1 DEF remove_sale
    <3>2. CASE order.quantity # position.quantity
      <4>1. left = [position EXCEPT !.quantity = @ - order.quantity]
        BY <3>2 DEF remove_sale
      <4>2. left \in Position /\ left.quantity = position.quantity - order.quantity
        <5>1. position.quantity - order.quantity \in Nat \ {0}
          BY <1>1, <2>2, <2>3, <3>2 DEF Position
        <5> HIDE DEF left, position
        <5> QED
          BY <2>3, <4>1, <5>1 DEF Position
      <4> QED
        BY <3>2, <4>2, NoPositionAssumption
    <3> QED
      BY <3>1, <3>2
  <2> HIDE DEF left, profit, proceeds
  <2>6. /\ after.cash_balance = account.cash_balance + proceeds
        /\ after.positions[symbol] = left
        /\ \A s \in Symbols : s # symbol => after.positions[s] = account.positions[s]
    <3> HIDE DEF after, symbol
    <3> QED
      BY <1>1, <2>1 DEF PortfolioType
  <2>7. entry.cash_change = proceeds
    BY <1>7 DEF TransactionOf, proceeds
  <2>8. Signed(order) = -order.quantity
    BY <1>7 DEF Signed
  <2> HIDE DEF after, entry, symbol, position
  <2>9. QuantityOf(after, symbol) = QuantityOf(account, symbol) + Signed(order)
    <3>1. position.quantity \in Nat
      BY <2>3 DEF Position
    <3>2. CASE order.quantity = position.quantity /\ left = NoPosition
      BY <1>1, <2>4, <2>6, <2>8, <3>1, <3>2 DEF QuantityOf, Held
    <3>3. CASE /\ order.quantity # position.quantity /\ left # NoPosition
               /\ left.quantity = position.quantity - order.quantity
      BY <1>1, <2>4, <2>6, <2>8, <3>1, <3>3 DEF QuantityOf, Held
    <3> QED
      BY <2>5, <3>2, <3>3
  <2>10. \A s \in Symbols : s # symbol => QuantityOf(after, s) = QuantityOf(account, s)
    BY <2>6 DEF QuantityOf, Held
  <2> QED
    BY <1>5, <2>6, <2>7, <2>9, <2>10 DEF after, entry, symbol
<1> QED
  BY <1>1, <1>6, <1>7

\* An entry appended to the log adds to each sum what the entry says.
LEMMA LoggedAppend ==
  ASSUME NEW log \in Seq(Transaction), NEW entry \in Transaction
  PROVE  /\ LoggedCash(Append(log, entry)) = LoggedCash(log) + entry.cash_change
         /\ LoggedProfit(Append(log, entry)) = LoggedProfit(log) + entry.realized_profit
         /\ \A s : LoggedShares(Append(log, entry), s)
                    = IF entry.order.instrument.symbol = s
                      THEN LoggedShares(log, s) + Signed(entry.order) ELSE LoggedShares(log, s)
<1>1. PICK n \in Nat : n = Len(log)
  OBVIOUS
<1>2. PICK longer : longer = Append(log, entry)
  OBVIOUS
<1>3. /\ DOMAIN log = 1..n /\ DOMAIN longer = 1..(n + 1) /\ longer[n + 1] = entry
      /\ \A k \in 1..n : longer[k] = log[k]
  BY <1>1, <1>2
<1>4. n + 1 \in Nat /\ n + 1 \in 1..(n + 1) /\ \A k \in 1..n : k \in 1..(n + 1)
  OBVIOUS
<1>5. LoggedCash(longer) = LoggedCash(log) + entry.cash_change
  <2> DEFINE counts(m) == [i \in 1..m |-> TRUE]
             worth     == [i \in 1..n |-> log[i].cash_change]
             worth2    == [i \in 1..(n + 1) |-> longer[i].cash_change]
  <2>1. \A k \in 1..n : counts(n + 1)[k] = counts(n)[k] /\ worth2[k] = worth[k]
    BY <1>3, <1>4
  <2>2. counts(n + 1)[n + 1] /\ worth2[n + 1] = entry.cash_change
    BY <1>3, <1>4
  <2>3. LoggedCash(log) = Tally(InitialCash, counts(n), worth, n)
    BY <1>3, CashTally
  <2>4. LoggedCash(longer) = Tally(InitialCash, counts(n + 1), worth2, n + 1)
    BY <1>3, <1>4, CashTally
  <2> HIDE DEF counts, worth, worth2
  <2>5. Tally(InitialCash, counts(n + 1), worth2, n + 1)
          = IF counts(n + 1)[n + 1] THEN Tally(InitialCash, counts(n), worth, n) + worth2[n + 1]
                                    ELSE Tally(InitialCash, counts(n), worth, n)
    BY <2>1, TallyAppend
  <2> QED
    BY <2>2, <2>3, <2>4, <2>5
<1>6. LoggedProfit(longer) = LoggedProfit(log) + entry.realized_profit
  <2> DEFINE counts(m) == [i \in 1..m |-> TRUE]
             worth     == [i \in 1..n |-> log[i].realized_profit]
             worth2    == [i \in 1..(n + 1) |-> longer[i].realized_profit]
  <2>1. \A k \in 1..n : counts(n + 1)[k] = counts(n)[k] /\ worth2[k] = worth[k]
    BY <1>3, <1>4
  <2>2. counts(n + 1)[n + 1] /\ worth2[n + 1] = entry.realized_profit
    BY <1>3, <1>4
  <2>3. LoggedProfit(log) = Tally(0, counts(n), worth, n)
    BY <1>3, ProfitTally
  <2>4. LoggedProfit(longer) = Tally(0, counts(n + 1), worth2, n + 1)
    BY <1>3, <1>4, ProfitTally
  <2> HIDE DEF counts, worth, worth2
  <2>5. Tally(0, counts(n + 1), worth2, n + 1)
          = IF counts(n + 1)[n + 1] THEN Tally(0, counts(n), worth, n) + worth2[n + 1]
                                    ELSE Tally(0, counts(n), worth, n)
    BY <2>1, TallyAppend
  <2> QED
    BY <2>2, <2>3, <2>4, <2>5
<1>7. ASSUME NEW s
      PROVE  LoggedShares(longer, s)
               = IF entry.order.instrument.symbol = s
                 THEN LoggedShares(log, s) + Signed(entry.order) ELSE LoggedShares(log, s)
  <2> DEFINE counts  == [i \in 1..n |-> log[i].order.instrument.symbol = s]
             counts2 == [i \in 1..(n + 1) |-> longer[i].order.instrument.symbol = s]
             worth   == [i \in 1..n |-> Signed(log[i].order)]
             worth2  == [i \in 1..(n + 1) |-> Signed(longer[i].order)]
  <2>1. \A k \in 1..n : counts2[k] = counts[k] /\ worth2[k] = worth[k]
    BY <1>3, <1>4
  <2>2. /\ counts2[n + 1] <=> entry.order.instrument.symbol = s
        /\ worth2[n + 1] = Signed(entry.order)
    BY <1>3, <1>4
  <2>3. LoggedShares(log, s) = Tally(0, counts, worth, n)
    BY <1>3, SharesTally
  <2>4. LoggedShares(longer, s) = Tally(0, counts2, worth2, n + 1)
    BY <1>3, <1>4, SharesTally
  <2> HIDE DEF counts, counts2, worth, worth2
  <2>5. Tally(0, counts2, worth2, n + 1)
          = IF counts2[n + 1] THEN Tally(0, counts, worth, n) + worth2[n + 1]
                              ELSE Tally(0, counts, worth, n)
    BY <2>1, TallyAppend
  <2> QED
    BY <2>2, <2>3, <2>4, <2>5
<1> QED
  BY <1>2, <1>5, <1>6, <1>7

LEMMA ExecuteExplained ==
  ASSUME TypeOK, LogExplainsAccount, NEW order \in Orders, NEW ctx \in PresentableContexts,
         NEW extra \in BOOLEAN, Execute(order, ctx, extra)
  PROVE  LogExplainsAccount'
<1> DEFINE outcome == execute(order, portfolio)
<1>1. order \in Order /\ portfolio \in PortfolioType /\ transactions \in Seq(Transaction)
  BY OrdersAssumption DEF TypeOK
<1>2. CASE transactions' = transactions
  <2>1. portfolio' = portfolio
    <3>1. outcome.raised => outcome.portfolio = portfolio
      BY <1>1, ExecuteAtomic
    <3>2. Append(transactions, TransactionOf(order, portfolio, portfolio')) # transactions
      BY <1>1
    <3> HIDE DEF outcome
    <3> QED
      BY <1>2, <3>1, <3>2 DEF Execute, outcome
  <2> QED
    BY <1>2, <2>1 DEF LogExplainsAccount, QuantityOf, Held
<1>3. CASE transactions' # transactions
  <2>1. /\ ~outcome.raised /\ portfolio' = outcome.portfolio
        /\ transactions' = Append(transactions, TransactionOf(order, portfolio, portfolio'))
    BY <1>3 DEF Execute
  <2>2. PICK after \in PortfolioType : after = outcome.portfolio
    BY <1>1, ExecuteAtomic
  <2>3. PICK entry \in Transaction : entry = TransactionOf(order, portfolio, after)
    BY <1>1, TransactionOfType
  <2>4. portfolio' = after /\ transactions' = Append(transactions, entry) /\ entry.order = order
    BY <2>1, <2>2, <2>3 DEF TransactionOf
  <2>5. /\ after.cash_balance = portfolio.cash_balance + entry.cash_change
        /\ after.realized_profit = portfolio.realized_profit + entry.realized_profit
        /\ \A s \in Symbols :
             QuantityOf(after, s)
               = IF order.instrument.symbol = s
                 THEN QuantityOf(portfolio, s) + Signed(order) ELSE QuantityOf(portfolio, s)
    BY <1>1, <2>1, <2>2, <2>3, ExecutionEffect
  <2>6. PICK log : log = Append(transactions, entry)
    OBVIOUS
  <2>7. /\ LoggedCash(log) = LoggedCash(transactions) + entry.cash_change
        /\ LoggedProfit(log) = LoggedProfit(transactions) + entry.realized_profit
        /\ \A s : LoggedShares(log, s)
                   = IF entry.order.instrument.symbol = s
                     THEN LoggedShares(transactions, s) + Signed(entry.order)
                     ELSE LoggedShares(transactions, s)
    BY <1>1, <2>6, LoggedAppend
  <2>8. /\ after.cash_balance = LoggedCash(log) /\ after.realized_profit = LoggedProfit(log)
        /\ \A s \in Symbols : QuantityOf(after, s) = LoggedShares(log, s)
    BY <2>4, <2>5, <2>7 DEF LogExplainsAccount
  <2> QED
    BY <2>4, <2>6, <2>8 DEF LogExplainsAccount
<1> QED
  BY <1>2, <1>3

\* The log is complete and true: whatever was ordered, refused or failed, the account
\* is what its log adds up to (simulated.py 138-183).
THEOREM LogInvariant == Spec => []LogExplainsAccount
<1>1. Init => LogExplainsAccount
  <2> SUFFICES ASSUME Init
               PROVE  LogExplainsAccount
    OBVIOUS
  <2>1. DOMAIN transactions = 1..0 /\ 0 \in Nat
    BY DEF Init
  <2>2. LoggedCash(transactions) = InitialCash
    BY <2>1, CashTally, TallyEmpty
  <2>3. LoggedProfit(transactions) = 0
    BY <2>1, ProfitTally, TallyEmpty
  <2>4. \A s : LoggedShares(transactions, s) = 0
    BY <2>1, SharesTally, TallyEmpty
  <2> QED
    BY <2>2, <2>3, <2>4 DEF Init, LogExplainsAccount, QuantityOf, Held
<1>2. TypeOK /\ LogExplainsAccount /\ [Next]_vars => LogExplainsAccount'
  <2> SUFFICES ASSUME TypeOK, LogExplainsAccount, [Next]_vars
               PROVE  LogExplainsAccount'
    OBVIOUS
  <2>1. ASSUME NEW order \in Orders, NEW ctx \in PresentableContexts, NEW extra \in BOOLEAN,
               Execute(order, ctx, extra)
        PROVE  LogExplainsAccount'
    BY <2>1, ExecuteExplained
  <2>2. CASE UNCHANGED <<portfolio, transactions>>
    BY <2>2 DEF LogExplainsAccount, QuantityOf, Held
  <2> QED
    BY <2>1, <2>2 DEF Next, vars, SetKillSwitch, MovePrice, StartDay
<1> QED
  BY <1>1, <1>2, TypeCorrect, PTL DEF Spec

-----------------------------------------------------------------------------
(***************************************************************************)
(* Sums over a finite set, in whatever order the elements are taken.       *)
(***************************************************************************)
Some(S) == CHOOSE x \in S : TRUE

SumsUp(h, v, S) == h = [s \in SUBSET S |-> IF s = {} THEN 0 ELSE v[Some(s)] + h[s \ {Some(s)}]]

SumOf(v, S) == (CHOOSE h : SumsUp(h, v, S))[S]

LEMMA SomeInSet ==
  ASSUME NEW S, S # {}
  PROVE  Some(S) \in S
  BY DEF Some

LEMMA OneLess ==
  ASSUME NEW S, IsFiniteSet(S), NEW x \in S
  PROVE  IsFiniteSet(S \ {x}) /\ Cardinality(S) \in Nat \ {0} /\ Cardinality(S \ {x}) = Cardinality(S) - 1
<1>1. IsFiniteSet(S \ {x}) /\ Cardinality(S \ {x}) = Cardinality(S) - 1
  BY FS_RemoveElement
<1>2. Cardinality(S) \in Nat /\ Cardinality(S \ {x}) \in Nat
  BY <1>1, FS_CardinalityType
<1> QED
  BY <1>1, <1>2

LEMMA SumExists ==
  ASSUME NEW v, NEW S, IsFiniteSet(S)
  PROVE  \E h : SumsUp(h, v, S)
<1> DEFINE Good(h, s) == h[s] = IF s = {} THEN 0 ELSE v[Some(s)] + h[s \ {Some(s)}]
           UpTo(h, m) == \A s \in SUBSET S : Cardinality(s) <= m => Good(h, s)
           T == {m \in Nat : \E h : UpTo(h, m)}
<1>1. \A s \in SUBSET S : IsFiniteSet(s) /\ Cardinality(s) \in Nat /\ Cardinality(s) <= Cardinality(S)
  BY FS_Subset, FS_CardinalityType
<1>2. 0 \in T
  <2> DEFINE h == [s \in SUBSET S |-> 0]
  <2>1. \A s \in SUBSET S : Cardinality(s) <= 0 => s = {}
    BY <1>1, FS_EmptySet
  <2>2. UpTo(h, 0)
    BY <2>1
  <2> QED
    BY <2>2
<1>3. ASSUME NEW m \in Nat, m \in T
      PROVE  m + 1 \in T
  <2>1. PICK h : UpTo(h, m)
    BY <1>3
  <2> DEFINE g == [s \in SUBSET S |-> IF Cardinality(s) = m + 1
                                      THEN v[Some(s)] + h[s \ {Some(s)}] ELSE h[s]]
  <2>2. ASSUME NEW s \in SUBSET S, Cardinality(s) <= m + 1
        PROVE  Good(g, s)
    <3>1. CASE s = {}
      <4>1. Cardinality(s) = 0
        BY <3>1, FS_EmptySet
      <4>2. g[s] = h[s] /\ Good(h, s)
        BY <2>1, <4>1
      <4> QED
        BY <3>1, <4>2
    <3>2. CASE s # {}
      <4>1. PICK x : x = Some(s)
        OBVIOUS
      <4>2. x \in s
        BY <3>2, <4>1, SomeInSet
      <4>3. Cardinality(s \ {x}) = Cardinality(s) - 1 /\ s \ {x} \in SUBSET S
        BY <1>1, <4>2, OneLess
      <4>4. Cardinality(s) \in Nat
        BY <1>1
      <4>5. g[s \ {x}] = h[s \ {x}]
        BY <2>2, <4>3, <4>4
      <4>6. CASE Cardinality(s) = m + 1
        <5>1. g[s] = v[x] + h[s \ {x}]
          BY <4>1, <4>6
        <5> HIDE DEF g
        <5> QED
          BY <3>2, <4>1, <4>5, <5>1
      <4>7. CASE Cardinality(s) # m + 1
        <5>1. Cardinality(s) <= m
          BY <2>2, <4>4, <4>7
        <5>2. g[s] = h[s] /\ Good(h, s)
          BY <2>1, <4>7, <5>1
        <5> HIDE DEF g
        <5> QED
          BY <3>2, <4>1, <4>5, <5>2
      <4> QED
        BY <4>6, <4>7
    <3> QED
      BY <3>1, <3>2
  <2> HIDE DEF g, Good
  <2>3. UpTo(g, m + 1)
    BY <2>2
  <2> QED
    BY <2>3
<1> HIDE DEF T, UpTo
<1>4. Cardinality(S) \in T
  <2>1. Cardinality(S) \in Nat
    BY FS_CardinalityType
  <2> QED
    BY <1>2, <1>3, <2>1, NumbersBySteps
<1>5. PICK h : UpTo(h, Cardinality(S))
  BY <1>4 DEF T
<1> DEFINE g == [s \in SUBSET S |-> h[s]]
<1>6. \A s \in SUBSET S : Good(h, s)
  BY <1>1, <1>5 DEF UpTo
<1>7. ASSUME NEW s \in SUBSET S
      PROVE  g[s] = IF s = {} THEN 0 ELSE v[Some(s)] + g[s \ {Some(s)}]
  <2>1. s \ {Some(s)} \in SUBSET S
    OBVIOUS
  <2> QED
    BY <1>6, <2>1
<1>8. g = [s \in SUBSET S |-> IF s = {} THEN 0 ELSE v[Some(s)] + g[s \ {Some(s)}]]
  <2>1. g = [s \in SUBSET S |-> g[s]]
    OBVIOUS
  <2> HIDE DEF g
  <2> QED
    BY <1>7, <2>1
<1> HIDE DEF g
<1> QED
  BY <1>8 DEF SumsUp

\* The part of a sum over fewer elements is the sum over those.
LEMMA SumWithin ==
  ASSUME NEW v, NEW S, IsFiniteSet(S), NEW h, SumsUp(h, v, S), NEW R \in SUBSET S
  PROVE  h[R] = SumOf(v, R)
<1>1. IsFiniteSet(R)
  BY FS_Subset
<1> DEFINE k == CHOOSE g : SumsUp(g, v, R)
<1>2. SumsUp(k, v, R)
  BY <1>1, SumExists
<1>3. SumOf(v, R) = k[R]
  BY DEF SumOf
<1> HIDE DEF k
<1> DEFINE T == {m \in Nat : \A s \in SUBSET R : Cardinality(s) = m => h[s] = k[s]}
<1>4. \A s \in SUBSET R : IsFiniteSet(s) /\ Cardinality(s) \in Nat
  BY <1>1, FS_Subset, FS_CardinalityType
<1>5. 0 \in T
  <2> SUFFICES ASSUME NEW s \in SUBSET R, Cardinality(s) = 0
               PROVE  h[s] = k[s]
    OBVIOUS
  <2>1. s = {}
    BY <1>4, FS_EmptySet
  <2> QED
    BY <1>2, <2>1 DEF SumsUp
<1>6. ASSUME NEW m \in Nat, m \in T
      PROVE  m + 1 \in T
  <2> SUFFICES ASSUME NEW s \in SUBSET R, Cardinality(s) = m + 1
               PROVE  h[s] = k[s]
    OBVIOUS
  <2>1. s # {}
    BY FS_EmptySet
  <2>2. PICK x : x = Some(s)
    OBVIOUS
  <2>3. x \in s
    BY <2>1, <2>2, SomeInSet
  <2>4. Cardinality(s \ {x}) = m /\ s \ {x} \in SUBSET R
    BY <1>4, <2>3, OneLess
  <2>5. h[s \ {x}] = k[s \ {x}]
    BY <1>6, <2>4
  <2>6. h[s] = v[x] + h[s \ {x}]
    BY <2>1, <2>2 DEF SumsUp
  <2>7. k[s] = v[x] + k[s \ {x}]
    BY <1>2, <2>1, <2>2 DEF SumsUp
  <2> QED
    BY <2>5, <2>6, <2>7
<1> HIDE DEF T
<1>7. Cardinality(R) \in T
  BY <1>4, <1>5, <1>6, NumbersBySteps
<1> QED
  BY <1>3, <1>7 DEF T

\* A sum is what any one element is worth and the sum over the others.
LEMMA SumAnyFirst ==
  ASSUME NEW S, IsFiniteSet(S), NEW v, \A x \in S : v[x] \in Int
  PROVE  /\ SumOf(v, S) \in Int
         /\ \A y \in S : SumOf(v, S) = v[y] + SumOf(v, S \ {y})
<1>1. PICK h : SumsUp(h, v, S)
  BY SumExists
<1> DEFINE AnyFirst(s) == h[s] \in Int /\ \A y \in s : h[s] = v[y] + h[s \ {y}]
           T == {m \in Nat : \A s \in SUBSET S : Cardinality(s) <= m => AnyFirst(s)}
<1>2. \A s \in SUBSET S : IsFiniteSet(s) /\ Cardinality(s) \in Nat
  BY FS_Subset, FS_CardinalityType
<1>3. AnyFirst({})
  BY <1>1 DEF SumsUp
<1> HIDE DEF AnyFirst
<1>4. 0 \in T
  <2>1. \A s \in SUBSET S : Cardinality(s) <= 0 => s = {}
    BY <1>2, FS_EmptySet
  <2> QED
    BY <1>3, <2>1
<1>5. ASSUME NEW m \in Nat, m \in T
      PROVE  m + 1 \in T
  <2> SUFFICES ASSUME NEW s \in SUBSET S, Cardinality(s) <= m + 1, s # {}
               PROVE  AnyFirst(s)
    BY <1>3
  <2>1. PICK x : x = Some(s)
    OBVIOUS
  <2>2. x \in s
    BY <2>1, SomeInSet
  <2>3. h[s] = v[x] + h[s \ {x}]
    BY <1>1, <2>1 DEF SumsUp
  <2>4. \A y \in s : Cardinality(s \ {y}) <= m /\ s \ {y} \in SUBSET S
    BY <1>2, OneLess
  <2>5. \A y \in s : AnyFirst(s \ {y})
    BY <1>5, <2>4
  <2>6. h[s] \in Int
    BY <2>2, <2>3, <2>5 DEF AnyFirst
  <2>7. ASSUME NEW y \in s, y # x
        PROVE  h[s] = v[y] + h[s \ {y}]
    <3>1. y \in s \ {x} /\ x \in s \ {y}
      BY <2>2, <2>7
    <3>2. PICK rest : rest = (s \ {x}) \ {y}
      OBVIOUS
    <3>3. (s \ {y}) \ {x} = rest
      BY <3>2
    <3>4. h[s \ {x}] = v[y] + h[rest]
      BY <2>2, <2>5, <3>1, <3>2 DEF AnyFirst
    <3>5. h[s \ {y}] = v[x] + h[rest]
      BY <2>5, <3>1, <3>3 DEF AnyFirst
    <3>6. h[rest] \in Int
      <4>1. IsFiniteSet(s \ {x}) /\ Cardinality(s \ {x}) \in Nat /\ Cardinality(s \ {x}) <= m
        BY <1>2, <2>2, <2>4
      <4>2. Cardinality(rest) = Cardinality(s \ {x}) - 1
        BY <3>1, <3>2, <4>1, OneLess
      <4>3. Cardinality(rest) <= m /\ rest \in SUBSET S
        BY <3>2, <4>1, <4>2
      <4> QED
        BY <1>5, <4>3 DEF AnyFirst
    <3>7. v[x] \in Int /\ v[y] \in Int
      BY <2>2
    <3> QED
      BY <2>3, <3>4, <3>5, <3>6, <3>7
  <2> QED
    BY <2>3, <2>6, <2>7 DEF AnyFirst
<1> HIDE DEF T
<1>6. Cardinality(S) \in T
  BY <1>2, <1>4, <1>5, NumbersBySteps
<1>7. AnyFirst(S)
  BY <1>2, <1>6 DEF T
<1>8. h[S] = SumOf(v, S)
  <2>1. S \in SUBSET S
    OBVIOUS
  <2> QED
    BY <1>1, <2>1, SumWithin
<1>9. \A y \in S : h[S \ {y}] = SumOf(v, S \ {y})
  <2> SUFFICES ASSUME NEW y \in S
               PROVE  h[S \ {y}] = SumOf(v, S \ {y})
    OBVIOUS
  <2>1. S \ {y} \in SUBSET S
    OBVIOUS
  <2> QED
    BY <1>1, <2>1, SumWithin
<1> QED
  BY <1>7, <1>8, <1>9 DEF AnyFirst

LEMMA SumsEqual ==
  ASSUME NEW S, NEW v, NEW w, \A x \in S : v[x] = w[x]
  PROVE  SumOf(v, S) = SumOf(w, S)
<1> DEFINE F(h) == [s \in SUBSET S |-> IF s = {} THEN 0 ELSE v[Some(s)] + h[s \ {Some(s)}]]
           G(h) == [s \in SUBSET S |-> IF s = {} THEN 0 ELSE w[Some(s)] + h[s \ {Some(s)}]]
<1>1. ASSUME NEW h
      PROVE  F(h) = G(h)
  <2>1. ASSUME NEW s \in SUBSET S, s # {}
        PROVE  v[Some(s)] = w[Some(s)]
    <3>1. Some(s) \in s
      BY <2>1, SomeInSet
    <3> QED
      BY <3>1
  <2>2. \A s \in SUBSET S : F(h)[s] = G(h)[s]
    BY <2>1
  <2> QED
    BY <2>2
<1>2. \A h : SumsUp(h, v, S) <=> SumsUp(h, w, S)
  <2>1. \A h : /\ SumsUp(h, v, S) <=> h = F(h)
               /\ SumsUp(h, w, S) <=> h = G(h)
    BY DEF SumsUp
  <2> HIDE DEF F, G
  <2> QED
    BY <1>1, <2>1
<1>3. (CHOOSE h : SumsUp(h, v, S)) = (CHOOSE h : SumsUp(h, w, S))
  BY <1>2
<1> QED
  BY <1>3 DEF SumOf

-----------------------------------------------------------------------------
(***************************************************************************)
(* What is invested, as the cost basis of one symbol and the rest.         *)
(***************************************************************************)
Bases(account) == [s \in Symbols |-> CostBasis(account, s)]

BasisIn(account, s) == IF Held(account, s) THEN CostBasis(account, s) ELSE 0

LEMMA InvestedIsSum ==
  ASSUME NEW account
  PROVE  Invested(account) = SumOf(Bases(account), HeldSymbols(account))
<1> DEFINE S    == HeldSymbols(account)
           F(h) == [s \in SUBSET S |->
                      IF s = {} THEN 0
                      ELSE LET x == CHOOSE x \in s : TRUE
                           IN  CostBasis(account, x) + h[s \ {x}]]
           G(h) == [s \in SUBSET S |->
                      IF s = {} THEN 0 ELSE Bases(account)[Some(s)] + h[s \ {Some(s)}]]
<1>1. ASSUME NEW h
      PROVE  F(h) = G(h)
  <2>1. ASSUME NEW s \in SUBSET S, s # {}
        PROVE  Bases(account)[Some(s)] = CostBasis(account, Some(s))
    <3>1. Some(s) \in Symbols
      BY <2>1, SomeInSet DEF HeldSymbols
    <3> QED
      BY <3>1 DEF Bases
  <2>2. ASSUME NEW s \in SUBSET S
        PROVE  F(h)[s] = G(h)[s]
    <3>1. F(h)[s] = IF s = {} THEN 0 ELSE CostBasis(account, Some(s)) + h[s \ {Some(s)}]
      BY DEF Some
    <3> QED
      BY <2>1, <3>1
  <2> HIDE DEF S
  <2>3. F(h) = [s \in SUBSET S |-> F(h)[s]] /\ G(h) = [s \in SUBSET S |-> G(h)[s]]
    OBVIOUS
  <2> HIDE DEF F, G
  <2> QED
    BY <2>2, <2>3
<1>2. Invested(account) = (CHOOSE h : h = F(h))[S]
  BY DEF Invested, MapThenSumSet, MapThenFoldSet
<1>3. SumOf(Bases(account), S) = (CHOOSE h : h = G(h))[S]
  BY DEF SumOf, SumsUp
<1> HIDE DEF F, G
<1>4. (CHOOSE h : h = F(h)) = (CHOOSE h : h = G(h))
  BY <1>1
<1> QED
  BY <1>2, <1>3, <1>4

LEMMA BasisType ==
  ASSUME NEW account \in PortfolioType, NEW s \in Symbols
  PROVE  BasisIn(account, s) \in Int
<1>1. CASE Held(account, s)
  <2>1. account.positions[s] \in Position
    BY <1>1, HeldPosition
  <2>2. QuantityOf(account, s) \in Nat /\ account.positions[s].average_price \in Nat
    BY <1>1, <2>1 DEF QuantityOf, Position, Amount
  <2> QED
    BY <1>1, <2>2 DEF BasisIn, CostBasis
<1>2. CASE ~Held(account, s)
  BY <1>2 DEF BasisIn
<1> QED
  BY <1>1, <1>2

LEMMA InvestedApart ==
  ASSUME NEW account \in PortfolioType, IsFiniteSet(HeldSymbols(account)), NEW symbol \in Symbols
  PROVE  LET rest == SumOf(Bases(account), HeldSymbols(account) \ {symbol})
         IN  /\ rest \in Int
             /\ Invested(account) = BasisIn(account, symbol) + rest
<1> DEFINE S    == HeldSymbols(account)
           rest == SumOf(Bases(account), S \ {symbol})
<1>1. \A s \in S : Bases(account)[s] = BasisIn(account, s) /\ s \in Symbols
  BY DEF HeldSymbols, Bases, BasisIn
<1>2. \A s \in S : Bases(account)[s] \in Int
  BY <1>1, BasisType
<1>3. PICK bases : bases = Bases(account)
  OBVIOUS
<1>4. rest \in Int
  <2>1. IsFiniteSet(S \ {symbol})
    BY FS_Subset
  <2>2. \A s \in S \ {symbol} : bases[s] \in Int
    BY <1>2, <1>3
  <2> HIDE DEF S
  <2> QED
    BY <1>3, <2>1, <2>2, SumAnyFirst
<1>5. CASE symbol \in S
  <2>1. \A s \in S : bases[s] \in Int
    BY <1>2, <1>3
  <2>2. SumOf(bases, S) = bases[symbol] + SumOf(bases, S \ {symbol})
    <3> HIDE DEF S
    <3> QED
      BY <1>5, <2>1, SumAnyFirst DEF S
  <2> QED
    BY <1>1, <1>3, <1>4, <1>5, <2>2, InvestedIsSum
<1>6. CASE symbol \notin S
  <2>1. S \ {symbol} = S
    BY <1>6
  <2>2. BasisIn(account, symbol) = 0
    BY <1>6 DEF BasisIn, HeldSymbols
  <2>3. Invested(account) = rest
    BY <2>1, InvestedIsSum
  <2> HIDE DEF rest
  <2> QED
    BY <1>4, <2>2, <2>3 DEF rest
<1> QED
  BY <1>5, <1>6

\* An account that differs in one symbol differs in what is invested in that.
LEMMA InvestedChange ==
  ASSUME NEW before \in PortfolioType, NEW after \in PortfolioType, NEW symbol \in Symbols,
         IsFiniteSet(HeldSymbols(before)),
         \A s \in Symbols : s # symbol => after.positions[s] = before.positions[s]
  PROVE  /\ IsFiniteSet(HeldSymbols(after))
         /\ Invested(before) \in Int /\ Invested(after) \in Int
         /\ Invested(after) - Invested(before)
              = BasisIn(after, symbol) - BasisIn(before, symbol)
<1> DEFINE others == HeldSymbols(before) \ {symbol}
<1>1. HeldSymbols(after) \ {symbol} = others
  BY DEF HeldSymbols, Held
<1>2. IsFiniteSet(HeldSymbols(after))
  <2>1. HeldSymbols(after) \subseteq HeldSymbols(before) \cup {symbol}
    BY <1>1
  <2>2. IsFiniteSet(HeldSymbols(before) \cup {symbol})
    BY FS_AddElement
  <2> QED
    BY <2>1, <2>2, FS_Subset
<1>3. SumOf(Bases(after), others) = SumOf(Bases(before), others)
  <2>1. \A s \in others : Bases(after)[s] = Bases(before)[s]
    BY DEF HeldSymbols, Bases, CostBasis, QuantityOf, Held
  <2>2. PICK v, w : v = Bases(after) /\ w = Bases(before)
    OBVIOUS
  <2>3. \A s \in others : v[s] = w[s]
    BY <2>1, <2>2
  <2> HIDE DEF others
  <2>4. SumOf(v, others) = SumOf(w, others)
    BY <2>3, SumsEqual
  <2> QED
    BY <2>2, <2>4
<1> DEFINE rest == SumOf(Bases(before), others)
<1>4. rest \in Int /\ Invested(before) = BasisIn(before, symbol) + rest
  BY InvestedApart
<1>5. Invested(after) = BasisIn(after, symbol) + rest
  BY <1>1, <1>2, <1>3, InvestedApart
<1>6. BasisIn(before, symbol) \in Int /\ BasisIn(after, symbol) \in Int
  BY BasisType
<1> HIDE DEF rest
<1> QED
  BY <1>2, <1>4, <1>5, <1>6

-----------------------------------------------------------------------------
(***************************************************************************)
(* Rounding.                                                               *)
(***************************************************************************)
\* A quotient times its divisor misses the amount by half the divisor, unless a price
\* below half a unit becomes one.
LEMMA QuotientError ==
  ASSUME NEW amount \in Nat, NEW n \in Nat \ {0}
  PROVE  LET error == Quotient(amount, n) * n - amount
         IN  /\ error \in Int
             /\ 2 * error <= 2 * n /\ -2 * error <= 2 * n
             /\ amount >= n => 2 * error <= n /\ -2 * error <= n
<1> DEFINE q == amount \div n
           r == amount % n
           whole == n * q
<1>1. q \in Nat /\ r \in Nat /\ r < n
  OBVIOUS
<1>2. amount = whole + r /\ whole \in Nat
  BY <1>1
<1>3. amount >= n => q >= 1
  BY <1>1
<1>4. q * n = whole /\ (q + 1) * n = whole + n /\ 1 * n = n /\ (q = 0 => whole = 0)
  BY <1>1
<1> DEFINE nearest == IF 2 * r < n \/ (2 * r = n /\ q % 2 = 0) THEN q ELSE q + 1
<1>5. Quotient(amount, n) = IF nearest = 0 THEN 1 ELSE nearest
  BY DEF Quotient
<1> HIDE DEF whole, q, r
<1>6. \/ Quotient(amount, n) = q /\ 2 * r <= n /\ q # 0
      \/ Quotient(amount, n) = q + 1 /\ 2 * r >= n
      \/ Quotient(amount, n) = 1 /\ q = 0 /\ 2 * r <= n
  BY <1>1, <1>5
<1>7. \/ Quotient(amount, n) * n = whole /\ 2 * r <= n /\ q # 0
      \/ Quotient(amount, n) * n = whole + n /\ 2 * r >= n
      \/ Quotient(amount, n) * n = n /\ q = 0 /\ whole = 0 /\ 2 * r <= n
  BY <1>4, <1>6
<1> DEFINE product == Quotient(amount, n) * n
<1>8. product \in Int
  BY <1>2, <1>7
<1> HIDE DEF product
<1>9. CASE product = whole /\ 2 * r <= n
  BY <1>1, <1>2, <1>9 DEF product
<1>10. CASE product = whole + n /\ 2 * r >= n
  BY <1>1, <1>2, <1>10 DEF product
<1>11. CASE product = n /\ q = 0 /\ whole = 0 /\ 2 * r <= n
  BY <1>1, <1>2, <1>3, <1>11 DEF product
<1> QED
  BY <1>7, <1>9, <1>10, <1>11 DEF product

\* A purchase moves cash into cost basis, but for half a unit for each share bought
\* and each share then held.
LEMMA PurchaseRounds ==
  ASSUME NEW order \in Order, NEW account \in PortfolioType, IsFiniteSet(HeldSymbols(account)),
         order.side = "buy", ~execute(order, account).raised
  PROVE  LET after  == execute(order, account).portfolio
             change == BookValue(after) - BookValue(account)
             shares == order.quantity + QuantityOf(after, order.instrument.symbol)
         IN  /\ IsFiniteSet(HeldSymbols(after))
             /\ 2 * change <= shares /\ -2 * change <= shares
<1> DEFINE symbol == order.instrument.symbol
           n      == order.quantity
           debit  == total_value(order) + Fee
           cost   == Quotient(debit, n)
           opened == [instrument |-> order.instrument, quantity |-> n, average_price |-> cost]
           grown  == add_purchase(account.positions[symbol], n, cost)
           entry  == IF Held(account, symbol) THEN grown ELSE opened
           after  == execute(order, account).portfolio
<1>1. symbol \in Symbols /\ n \in Nat \ {0} /\ order.instrument \in Instruments
  BY InstrumentsAssumption DEF Order
<1>2. debit \in Nat /\ debit >= n /\ debit > 0
  <2>1. order.price \in Nat \ {0}
    BY DEF Order, Amount
  <2>2. order.price * n \in Nat /\ order.price * n >= n
    BY <1>1, <2>1
  <2> QED
    BY <1>1, <2>2, FeeAssumption DEF total_value
<1>3. cost \in Amount
  BY <1>1, <1>2, QuotientType
<1>4. after = [account EXCEPT !.cash_balance = @ - debit, !.positions[symbol] = entry]
  BY PurchaseLeaves DEF AccountBought
<1>5. after \in PortfolioType
  BY ExecuteAtomic
<1>6. /\ after.cash_balance = account.cash_balance - debit
      /\ after.realized_profit = account.realized_profit
      /\ after.positions[symbol] = entry
      /\ \A s \in Symbols : s # symbol => after.positions[s] = account.positions[s]
  <2> HIDE DEF entry, debit, after, symbol
  <2> QED
    BY <1>1, <1>4 DEF PortfolioType
<1>7. /\ IsFiniteSet(HeldSymbols(after))
      /\ Invested(account) \in Int /\ Invested(after) \in Int
      /\ Invested(after) - Invested(account) = BasisIn(after, symbol) - BasisIn(account, symbol)
  <2> HIDE DEF after, symbol
  <2> QED
    BY <1>1, <1>5, <1>6, InvestedChange
<1>8. /\ account.cash_balance \in Int /\ account.realized_profit \in Int
      /\ after.cash_balance \in Int
  BY <1>5 DEF PortfolioType
<1> DEFINE error == cost * n - debit
<1>9. error \in Int /\ 2 * error <= n /\ -2 * error <= n
  <2> HIDE DEF debit
  <2> QED
    BY <1>1, <1>2, QuotientError
<1>10. CASE ~Held(account, symbol)
  <2>1. entry = opened /\ entry # NoPosition
    <3>1. opened \in Position
      BY <1>1, <1>3 DEF Position
    <3> QED
      BY <1>10, <3>1, NoPositionAssumption
  <2>2. entry.quantity = n /\ entry.average_price = cost
    BY <2>1
  <2> HIDE DEF entry, cost, after, symbol
  <2>3. QuantityOf(after, symbol) = n /\ BasisIn(after, symbol) = n * cost
    BY <1>6, <2>1, <2>2 DEF BasisIn, CostBasis, QuantityOf, Held
  <2>4. BasisIn(account, symbol) = 0
    BY <1>10 DEF BasisIn
  <2>5. n * cost = error + debit
    BY <1>1, <1>2, <1>3 DEF Amount
  <2> HIDE DEF error
  <2>6. Invested(after) - Invested(account) = error + debit
    BY <1>2, <1>7, <1>9, <2>3, <2>4, <2>5
  <2>7. BookValue(after) - BookValue(account) = error
    BY <1>2, <1>6, <1>7, <1>8, <1>9, <2>6 DEF BookValue
  <2> QED
    BY <1>1, <1>7, <1>9, <2>3, <2>7 DEF after, symbol
<1>11. CASE Held(account, symbol)
  <2> DEFINE position == account.positions[symbol]
             q     == position.quantity
             paid  == position.average_price * q
             added == cost * n
             sum   == q + n
             price == Quotient(paid + added, sum)
  <2>1. position \in Position
    BY <1>1, <1>11, HeldPosition
  <2>2. q \in Nat \ {0} /\ paid \in Nat /\ added \in Nat /\ paid >= q /\ added >= n
    <3>1. position.average_price \in Nat \ {0} /\ q \in Nat \ {0}
      BY <2>1 DEF Position, Amount
    <3>2. paid \in Nat /\ paid >= q
      <4> DEFINE average == position.average_price
      <4>1. average \in Nat \ {0}
        BY <3>1
      <4> HIDE DEF average, q
      <4>2. average * q \in Nat /\ average * q >= q
        BY <3>1, <4>1
      <4> QED
        BY <4>2 DEF average, q
    <3>3. added \in Nat /\ added >= n
      BY <1>1, <1>3 DEF Amount
    <3> QED
      BY <3>1, <3>2, <3>3
  <2> HIDE DEF cost, after, symbol, paid, added
  <2>3. price \in Amount /\ sum \in Nat \ {0}
    <3>1. paid + added \in Nat /\ sum \in Nat \ {0}
      BY <1>1, <2>2
    <3> HIDE DEF sum
    <3> QED
      BY <3>1, QuotientType
  <2>4. entry.quantity = sum /\ entry.average_price = price /\ entry # NoPosition
    <3>1. entry = [position EXCEPT !.average_price = price, !.quantity = sum]
      BY <1>11 DEF add_purchase, paid, added
    <3> HIDE DEF entry, price, sum, position
    <3>2. entry \in Position /\ entry.quantity = sum /\ entry.average_price = price
      BY <2>1, <2>3, <3>1 DEF Position
    <3> QED
      BY <3>2, NoPositionAssumption
  <2> DEFINE error2 == price * sum - (paid + added)
  <2>5. error2 \in Int /\ 2 * error2 <= sum /\ -2 * error2 <= sum
    <3>1. paid + added \in Nat /\ sum \in Nat \ {0} /\ paid + added >= sum
      BY <1>1, <2>2
    <3> HIDE DEF sum
    <3> QED
      BY <3>1, QuotientError
  <2>6. price * sum \in Int /\ price * sum = sum * price
    <3> HIDE DEF price, sum
    <3> QED
      BY <2>3 DEF Amount
  <2> HIDE DEF entry
  <2>7. QuantityOf(after, symbol) = sum /\ BasisIn(after, symbol) = sum * price
    <3> HIDE DEF sum, price
    <3> QED
      BY <1>6, <2>4 DEF BasisIn, CostBasis, QuantityOf, Held
  <2>8. BasisIn(account, symbol) = paid
    <3>1. BasisIn(account, symbol) = q * position.average_price
      BY <1>11 DEF BasisIn, CostBasis, QuantityOf
    <3>2. position.average_price \in Nat
      BY <2>1 DEF Position, Amount
    <3> HIDE DEF position
    <3> QED
      BY <2>2, <3>1, <3>2 DEF paid
  <2> HIDE DEF sum, price
  <2>9. Invested(after) - Invested(account) = error2 + added
    BY <1>7, <2>2, <2>5, <2>6, <2>7, <2>8
  <2>10. added = error + debit
    BY <1>2, <2>2 DEF added
  <2> HIDE DEF error, error2
  <2>11. Invested(after) - Invested(account) = error2 + error + debit
    BY <1>2, <1>9, <2>5, <2>9, <2>10
  <2>12. BookValue(after) - BookValue(account) = error + error2
    BY <1>2, <1>6, <1>7, <1>8, <1>9, <2>5, <2>11 DEF BookValue
  <2>13. sum \in Int
    BY <1>1, <2>2 DEF sum
  <2>14. 2 * (error + error2) <= n + sum /\ -2 * (error + error2) <= n + sum
    BY <1>1, <1>9, <2>5, <2>13
  <2> QED
    BY <1>7, <2>7, <2>12, <2>14 DEF after, symbol
<1> QED
  BY <1>10, <1>11

\* A sale moves cost basis and result into cash, but for a unit for each share.
LEMMA SaleRounds ==
  ASSUME NEW order \in Order, NEW account \in PortfolioType, IsFiniteSet(HeldSymbols(account)),
         order.side = "sell", ~execute(order, account).raised
  PROVE  LET after  == execute(order, account).portfolio
             change == BookValue(after) - BookValue(account)
         IN  /\ IsFiniteSet(HeldSymbols(after))
             /\ 2 * change <= 2 * order.quantity /\ -2 * change <= 2 * order.quantity
<1> DEFINE symbol   == order.instrument.symbol
           n        == order.quantity
           position == account.positions[symbol]
           proceeds == total_value(order) - Fee
           price    == Quotient(proceeds, n)
           average  == position.average_price
           profit   == price * n - average * n
           left     == remove_sale(position, n)
           after    == execute(order, account).portfolio
<1>1. symbol \in Symbols /\ n \in Nat \ {0}
  BY InstrumentsAssumption DEF Order
<1>2. /\ after = [account EXCEPT !.cash_balance = @ + proceeds,
                    !.realized_profit = @ + profit, !.positions[symbol] = left]
      /\ proceeds \in Amount /\ Held(account, symbol) /\ n <= position.quantity
  BY SaleLeaves DEF AccountSold
<1>3. position \in Position
  BY <1>1, <1>2, HeldPosition
<1>4. position.quantity \in Nat \ {0} /\ average \in Nat
  BY <1>3 DEF Position, Amount
<1>5. after \in PortfolioType
  BY ExecuteAtomic
<1>6. /\ after.cash_balance = account.cash_balance + proceeds
      /\ after.realized_profit = account.realized_profit + profit
      /\ after.positions[symbol] = left
      /\ \A s \in Symbols : s # symbol => after.positions[s] = account.positions[s]
  <2> HIDE DEF left, profit, proceeds, after, symbol
  <2> QED
    BY <1>1, <1>2 DEF PortfolioType
<1>7. /\ IsFiniteSet(HeldSymbols(after))
      /\ Invested(account) \in Int /\ Invested(after) \in Int
      /\ Invested(after) - Invested(account) = BasisIn(after, symbol) - BasisIn(account, symbol)
  <2> HIDE DEF after, symbol
  <2> QED
    BY <1>1, <1>5, <1>6, InvestedChange
<1>8. /\ account.cash_balance \in Int /\ account.realized_profit \in Int
      /\ proceeds \in Nat
  BY <1>2 DEF PortfolioType, Amount
<1> DEFINE error == price * n - proceeds
<1>9. error \in Int /\ 2 * error <= 2 * n /\ -2 * error <= 2 * n
  <2> HIDE DEF proceeds
  <2> QED
    BY <1>1, <1>8, QuotientError
<1>10. BasisIn(account, symbol) = position.quantity * average
  BY <1>2 DEF BasisIn, CostBasis, QuantityOf
<1>11. BasisIn(after, symbol) = (position.quantity - n) * average
  <2>1. CASE n = position.quantity
    <3>1. left = NoPosition
      BY <2>1 DEF remove_sale
    <3>2. BasisIn(after, symbol) = 0
      <4> HIDE DEF after, left, symbol
      <4> QED
        BY <1>6, <3>1 DEF BasisIn, Held
    <3>3. position.quantity - n = 0 /\ 0 * average = 0
      BY <1>4, <2>1
    <3> QED
      BY <3>2, <3>3
  <2>2. CASE n # position.quantity
    <3>1. left = [position EXCEPT !.quantity = @ - n]
      BY <2>2 DEF remove_sale
    <3>2. left.quantity = position.quantity - n /\ left.average_price = average
      <4> HIDE DEF left, position
      <4> QED
        BY <1>3, <3>1 DEF Position, average
    <3>3. left \in Position
      <4>1. position.quantity - n \in Nat \ {0}
        BY <1>1, <1>2, <1>4, <2>2
      <4> HIDE DEF left, position
      <4> QED
        BY <1>3, <3>1, <4>1 DEF Position
    <3> HIDE DEF after, left, symbol, position, average
    <3> QED
      BY <1>6, <3>2, <3>3, NoPositionAssumption DEF BasisIn, CostBasis, QuantityOf, Held
  <2> QED
    BY <2>1, <2>2
<1> DEFINE sold == average * n
<1>12. /\ sold \in Int
       /\ (position.quantity - n) * average - position.quantity * average = -sold
       /\ position.quantity * average \in Int /\ (position.quantity - n) * average \in Int
  <2> HIDE DEF position, average
  <2> QED
    BY <1>1, <1>4
<1>13. Invested(after) - Invested(account) = -sold
  <2> HIDE DEF sold, position, average, after
  <2> QED
    BY <1>7, <1>10, <1>11, <1>12
<1>14. profit = error + proceeds - sold
  <2>1. price * n \in Int
    <3>1. price \in Amount
      <4> HIDE DEF proceeds
      <4> QED
        BY <1>1, <1>8, QuotientType
    <3> HIDE DEF price
    <3> QED
      BY <1>1, <3>1 DEF Amount
  <2> DEFINE product == price * n
  <2>2. product \in Int /\ profit = product - sold /\ error = product - proceeds
    BY <2>1
  <2> HIDE DEF product, profit, error, sold, proceeds
  <2> QED
    BY <1>8, <1>12, <2>2
<1> HIDE DEF profit, error, sold, proceeds, after
<1>15. BookValue(after) - BookValue(account) = -error
  BY <1>6, <1>7, <1>8, <1>9, <1>12, <1>13, <1>14 DEF BookValue
<1>16. 2 * (-error) <= 2 * n /\ -2 * (-error) <= 2 * n
  BY <1>1, <1>9
<1> QED
  BY <1>7, <1>15, <1>16 DEF after

\* An execution keeps the books, and any other step the account.
LEMMA ExecuteKeepsBooks ==
  ASSUME TypeOK, IsFiniteSet(HeldSymbols(portfolio)), NEW order \in Orders,
         NEW ctx \in PresentableContexts, NEW extra \in BOOLEAN, Execute(order, ctx, extra)
  PROVE  /\ IsFiniteSet(HeldSymbols(portfolio'))
         /\ LET change == BookValue(portfolio') - BookValue(portfolio)
                held   == QuantityOf(portfolio', order.instrument.symbol)
                shares == order.quantity + IF order.side = "buy" THEN held ELSE order.quantity
            IN  \/ transactions' = transactions /\ portfolio' = portfolio
                \/ /\ transactions' # transactions /\ Last(transactions').order = order
                   /\ 2 * change <= shares /\ -2 * change <= shares
<1> DEFINE outcome == execute(order, portfolio)
           record  == TransactionOf(order, portfolio, portfolio')
<1>1. /\ order \in Order /\ portfolio \in PortfolioType /\ transactions \in Seq(Transaction)
      /\ order.quantity \in Nat /\ order.side \in {"buy", "sell"}
  BY OrdersAssumption DEF TypeOK, Order, Sides
<1>2. CASE portfolio' = portfolio /\ transactions' = transactions
  BY <1>2
<1>3. CASE /\ ~outcome.raised /\ portfolio' = outcome.portfolio
           /\ transactions' = Append(transactions, record)
  <2>1. transactions' # transactions /\ Last(transactions') = record /\ record.order = order
    <3>1. record.order = order
      BY DEF TransactionOf
    <3> HIDE DEF record
    <3> QED
      BY <1>1, <1>3, <3>1 DEF Last
  <2>2. PICK after : after = portfolio'
    OBVIOUS
  <2>3. CASE order.side = "buy"
    <3>1. LET change == BookValue(after) - BookValue(portfolio)
              shares == order.quantity + QuantityOf(after, order.instrument.symbol)
          IN  /\ IsFiniteSet(HeldSymbols(after))
              /\ 2 * change <= shares /\ -2 * change <= shares
      BY <1>1, <1>3, <2>2, <2>3, PurchaseRounds
    <3> QED
      BY <2>1, <2>2, <2>3, <3>1
  <2>4. CASE order.side = "sell"
    <3>1. LET change == BookValue(after) - BookValue(portfolio)
          IN  /\ IsFiniteSet(HeldSymbols(after))
              /\ 2 * change <= 2 * order.quantity /\ -2 * change <= 2 * order.quantity
      BY <1>1, <1>3, <2>2, <2>4, SaleRounds
    <3>2. 2 * order.quantity = order.quantity + order.quantity
      BY <1>1
    <3> QED
      BY <2>1, <2>2, <2>4, <3>1, <3>2
  <2> QED
    BY <1>1, <2>3, <2>4
<1>4. \/ portfolio' = portfolio /\ transactions' = transactions
      \/ /\ ~outcome.raised /\ portfolio' = outcome.portfolio
         /\ transactions' = Append(transactions, record)
  <2>1. outcome.raised => outcome.portfolio = portfolio
    BY <1>1, ExecuteAtomic
  <2> HIDE DEF outcome, record
  <2> QED
    BY <2>1 DEF Execute, outcome, record
<1> QED
  BY <1>2, <1>3, <1>4

LEMMA FiniteInvariant == Spec => []IsFiniteSet(HeldSymbols(portfolio))
<1>1. Init => IsFiniteSet(HeldSymbols(portfolio))
  <2> SUFFICES ASSUME Init
               PROVE  IsFiniteSet(HeldSymbols(portfolio))
    OBVIOUS
  <2>1. HeldSymbols(portfolio) = {}
    BY DEF Init, HeldSymbols, Held
  <2> QED
    BY <2>1, FS_EmptySet
<1>2. TypeOK /\ IsFiniteSet(HeldSymbols(portfolio)) /\ [Next]_vars
        => IsFiniteSet(HeldSymbols(portfolio))'
  <2> SUFFICES ASSUME TypeOK, IsFiniteSet(HeldSymbols(portfolio)), [Next]_vars
               PROVE  IsFiniteSet(HeldSymbols(portfolio'))
    OBVIOUS
  <2>1. ASSUME NEW order \in Orders, NEW ctx \in PresentableContexts, NEW extra \in BOOLEAN,
               Execute(order, ctx, extra)
        PROVE  IsFiniteSet(HeldSymbols(portfolio'))
    BY <2>1, ExecuteKeepsBooks
  <2>2. CASE portfolio' = portfolio
    BY <2>2
  <2> QED
    BY <2>1, <2>2 DEF Next, vars, SetKillSwitch, MovePrice, StartDay
<1> QED
  BY <1>1, <1>2, TypeCorrect, PTL DEF Spec

\* The books balance for any prices, fees and quantities: an execution moves cash, cost
\* basis and realized profit against each other, and what is lost is what is rounded
\* (Position.add_purchase, portfolio.py 38-48; SimulatedBroker._execute_sell).
THEOREM BookValueKept == Spec => BookValueConserved
<1> DEFINE Kept ==
      LET change == BookValue(portfolio') - BookValue(portfolio)
          order  == Last(transactions').order
          held   == QuantityOf(portfolio', order.instrument.symbol)
          shares == order.quantity + IF order.side = "buy" THEN held ELSE order.quantity
      IN  IF transactions' = transactions
          THEN portfolio' = portfolio
          ELSE 2 * change <= shares /\ -2 * change <= shares
<1>1. TypeOK /\ IsFiniteSet(HeldSymbols(portfolio)) /\ [Next]_vars => [Kept]_vars
  <2> SUFFICES ASSUME TypeOK, IsFiniteSet(HeldSymbols(portfolio)), Next
               PROVE  Kept
    OBVIOUS
  <2>1. ASSUME NEW order \in Orders, NEW ctx \in PresentableContexts, NEW extra \in BOOLEAN,
               Execute(order, ctx, extra)
        PROVE  Kept
    BY <2>1, ExecuteKeepsBooks
  <2>2. CASE UNCHANGED <<portfolio, transactions>>
    BY <2>2
  <2> QED
    BY <2>1, <2>2 DEF Next, SetKillSwitch, MovePrice, StartDay
<1> QED
  BY <1>1, TypeCorrect, FiniteInvariant, PTL DEF Spec, BookValueConserved
=============================================================================
