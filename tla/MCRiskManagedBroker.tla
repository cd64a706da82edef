------------------------ MODULE MCRiskManagedBroker ------------------------
(* Instance values: two instruments that share a symbol, one in the other    *)
(* currency, and orders that reach every check of rules and broker.          *)
EXTENDS RiskManagedBroker

MCSymbols == {"A"}
Share    == [symbol |-> "A", name |-> "share",   currency |-> "EUR"]
Namesake == [symbol |-> "A", name |-> "namesake", currency |-> "EUR"]
Dollar   == [symbol |-> "A", name |-> "dollar",  currency |-> "USD"]
MCInstruments == {Share, Namesake, Dollar}

MCOrderIds == {1, 2, 3}
NewOrder(id, instrument, side, quantity, price) ==
  [order_id |-> id, instrument |-> instrument, side |-> side,
   quantity |-> quantity, price |-> price]
MCOrders ==
  {NewOrder(1, Share, "buy", 3, 100), NewOrder(2, Share, "buy", 1, 120),
   NewOrder(3, Share, "sell", 2, 100), NewOrder(1, Namesake, "buy", 1, 100),
   NewOrder(2, Dollar, "buy", 1, 100), NewOrder(3, Share, "sell", 1, 7),
   NewOrder(2, Share, "buy", 4, 100)}
MCPriceLevels == {79, 100, 120}
MCAnyFees == {0, 7}
=============================================================================
