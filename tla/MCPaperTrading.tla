--------------------------- MODULE MCPaperTrading ---------------------------
(* Instance values: a purchase, another content under its id, a second       *)
(* purchase that exceeds what is left after the first, and a sale.           *)
EXTENDS PaperTrading, TLC

MCSymbols == {"A"}
Share == [symbol |-> "A", currency |-> "EUR"]
Dollar == [symbol |-> "A", currency |-> "USD"]
MCInstruments == {Share, Dollar}
MCOrderIds == {1, 2, 3}
NewOrder(id, instrument, side, quantity, price) ==
  [order_id |-> id, instrument |-> instrument, side |-> side,
   quantity |-> quantity, price |-> price]
MCOrders ==
  {NewOrder(1, Share, "buy", 3, 100), NewOrder(1, Share, "buy", 1, 100),
   NewOrder(2, Share, "buy", 3, 100), NewOrder(3, Share, "sell", 2, 100)}
MCMarketPrices == [s \in MCSymbols |-> 100]
MCSymmetry == Permutations(Clients)
MCModes == {"simulation", "paper"}
MCPaperOnly == {"paper"}
=============================================================================
