------------------------------- MODULE MCMain -------------------------------
(* Instance values.  Backtest: one share, prices that treble, a fee as high  *)
(* as what a single share brings in at the lowest price, and for the         *)
(* benchmark fees around the cash.  First order: quotes and balances around  *)
(* the limits of 500 and of one per cent.                                    *)
EXTENDS Main, TLC

Share == [symbol |-> "A", currency |-> "EUR"]
MCSymbols == {"A"}
MCInstruments == {Share}
MCPrices == {10, 20, 30}
MCBenchmarkFees == {0, 9, 91, 100, 101, 111, 140}
MCOrderIds == 1..4
MCOrders ==
  [order_id : MCOrderIds, instrument : {Share}, side : Sides, quantity : 1..9,
   price : {9, 11, 18, 22, 27, 33}]
MCQuotes == {300, 500, 501}
MCBalances == {0, 49999, 50000}
MCSymmetry == Permutations(Threads) \cup Permutations(Consoles)
=============================================================================
