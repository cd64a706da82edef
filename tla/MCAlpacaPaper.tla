---------------------------- MODULE MCAlpacaPaper ----------------------------
(* Instance values: an order, another content under its id, a second order.  *)
EXTENDS AlpacaPaper, TLC

MCOrderIds == {1, 2}
MCOrders == {[order_id |-> 1, quantity |-> 1], [order_id |-> 1, quantity |-> 2],
             [order_id |-> 2, quantity |-> 1]}
MCSymmetry == Permutations(Clients)
=============================================================================
