---------------------------- MODULE MCBrokerSync ----------------------------
(* Instance values: a share bought and sold, two shares of another bought.   *)
EXTENDS BrokerSync

MCQuantity == <<1, 1, 2>>
MCSaleOf == <<0, 1, 0>>
=============================================================================
