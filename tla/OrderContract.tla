---------------------------- MODULE OrderContract ----------------------------
(***************************************************************************)
(* What the broker boundary promises about orders, whatever adapter stands *)
(* behind it (BrokerInterface, BrokerOrder in brokers/models.py and        *)
(* docs/decisions/0004): a client order id stands for at most one broker   *)
(* order, with the content it was first accepted with; the order is open   *)
(* until it is filled, cancelled or rejected, and final from then on; and  *)
(* it is executed exactly when it becomes filled.                          *)
(***************************************************************************)
EXTENDS Naturals, Sequences

CONSTANTS OrderIds, Orders, NoOrder

VARIABLES
  status,    \* of the broker order of each client order id
  content,   \* the order accepted under each id
  executed   \* the orders carried out, in that order

contractVars == <<status, content, executed>>

OrderStatus == {"none", "submitted", "filled", "cancelled", "rejected"}

ContractTypeOK ==
  /\ status \in [OrderIds -> OrderStatus]
  /\ content \in [OrderIds -> Orders \cup {NoOrder}]
  /\ executed \in Seq(Orders)

ContractInit ==
  /\ status = [id \in OrderIds |-> "none"]
  /\ content = [id \in OrderIds |-> NoOrder]
  /\ executed = <<>>

\* An adapter records a new order, open or already carried out.
Accept(order) ==
  /\ order.order_id \in OrderIds
  /\ status[order.order_id] = "none"
  /\ content' = [content EXCEPT ![order.order_id] = order]
  /\ \/ /\ status' = [status EXCEPT ![order.order_id] = "submitted"]
        /\ executed' = executed
     \/ /\ status' = [status EXCEPT ![order.order_id] = "filled"]
        /\ executed' = Append(executed, order)

Fill(id) ==
  /\ status[id] = "submitted"
  /\ status' = [status EXCEPT ![id] = "filled"]
  /\ executed' = Append(executed, content[id])
  /\ content' = content

Close(id) ==
  /\ status[id] = "submitted"
  /\ \E s \in {"cancelled", "rejected"} : status' = [status EXCEPT ![id] = s]
  /\ UNCHANGED <<content, executed>>

ContractNext ==
  \/ \E order \in Orders : Accept(order)
  \/ \E id \in OrderIds : Fill(id) \/ Close(id)

ContractSpec == ContractInit /\ [][ContractNext]_contractVars

-----------------------------------------------------------------------------

\* An id is executed at most once, and only under the content it stands for.
ExecutedOnce ==
  /\ \A i, j \in DOMAIN executed :
       executed[i].order_id = executed[j].order_id => i = j
  /\ \A i \in DOMAIN executed :
       LET id == executed[i].order_id
       IN  status[id] = "filled" /\ content[id] = executed[i]
=============================================================================
