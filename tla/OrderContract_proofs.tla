------------------------ MODULE OrderContract_proofs ------------------------
(***************************************************************************)
(* What every implementation of the broker boundary inherits from its      *)
(* contract: types, and that no client order id is ever executed twice.    *)
(***************************************************************************)
EXTENDS OrderContract, TLAPS

\* Neither the types nor ExecutedOnce are inductive without it: an execution takes
\* over the content the id was accepted with.
ContentKnown ==
  \A id \in OrderIds :
    status[id] # "none" => content[id] \in Orders /\ content[id].order_id = id

ContractInv == ContractTypeOK /\ ContentKnown /\ ExecutedOnce

LEMMA AcceptInv ==
  ASSUME ContractInv, NEW order \in Orders, Accept(order)
  PROVE  ContractInv'
<1> DEFINE id == order.order_id
<1>1. id \in OrderIds /\ ContractTypeOK
  BY DEF ContractInv, Accept
<1>2. status[id] = "none" /\ content' = [content EXCEPT ![id] = order]
  BY DEF Accept
<1>3. \A i \in DOMAIN executed : executed[i].order_id # id
  BY <1>2 DEF ContractInv, ExecutedOnce
<1>4. CASE status' = [status EXCEPT ![id] = "submitted"] /\ executed' = executed
  <2>1. ContractTypeOK' /\ ContentKnown'
    BY <1>1, <1>2, <1>4 DEF ContractInv, ContractTypeOK, ContentKnown, OrderStatus
  <2>2. ExecutedOnce'
    BY <1>1, <1>2, <1>3, <1>4 DEF ContractInv, ContractTypeOK, ExecutedOnce
  <2> QED
    BY <2>1, <2>2 DEF ContractInv
<1>5. CASE status' = [status EXCEPT ![id] = "filled"] /\ executed' = Append(executed, order)
  <2>1. ContractTypeOK' /\ ContentKnown'
    BY <1>1, <1>2, <1>5 DEF ContractInv, ContractTypeOK, ContentKnown, OrderStatus
  <2>2. /\ DOMAIN executed' = DOMAIN executed \cup {Len(executed) + 1}
        /\ executed'[Len(executed) + 1] = order
        /\ \A i \in DOMAIN executed : executed'[i] = executed[i]
    BY <1>1, <1>5 DEF ContractTypeOK
  <2>3. ExecutedOnce'
    BY <1>1, <1>2, <1>3, <1>5, <2>2 DEF ContractInv, ContractTypeOK, ExecutedOnce
  <2> QED
    BY <2>1, <2>3 DEF ContractInv
<1> QED
  BY <1>4, <1>5 DEF Accept

LEMMA FillInv ==
  ASSUME ContractInv, NEW id \in OrderIds, Fill(id)
  PROVE  ContractInv'
<1>1. ContractTypeOK /\ content[id] \in Orders /\ content[id].order_id = id
  BY DEF ContractInv, ContentKnown, Fill
<1>2. \A i \in DOMAIN executed : executed[i].order_id # id
  BY DEF ContractInv, ExecutedOnce, Fill
<1>3. ContractTypeOK' /\ ContentKnown'
  BY <1>1 DEF ContractInv, ContractTypeOK, ContentKnown, OrderStatus, Fill
<1>4. /\ DOMAIN executed' = DOMAIN executed \cup {Len(executed) + 1}
      /\ executed'[Len(executed) + 1] = content[id]
      /\ \A i \in DOMAIN executed : executed'[i] = executed[i]
  BY <1>1 DEF ContractTypeOK, Fill
<1>5. ExecutedOnce'
  BY <1>1, <1>2, <1>4 DEF ContractInv, ContractTypeOK, ExecutedOnce, Fill
<1> QED
  BY <1>3, <1>5 DEF ContractInv

LEMMA CloseInv ==
  ASSUME ContractInv, NEW id \in OrderIds, Close(id)
  PROVE  ContractInv'
<1>1. \A i \in DOMAIN executed : executed[i].order_id # id
  BY DEF ContractInv, ExecutedOnce, Close
<1>2. PICK s \in {"cancelled", "rejected"} : status' = [status EXCEPT ![id] = s]
  BY DEF Close
<1>3. UNCHANGED <<content, executed>> /\ status[id] = "submitted"
  BY DEF Close
<1>4. ContractTypeOK' /\ ContentKnown'
  BY <1>2, <1>3 DEF ContractInv, ContractTypeOK, ContentKnown, OrderStatus
<1>5. ExecutedOnce'
  BY <1>1, <1>2, <1>3 DEF ContractInv, ContractTypeOK, ExecutedOnce
<1> QED
  BY <1>4, <1>5 DEF ContractInv

LEMMA ContractInvariant == ContractSpec => []ContractInv
<1>1. ContractInit => ContractInv
  BY DEF ContractInit, ContractInv, ContractTypeOK, ContentKnown, ExecutedOnce, OrderStatus
<1>2. ContractInv /\ [ContractNext]_contractVars => ContractInv'
  <2>1. CASE UNCHANGED contractVars
    BY <2>1 DEF contractVars, ContractInv, ContractTypeOK, ContentKnown, ExecutedOnce
  <2> QED
    BY <2>1, AcceptInv, FillInv, CloseInv DEF ContractNext
<1> QED
  BY <1>1, <1>2, PTL DEF ContractSpec

\* The contract keeps its types.
THEOREM ContractTypeCorrect == ContractSpec => []ContractTypeOK
<1>1. ContractInv => ContractTypeOK
  BY DEF ContractInv
<1> QED
  BY <1>1, ContractInvariant, PTL

\* No client order id is executed twice, nor with a content it was not accepted with:
\* the promise that a lost answer may be followed by a retry (docs/architecture.md 90-92).
THEOREM NoDoubleExecution == ContractSpec => []ExecutedOnce
<1>1. ContractInv => ExecutedOnce
  BY DEF ContractInv
<1> QED
  BY <1>1, ContractInvariant, PTL
=============================================================================
