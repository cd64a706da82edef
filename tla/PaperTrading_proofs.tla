------------------------- MODULE PaperTrading_proofs -------------------------
(***************************************************************************)
(* What holds of the asynchronous order path for every number of clients,  *)
(* orders, calls and attempts, both adapters, any policy and any account.  *)
(***************************************************************************)
EXTENDS PaperTrading, SimulatedBroker_proofs, SequenceTheorems

(***************************************************************************)
(* TypeOK is not inductive: it does not say that a submission carries an   *)
(* order, or that a call which waits for its verdict carries a context.    *)
(***************************************************************************)
CallsCarryTheirData ==
  \A c \in Clients :
    /\ call[c].op = "submit" => call[c].order \in Orders
    /\ pc[c] = "judge" => call[c].op = "submit" /\ call[c].context \in RiskContext

TypeInv == TypeOK /\ CallsCarryTheirData

ClientsOK ==
  /\ pc \in [Clients -> {"idle", "judge", "attempt", "sweep"}]
  /\ call \in [Clients -> Call]
  /\ CallsCarryTheirData

\* Reading and replacing one entry of a sequence.
LEMMA EntryOf ==
  ASSUME NEW T, NEW s \in Seq(T), NEW i \in DOMAIN s
  PROVE  s[i] \in T
  BY ElementOfSeq

LEMMA ReplaceEntry ==
  ASSUME NEW T, NEW s \in Seq(T), NEW i \in DOMAIN s, NEW e \in T
  PROVE  [s EXCEPT ![i] = e] \in Seq(T)
  BY ExceptSeq

\* A client that starts a call with the data the call needs is well formed.
LEMMA StartKeepsClients ==
  ASSUME ClientsOK, NEW c \in Clients, NEW next \in {"judge", "attempt"}, NEW started \in Call,
         started.op = "submit" => started.order \in Orders,
         next = "judge" => started.op = "submit" /\ started.context \in RiskContext,
         Start(c, next, started)
  PROVE  ClientsOK'
  BY DEF ClientsOK, CallsCarryTheirData, Start

\* A client whose call ends or is tried again stays well formed.
LEMMA FinishKeepsClients ==
  ASSUME ClientsOK, NEW c \in Clients, NEW result \in Results, Finish(c, result)
  PROVE  ClientsOK'
<1> DEFINE ended == [call[c] EXCEPT !.result = result, !.context = NoContext, !.attempts = 0]
<1>1. call[c] \in Call
  BY DEF ClientsOK
<1>2. ended \in Call /\ ended.op = call[c].op /\ ended.order = call[c].order
  BY <1>1 DEF Call
<1>3. pc' = [pc EXCEPT ![c] = "idle"] /\ call' = [call EXCEPT ![c] = ended]
  BY <1>1 DEF Finish, ClientsOK
<1> HIDE DEF ended
<1> QED
  BY <1>2, <1>3 DEF ClientsOK, CallsCarryTheirData

LEMMA FailedAttemptKeepsClients ==
  ASSUME ClientsOK, NEW c \in Clients, FailedAttempt(c)
  PROVE  ClientsOK'
<1>1. CASE call[c].attempts + 1 < MaxAttempts
  BY <1>1 DEF FailedAttempt, ClientsOK, CallsCarryTheirData, Call
<1>2. CASE ~(call[c].attempts + 1 < MaxAttempts)
  BY <1>2, FinishKeepsClients DEF FailedAttempt, Results
<1> QED
  BY <1>1, <1>2

LEMMA AnswerKeepsClients ==
  ASSUME ClientsOK, NEW c \in Clients, NEW result \in Results, Answer(c, result)
  PROVE  ClientsOK'
  BY FinishKeepsClients, FailedAttemptKeepsClients DEF Answer

\* The order under an id is found when there is one.
LEMMA PlaceFound ==
  ASSUME NEW orders, NEW id
  PROVE  LET i == PlaceIn(orders, id)
         IN  \/ i = 0 /\ \A k \in DOMAIN orders : orders[k].order.order_id # id
             \/ i \in DOMAIN orders /\ orders[i].order.order_id = id
<1>1. CASE \E i \in DOMAIN orders : orders[i].order.order_id = id
  <2>1. PlaceIn(orders, id) = CHOOSE i \in DOMAIN orders : orders[i].order.order_id = id
    BY <1>1 DEF PlaceIn
  <2> QED
    BY <1>1, <2>1
<1>2. CASE ~\E i \in DOMAIN orders : orders[i].order.order_id = id
  BY <1>2 DEF PlaceIn
<1> QED
  BY <1>1, <1>2

LEMMA ExistingFound ==
  ASSUME NEW id
  PROVE  \/ Existing(id) = 0 /\ \A i \in DOMAIN book : book[i].order.order_id # id
         \/ Existing(id) \in DOMAIN book /\ book[Existing(id)].order.order_id = id
  BY PlaceFound DEF Existing
-----------------------------------------------------------------------------
(* Type correctness. *)

LEMMA InitTypeInv == Init => TypeInv
<1> SUFFICES ASSUME Init
             PROVE  TypeInv
  OBVIOUS
<1>1. portfolio \in PortfolioType
  BY AccountAssumption DEF Init, PortfolioType, Amount
<1>2. call \in [Clients -> Call] /\ CallsCarryTheirData
  BY DEF Init, NoCall, Call, Results, CallsCarryTheirData
<1>3. /\ transactions \in Seq(Transaction)
      /\ book \in Seq(BrokerOrder)
      /\ audit_log \in Seq(RiskAssessment)
  BY DEF Init
<1>4. pc \in [Clients -> {"idle", "judge", "attempt", "sweep"}]
  BY DEF Init
<1>5. mode \in Modes /\ connected \in BOOLEAN /\ kill_switch \in BOOLEAN
  BY DEF Init
<1>6. sweep \in Nat /\ calls \in 0..MaxCalls
  BY BoundsAssumption DEF Init
<1> QED
  BY <1>1, <1>2, <1>3, <1>4, <1>5, <1>6 DEF TypeInv, TypeOK

\* The account and the log once an order has been executed.
LEMMA RecordType ==
  ASSUME TypeOK, NEW order \in Orders, NEW after \in PortfolioType, Record(order, after)
  PROVE  transactions' \in Seq(Transaction)
  BY TransactionOfType DEF TypeOK, Record

LEMMA ExecuteType ==
  ASSUME TypeOK, NEW order \in Orders
  PROVE  execute(order, portfolio).portfolio \in PortfolioType
  BY OrdersAssumption, ExecuteAtomic DEF TypeOK

LEMMA EntryTypes ==
  ASSUME TypeOK, NEW order \in Orders
  PROVE  Submitted(order) \in BrokerOrder /\ Filled(order) \in BrokerOrder
  BY DEF TypeOK, Submitted, Filled, BrokerOrder

LEMMA JudgeTypeInv ==
  ASSUME TypeInv, NEW c \in Clients, Judge(c)
  PROVE  TypeInv'
<1> DEFINE approved == Approved(call[c].order, call[c].context, portfolio, kill_switch, TRUE)
<1>1. call[c].order \in Orders
  BY DEF TypeInv, CallsCarryTheirData, Judge
<1>2. audit_log' \in Seq(RiskAssessment)
  <2>1. approved \in BOOLEAN
    BY Zenon DEF Approved
  <2>2. call[c].order.order_id \in OrderIds
    BY <1>1, OrdersAssumption DEF Order
  <2>3. [order_id |-> call[c].order.order_id, approved |-> approved] \in RiskAssessment
    <3> HIDE DEF approved
    <3> QED
      BY <2>1, <2>2 DEF RiskAssessment
  <2> QED
    BY <2>3 DEF TypeInv, TypeOK, Judge, Log
<1>3. ClientsOK'
  <2>1. CASE approved
    <3>1. /\ pc' = [pc EXCEPT ![c] = "attempt"]
          /\ call' = [call EXCEPT ![c].context = NoContext]
      BY <2>1 DEF Judge
    <3> QED
      BY <3>1 DEF TypeInv, TypeOK, CallsCarryTheirData, ClientsOK, Call
  <2>2. CASE ~approved
    BY <2>2, FinishKeepsClients
    DEF TypeInv, TypeOK, Judge, ClientsOK, Results
  <2> QED
    BY <2>1, <2>2
<1> QED
  BY <1>2, <1>3 DEF TypeInv, TypeOK, ClientsOK, Judge, adapter

LEMMA HandleSubmitTypeInv ==
  ASSUME TypeInv, NEW c \in Clients, HandleSubmit(c)
  PROVE  TypeInv'
<1> DEFINE order == call[c].order
           i == Existing(order.order_id)
           outcome == execute(order, portfolio)
<1>1. order \in Orders
  BY DEF TypeInv, CallsCarryTheirData, HandleSubmit
<1>2. TypeOK /\ ClientsOK
  BY DEF TypeInv, TypeOK, ClientsOK
<1>3. CASE UNCHANGED <<account, book>> /\ \E result \in Results : Answer(c, result)
  <2>1. ClientsOK'
    BY <1>2, <1>3, AnswerKeepsClients
  <2> QED
    BY <1>2, <1>3, <2>1 DEF TypeInv, TypeOK, ClientsOK, HandleSubmit, account
<1>4. CASE SubmitSimulation(c, order)
  <2>1. ClientsOK'
    BY <1>2, <1>4, AnswerKeepsClients DEF SubmitSimulation, Results
  <2>2. portfolio' \in PortfolioType
    BY <1>1, <1>2, <1>4, ExecuteType DEF SubmitSimulation
  <2>3. transactions' \in Seq(Transaction) /\ book' \in Seq(BrokerOrder)
    <3>1. CASE outcome.raised
      BY <1>2, <1>4, <3>1 DEF SubmitSimulation, TypeOK
    <3>2. CASE ~outcome.raised
      <4>1. Record(order, outcome.portfolio) /\ book' = Append(book, Filled(order))
        BY <1>4, <3>2 DEF SubmitSimulation
      <4>2. transactions' \in Seq(Transaction)
        BY <1>1, <1>2, <4>1, ExecuteType, RecordType
      <4>3. Filled(order) \in BrokerOrder
        BY <1>1, <1>2, EntryTypes
      <4> QED
        BY <1>2, <4>1, <4>2, <4>3 DEF TypeOK
    <3> QED
      BY <3>1, <3>2
  <2> QED
    BY <1>2, <2>1, <2>2, <2>3 DEF TypeInv, TypeOK, ClientsOK, HandleSubmit
<1>5. CASE SubmitPaper(c, order)
  <2>1. ClientsOK'
    BY <1>2, <1>5, AnswerKeepsClients DEF SubmitPaper, Results
  <2>2. book' \in Seq(BrokerOrder)
    BY <1>1, <1>2, <1>5, EntryTypes DEF SubmitPaper, TypeOK
  <2> QED
    BY <1>2, <1>5, <2>1, <2>2
    DEF TypeInv, TypeOK, ClientsOK, HandleSubmit, SubmitPaper, account
<1> QED
  BY <1>3, <1>4, <1>5 DEF HandleSubmit, ExistingAnswer, Results

LEMMA HandleCancelTypeInv ==
  ASSUME TypeInv, NEW c \in Clients, HandleCancel(c)
  PROVE  TypeInv'
<1> DEFINE i == Existing(call[c].order.order_id)
<1>1. TypeOK /\ ClientsOK
  BY DEF TypeInv, TypeOK, ClientsOK
<1>2. ClientsOK'
  BY <1>1, AnswerKeepsClients DEF HandleCancel, Results
<1>3. book' \in Seq(BrokerOrder)
  <2>1. CASE book' = [book EXCEPT ![i].status = "cancelled"] /\ i # 0
    <3>1. i \in DOMAIN book
      BY <2>1, ExistingFound
    <3>2. [book[i] EXCEPT !.status = "cancelled"] \in BrokerOrder
      <4>1. book[i] \in BrokerOrder
        BY <1>1, <3>1, EntryOf DEF TypeOK
      <4> QED
        BY <4>1 DEF BrokerOrder
    <3> QED
      BY <1>1, <2>1, <3>1, <3>2, ReplaceEntry DEF TypeOK
  <2>2. CASE book' = book
    BY <1>1, <2>2 DEF TypeOK
  <2> QED
    BY <2>1, <2>2 DEF HandleCancel
<1> QED
  BY <1>1, <1>2, <1>3 DEF TypeInv, TypeOK, ClientsOK, HandleCancel, account

LEMMA SweepTypeInv ==
  ASSUME TypeInv, NEW c \in Clients, Sweep(c)
  PROVE  TypeInv'
<1> DEFINE entry == book[sweep]
           outcome == execute(entry.order, portfolio)
<1>1. TypeOK
  BY DEF TypeInv
<1>2. sweep \in DOMAIN book /\ entry \in BrokerOrder /\ entry.order \in Orders
  <2>1. sweep \in DOMAIN book
    BY DEF Sweep
  <2>2. entry \in BrokerOrder
    BY <1>1, <2>1, EntryOf DEF TypeOK
  <2> QED
    BY <2>1, <2>2 DEF BrokerOrder
<1>3. CASE entry.status # "submitted"
  BY <1>3 DEF TypeInv, TypeOK, CallsCarryTheirData, Sweep, account
<1>4. CASE entry.status = "submitted"
  <2>1. portfolio' \in PortfolioType
    BY <1>1, <1>2, <1>4, ExecuteType DEF Sweep
  <2>2. book' \in Seq(BrokerOrder)
    <3>1. [entry EXCEPT !.status = "rejected"] \in BrokerOrder
      BY <1>2 DEF BrokerOrder
    <3>2. Filled(entry.order) \in BrokerOrder
      BY <1>1, <1>2, EntryTypes
    <3> QED
      <4>1. CASE book' = [book EXCEPT ![sweep].status = "rejected"]
        BY <1>1, <1>2, <3>1, <4>1, ReplaceEntry DEF TypeOK
      <4>2. CASE book' = [book EXCEPT ![sweep] = Filled(entry.order)]
        BY <1>1, <1>2, <3>2, <4>2, ReplaceEntry DEF TypeOK
      <4> QED
        BY <1>4, <4>1, <4>2 DEF Sweep
  <2>3. transactions' \in Seq(Transaction)
    BY <1>1, <1>2, <1>4, <2>1, RecordType DEF Sweep, TypeOK
  <2> QED
    BY <2>1, <2>2, <2>3 DEF TypeInv, TypeOK, CallsCarryTheirData, Sweep
<1> QED
  BY <1>3, <1>4

LEMMA NextTypeInv == TypeInv /\ [Next]_vars => TypeInv'
<1> SUFFICES ASSUME TypeInv, [Next]_vars
             PROVE  TypeInv'
  OBVIOUS
<1> USE DEF TypeInv
<1>0. ASSUME NEW c \in Clients, NEW next \in {"judge", "attempt"}, NEW started \in Call,
             started.op = "submit" => started.order \in Orders,
             next = "judge" => started.op = "submit" /\ started.context \in RiskContext,
             Start(c, next, started)
      PROVE  TypeInv'
  <2>1. ClientsOK'
    BY <1>0, StartKeepsClients DEF TypeOK, ClientsOK
  <2> QED
    BY <1>0, <2>1, BoundsAssumption DEF Start, TypeOK, ClientsOK, adapter
<1>1. ASSUME NEW c \in Clients, NEW order \in Orders, BuildContext(c, order)
      PROVE  TypeInv'
  <2> DEFINE context == ContextFor(portfolio, DayStartEquity, MarketPrices, Fee)
             started == [NoCall EXCEPT !.op = "submit", !.order = order,
                                       !.context = context, !.result = "pending"]
  <2>1. context \in RiskContext /\ Start(c, "judge", started)
    BY <1>1 DEF BuildContext, ValidContext
  <2> HIDE DEF context
  <2>2. started \in Call /\ started.op = "submit"
        /\ started.order \in Orders /\ started.context \in RiskContext
    BY <2>1 DEF NoCall, Call, Results
  <2> HIDE DEF started
  <2> QED
    BY <1>0, <2>1, <2>2
<1>2. ASSUME NEW c \in Clients, NEW order \in Orders, CallCancel(c, order)
      PROVE  TypeInv'
  <2> DEFINE started == [NoCall EXCEPT !.op = "cancel", !.order = order, !.result = "pending"]
  <2>1. started \in Call /\ started.op = "cancel"
    BY DEF NoCall, Call, Results
  <2>2. Start(c, "attempt", started)
    BY <1>2 DEF CallCancel
  <2> HIDE DEF started
  <2> QED
    BY <1>0, <2>1, <2>2
<1>3. ASSUME NEW c \in Clients, CallReconcile(c)
      PROVE  TypeInv'
  <2> DEFINE started == [NoCall EXCEPT !.op = "reconcile", !.result = "pending"]
  <2>1. started \in Call /\ started.op = "reconcile"
    BY DEF NoCall, Call, Results
  <2>2. Start(c, "attempt", started)
    BY <1>3 DEF CallReconcile
  <2> HIDE DEF started
  <2> QED
    BY <1>0, <2>1, <2>2
<1>4. ASSUME NEW c \in Clients, Judge(c)
      PROVE  TypeInv'
  BY <1>4, JudgeTypeInv
<1>5. ASSUME NEW c \in Clients, RequestLost(c)
      PROVE  TypeInv'
  <2>1. ClientsOK'
    BY <1>5, FailedAttemptKeepsClients DEF RequestLost, TypeOK, ClientsOK
  <2> QED
    BY <1>5, <2>1 DEF RequestLost, TypeOK, ClientsOK, adapter
<1>6. ASSUME NEW c \in Clients, HandleSubmit(c)
      PROVE  TypeInv'
  BY <1>6, HandleSubmitTypeInv
<1>7. ASSUME NEW c \in Clients, HandleCancel(c)
      PROVE  TypeInv'
  BY <1>7, HandleCancelTypeInv
<1>8. ASSUME NEW c \in Clients, HandleReconcile(c)
      PROVE  TypeInv'
  <2>1. CASE connected /\ mode = "paper"
    BY <1>8, <2>1 DEF HandleReconcile, TypeOK, CallsCarryTheirData, adapter
  <2>2. CASE ~(connected /\ mode = "paper")
    <3>1. ClientsOK'
      BY <1>8, <2>2, AnswerKeepsClients DEF HandleReconcile, TypeOK, ClientsOK, Results
    <3> QED
      BY <1>8, <2>2, <3>1 DEF HandleReconcile, TypeOK, ClientsOK, adapter
  <2> QED
    BY <2>1, <2>2
<1>9. ASSUME NEW c \in Clients, Sweep(c)
      PROVE  TypeInv'
  BY <1>9, SweepTypeInv
<1>10. ASSUME NEW c \in Clients, EndSweep(c)
       PROVE  TypeInv'
  <2>1. ClientsOK'
    BY <1>10, AnswerKeepsClients DEF EndSweep, TypeOK, ClientsOK, Results
  <2> QED
    BY <1>10, <2>1 DEF EndSweep, TypeOK, ClientsOK, adapter
<1>11. ASSUME NEW b \in BOOLEAN, SetKillSwitch(b) \/ set_connected(b)
       PROVE  TypeInv'
  BY <1>11 DEF SetKillSwitch, set_connected, TypeOK, CallsCarryTheirData, adapter, account
<1>12. CASE UNCHANGED vars
  BY <1>12 DEF vars, TypeOK, CallsCarryTheirData
<1> QED
  BY <1>1, <1>2, <1>3, <1>4, <1>5, <1>6, <1>7, <1>8, <1>9, <1>10, <1>11, <1>12
  DEF Next, Begin, Proceed

LEMMA TypeInvInvariant == Spec => []TypeInv
  BY InitTypeInv, NextTypeInv, PTL DEF Spec

\* Every variable keeps its type, whatever fails and however calls interleave: in
\* particular the cash never becomes negative and no position is empty.
THEOREM TypeCorrect == Spec => []TypeOK
<1>1. TypeInv => TypeOK
  BY DEF TypeInv
<1> QED
  BY <1>1, TypeInvInvariant, PTL
-----------------------------------------------------------------------------
(***************************************************************************)
(* How one step may change the book and the log of executions: a new id is *)
(* accepted, open or executed; an open order is closed; an open order is   *)
(* executed.  The invariants below and the contract are about nothing      *)
(* else, so each is proved over these shapes and not over the actions.     *)
(***************************************************************************)
Executes(order) == \E t \in Transaction : t.order = order /\ transactions' = Append(transactions, t)

AcceptsOpen(order) ==
  /\ Existing(order.order_id) = 0
  /\ book' = Append(book, Submitted(order))
  /\ transactions' = transactions

AcceptsFilled(order) ==
  /\ Existing(order.order_id) = 0
  /\ book' = Append(book, Filled(order))
  /\ Executes(order)

Closes(i, s) ==
  /\ book[i].status = "submitted"
  /\ book' = [book EXCEPT ![i] = [book[i] EXCEPT !.status = s]]
  /\ transactions' = transactions

Fills(i) ==
  /\ book[i].status = "submitted"
  /\ book' = [book EXCEPT ![i] = Filled(book[i].order)]
  /\ Executes(book[i].order)

Accepts(order) == AcceptsOpen(order) \/ AcceptsFilled(order)

Settles ==
  \E i \in DOMAIN book : Fills(i) \/ \E s \in {"cancelled", "rejected"} : Closes(i, s)

BookStep ==
  \/ UNCHANGED <<book, transactions>>
  \/ \E order \in Orders : Accepts(order)
  \/ Settles

LEMMA RecordExecutes ==
  ASSUME TypeOK, NEW order \in Orders,
         Record(order, execute(order, portfolio).portfolio)
  PROVE  Executes(order)
<1> DEFINE t == TransactionOf(order, portfolio, execute(order, portfolio).portfolio)
<1>1. t \in Transaction
  BY ExecuteType, TransactionOfType DEF TypeOK
<1>2. t.order = order /\ transactions' = Append(transactions, t)
  BY DEF Record, TransactionOf
<1> QED
  BY <1>1, <1>2 DEF Executes

LEMMA HandleSubmitBook ==
  ASSUME TypeInv, NEW c \in Clients, HandleSubmit(c)
  PROVE  LET order == call[c].order
         IN  /\ order \in Orders
             /\ \/ UNCHANGED <<book, transactions>>
                \/ Accepts(order)
<1> DEFINE order == call[c].order
           outcome == execute(order, portfolio)
<1>1. order \in Orders /\ TypeOK
  BY DEF TypeInv, CallsCarryTheirData, HandleSubmit
<1>2. CASE UNCHANGED <<account, book>>
  BY <1>1, <1>2 DEF account
<1>3. CASE Existing(order.order_id) = 0 /\ SubmitSimulation(c, order)
  <2>1. CASE outcome.raised
    BY <1>1, <1>3, <2>1 DEF SubmitSimulation
  <2>2. CASE ~outcome.raised
    <3>1. Record(order, outcome.portfolio) /\ book' = Append(book, Filled(order))
      BY <1>3, <2>2 DEF SubmitSimulation
    <3>2. Executes(order)
      BY <1>1, <3>1, RecordExecutes
    <3> QED
      BY <1>1, <1>3, <3>1, <3>2 DEF Accepts, AcceptsFilled
  <2> QED
    BY <2>1, <2>2
<1>4. CASE Existing(order.order_id) = 0 /\ SubmitPaper(c, order)
  BY <1>1, <1>4 DEF SubmitPaper, Accepts, AcceptsOpen, account
<1> QED
  BY <1>2, <1>3, <1>4 DEF HandleSubmit

LEMMA HandleCancelBook ==
  ASSUME TypeInv, NEW c \in Clients, HandleCancel(c)
  PROVE  UNCHANGED <<book, transactions>> \/ Settles
<1> DEFINE i == Existing(call[c].order.order_id)
<1>1. transactions' = transactions
  BY DEF HandleCancel, account
<1>2. CASE book' = book
  BY <1>1, <1>2
<1>3. CASE /\ i # 0 /\ book[i].status = "submitted"
           /\ book' = [book EXCEPT ![i].status = "cancelled"]
  <2>1. i \in DOMAIN book
    BY <1>3, ExistingFound
  <2>2. Closes(i, "cancelled")
    BY <1>1, <1>3 DEF Closes
  <2> QED
    BY <2>1, <2>2 DEF Settles
<1> QED
  BY <1>2, <1>3 DEF HandleCancel

LEMMA SweepBook ==
  ASSUME TypeInv, NEW c \in Clients, Sweep(c)
  PROVE  UNCHANGED <<book, transactions>> \/ Settles
<1> DEFINE entry == book[sweep]
           outcome == execute(entry.order, portfolio)
<1>1. TypeOK /\ sweep \in DOMAIN book
  BY DEF TypeInv, Sweep
<1>2. entry.order \in Orders
  <2>1. entry \in BrokerOrder
    BY <1>1, EntryOf DEF TypeOK
  <2> QED
    BY <2>1 DEF BrokerOrder
<1>3. CASE entry.status # "submitted"
  BY <1>3 DEF Sweep, account
<1>4. CASE entry.status = "submitted"
  <2>1. CASE outcome.raised
    <3>1. Closes(sweep, "rejected")
      BY <1>4, <2>1 DEF Sweep, Closes
    <3> QED
      BY <1>1, <3>1 DEF Settles
  <2>2. CASE ~outcome.raised
    <3>1. /\ book' = [book EXCEPT ![sweep] = Filled(entry.order)]
          /\ Record(entry.order, outcome.portfolio)
      BY <1>4, <2>2 DEF Sweep
    <3>2. Executes(entry.order)
      BY <1>1, <1>2, <3>1, RecordExecutes
    <3>3. Fills(sweep)
      BY <1>4, <3>1, <3>2 DEF Fills
    <3> QED
      BY <1>1, <3>3 DEF Settles
  <2> QED
    BY <2>1, <2>2
<1> QED
  BY <1>3, <1>4

LEMMA NextBookStep == TypeInv /\ [Next]_vars => BookStep
<1> SUFFICES ASSUME TypeInv, [Next]_vars
             PROVE  BookStep
  OBVIOUS
<1>1. ASSUME NEW c \in Clients, Begin(c)
      PROVE  UNCHANGED <<book, transactions>>
  BY <1>1 DEF Begin, BuildContext, CallCancel, CallReconcile, Start, adapter
<1>2. ASSUME NEW c \in Clients, Judge(c) \/ RequestLost(c) \/ HandleReconcile(c) \/ EndSweep(c)
      PROVE  UNCHANGED <<book, transactions>>
  BY <1>2 DEF Judge, RequestLost, HandleReconcile, EndSweep, adapter
<1>3. ASSUME NEW b \in BOOLEAN, SetKillSwitch(b) \/ set_connected(b)
      PROVE  UNCHANGED <<book, transactions>>
  BY <1>3 DEF SetKillSwitch, set_connected, adapter, account
<1>4. CASE UNCHANGED vars
  BY <1>4 DEF vars, BookStep
<1>5. ASSUME NEW c \in Clients, HandleSubmit(c)
      PROVE  BookStep
  BY <1>5, HandleSubmitBook DEF BookStep
<1>6. ASSUME NEW c \in Clients, HandleCancel(c) \/ Sweep(c)
      PROVE  BookStep
  BY <1>6, HandleCancelBook, SweepBook DEF BookStep
<1> QED
  BY <1>1, <1>2, <1>3, <1>4, <1>5, <1>6 DEF Next, Proceed, BookStep
-----------------------------------------------------------------------------
(* The book and the log of executions match.  This one is inductive as it   *)
(* stands, given the types: an open order names no execution, so closing or *)
(* filling it takes no transaction away from another order.                 *)

LEMMA AppendKeepsMatch ==
  ASSUME TypeOK, ExecutionsMatchBook, NEW order \in Orders, Accepts(order)
  PROVE  ExecutionsMatchBook'
<1> DEFINE n == Len(book) + 1
           last == Len(transactions) + 1
<1>1. /\ book \in Seq(BrokerOrder)
      /\ transactions \in Seq(Transaction)
  BY DEF TypeOK
<1>2. CASE AcceptsOpen(order)
  <2>1. /\ DOMAIN book' = DOMAIN book \cup {n} /\ n \notin DOMAIN book
        /\ \A i \in DOMAIN book : book'[i] = book[i]
        /\ book'[n] = Submitted(order)
        /\ transactions' = transactions
    BY <1>1, <1>2 DEF AcceptsOpen
  <2>2. book'[n].status = "submitted" /\ book'[n].execution = 0
    BY <2>1 DEF Submitted
  <2>3. 0 \notin DOMAIN transactions
    BY <1>1
  <2> HIDE DEF n
  <2> QED
    BY <2>1, <2>2, <2>3 DEF ExecutionsMatchBook
<1>3. CASE AcceptsFilled(order)
  <2>1. PICK t \in Transaction :
          t.order = order /\ transactions' = Append(transactions, t)
    BY <1>3 DEF AcceptsFilled, Executes
  <2>2. /\ DOMAIN book' = DOMAIN book \cup {n} /\ n \notin DOMAIN book
        /\ \A i \in DOMAIN book : book'[i] = book[i]
        /\ book'[n] = Filled(order)
    BY <1>1, <1>3 DEF AcceptsFilled
  <2>3. /\ DOMAIN transactions' = DOMAIN transactions \cup {last}
        /\ last \notin DOMAIN transactions /\ last # 0
        /\ \A k \in DOMAIN transactions : transactions'[k] = transactions[k]
        /\ transactions'[last] = t
    BY <1>1, <2>1
  <2>4. /\ book'[n].status = "filled"
        /\ book'[n].execution = last
        /\ book'[n].order = order
    BY <2>2 DEF Filled
  <2>5. \A i \in DOMAIN book : book[i].execution # last
    BY <2>3 DEF ExecutionsMatchBook
  <2> HIDE DEF n, last
  <2> QED
    BY <2>1, <2>2, <2>3, <2>4, <2>5 DEF ExecutionsMatchBook
<1> QED
  BY <1>2, <1>3 DEF Accepts

LEMMA ReplaceKeepsMatch ==
  ASSUME TypeOK, ExecutionsMatchBook, NEW i \in DOMAIN book,
         Fills(i) \/ \E s \in {"cancelled", "rejected"} : Closes(i, s)
  PROVE  ExecutionsMatchBook'
<1> DEFINE last == Len(transactions) + 1
<1>1. /\ book \in Seq(BrokerOrder)
      /\ transactions \in Seq(Transaction)
      /\ book[i] \in BrokerOrder
  BY EntryOf DEF TypeOK
<1>2. book[i].status = "submitted" /\ book[i].execution = 0
  BY DEF Fills, Closes, ExecutionsMatchBook
<1>3. ASSUME NEW s \in {"cancelled", "rejected"}, Closes(i, s)
      PROVE  ExecutionsMatchBook'
  <2>1. /\ DOMAIN book' = DOMAIN book
        /\ \A j \in DOMAIN book : j # i => book'[j] = book[j]
        /\ book'[i] = [book[i] EXCEPT !.status = s]
        /\ transactions' = transactions
    BY <1>1, <1>3 DEF Closes
  <2>2. book'[i].execution = 0 /\ book'[i].status # "filled"
    BY <1>1, <1>2, <1>3, <2>1 DEF BrokerOrder
  <2>3. 0 \notin DOMAIN transactions
    BY <1>1
  <2>4. \A j \in DOMAIN book : book'[j].execution = book[j].execution
    BY <1>2, <2>1, <2>2
  <2>5. \A t \in DOMAIN transactions' : \E j \in DOMAIN book' : book'[j].execution = t
    BY <2>1, <2>4 DEF ExecutionsMatchBook
  <2>6. \A j, k \in DOMAIN book' :
          book'[j].execution = book'[k].execution /\ book'[j].execution # 0 => j = k
    BY <2>1, <2>4 DEF ExecutionsMatchBook
  <2>7. \A j \in DOMAIN book' :
          /\ book'[j].status = "filled" <=> book'[j].execution # 0
          /\ book'[j].execution # 0 =>
               /\ book'[j].execution \in DOMAIN transactions'
               /\ transactions'[book'[j].execution].order = book'[j].order
    <3> TAKE j \in DOMAIN book'
    <3>1. CASE j = i
      BY <2>2, <3>1
    <3>2. CASE j # i
      <4>1. j \in DOMAIN book /\ book'[j] = book[j]
        BY <2>1, <3>2
      <4> QED
        BY <2>1, <4>1 DEF ExecutionsMatchBook
    <3> QED
      BY <3>1, <3>2
  <2> QED
    BY <2>5, <2>6, <2>7 DEF ExecutionsMatchBook
<1>4. CASE Fills(i)
  <2>1. PICK t \in Transaction :
          t.order = book[i].order /\ transactions' = Append(transactions, t)
    BY <1>4 DEF Fills, Executes
  <2>2. /\ DOMAIN book' = DOMAIN book
        /\ \A j \in DOMAIN book : j # i => book'[j] = book[j]
        /\ book'[i] = Filled(book[i].order)
    BY <1>1, <1>4 DEF Fills
  <2>3. /\ DOMAIN transactions' = DOMAIN transactions \cup {last}
        /\ last \notin DOMAIN transactions /\ last # 0
        /\ \A k \in DOMAIN transactions : transactions'[k] = transactions[k]
        /\ transactions'[last] = t
        /\ 0 \notin DOMAIN transactions
    BY <1>1, <2>1
  <2>4. /\ book'[i].status = "filled"
        /\ book'[i].execution = last
        /\ book'[i].order = book[i].order
    BY <2>2 DEF Filled
  <2>5. \A j \in DOMAIN book : book[j].execution # last
    BY <2>3 DEF ExecutionsMatchBook
  <2> HIDE DEF last
  <2> QED
    BY <1>2, <2>1, <2>2, <2>3, <2>4, <2>5 DEF ExecutionsMatchBook
<1> QED
  BY <1>3, <1>4

\* A filled order names its own transaction and every transaction belongs to one
\* filled order, after any lost requests, lost answers, repeated submissions,
\* cancellations and reconciliations (local.py 77-198).
THEOREM MatchInvariant == Spec => []ExecutionsMatchBook
<1>1. Init => ExecutionsMatchBook
  BY DEF Init, ExecutionsMatchBook
<1>2. TypeInv /\ ExecutionsMatchBook /\ [Next]_vars => ExecutionsMatchBook'
  <2> SUFFICES ASSUME TypeInv, ExecutionsMatchBook, [Next]_vars
               PROVE  ExecutionsMatchBook'
    OBVIOUS
  <2>1. BookStep /\ TypeOK
    BY NextBookStep DEF TypeInv
  <2>2. CASE UNCHANGED <<book, transactions>>
    BY <2>2 DEF ExecutionsMatchBook
  <2> QED
    BY <2>1, <2>2, AppendKeepsMatch, ReplaceKeepsMatch DEF BookStep, Settles
<1> QED
  BY <1>1, <1>2, TypeInvInvariant, PTL DEF Spec
-----------------------------------------------------------------------------
(***************************************************************************)
(* Nothing enters the book without an approval.  The book alone does not   *)
(* carry the induction: between verdict and acceptance lie any number of   *)
(* failed attempts, during which the approval is only in the log.          *)
(***************************************************************************)
ApprovedIn(log, id) ==
  \E a \in DOMAIN log : log[a] = [order_id |-> id, approved |-> TRUE]

Submitting(c) == pc[c] \in {"attempt", "sweep"} /\ call[c].op = "submit"

ApprovalInv ==
  /\ EveryOrderApproved
  /\ \A c \in Clients : Submitting(c) => ApprovedIn(audit_log, call[c].order.order_id)

\* No client begins to submit, or submits another order than before.
NoNewSubmission ==
  \A c \in Clients : Submitting(c)' => Submitting(c) /\ call'[c].order = call[c].order

LEMMA AnswerStartsNothing ==
  ASSUME ClientsOK, NEW c \in Clients, pc[c] \in {"attempt", "sweep"}, NEW result,
         Answer(c, result) \/ FailedAttempt(c)
  PROVE  NoNewSubmission
<1>1. CASE FailedAttempt(c) /\ call[c].attempts + 1 < MaxAttempts
  <2>1. /\ pc' = [pc EXCEPT ![c] = "attempt"]
        /\ call' = [call EXCEPT ![c].attempts = @ + 1]
    BY <1>1 DEF FailedAttempt
  <2> QED
    BY <2>1 DEF ClientsOK, Call, NoNewSubmission, Submitting
<1>2. CASE \E r \in {result, "transient"} : Finish(c, r)
  BY <1>2 DEF Finish, ClientsOK, NoNewSubmission, Submitting
<1> QED
  BY <1>1, <1>2 DEF Answer, FailedAttempt

LEMMA StartSubmitsNothing ==
  ASSUME ClientsOK, NEW c \in Clients, NEW next, NEW started, Start(c, next, started),
         next = "judge" \/ started.op # "submit"
  PROVE  NoNewSubmission
  BY DEF Start, ClientsOK, NoNewSubmission, Submitting

\* An approval stays in the log.
LEMMA ApprovedStays ==
  ASSUME TypeOK, NEW id, ApprovedIn(audit_log, id),
         \/ audit_log' = audit_log
         \/ \E r : audit_log' = Append(audit_log, r)
  PROVE  ApprovedIn(audit_log', id)
<1>1. audit_log \in Seq(RiskAssessment)
  BY DEF TypeOK
<1>2. CASE audit_log' = audit_log
  BY <1>2 DEF ApprovedIn
<1>3. ASSUME NEW r, audit_log' = Append(audit_log, r)
      PROVE  ApprovedIn(audit_log', id)
  <2>1. /\ DOMAIN audit_log \subseteq DOMAIN audit_log'
        /\ \A a \in DOMAIN audit_log : audit_log'[a] = audit_log[a]
    BY <1>1, <1>3
  <2> QED
    BY <2>1 DEF ApprovedIn
<1> QED
  BY <1>2, <1>3

\* Accepting an order appends it; nothing else changes which orders the book holds.
LEMMA AcceptedContents ==
  ASSUME TypeOK, NEW order \in Orders, Accepts(order)
  PROVE  \E e \in BrokerOrder : e.order = order /\ book' = Append(book, e)
  BY EntryTypes DEF Accepts, AcceptsOpen, AcceptsFilled, Submitted, Filled

LEMMA SettledContents ==
  ASSUME TypeOK, UNCHANGED <<book, transactions>> \/ Settles
  PROVE  /\ DOMAIN book' = DOMAIN book
         /\ \A i \in DOMAIN book : book'[i].order = book[i].order
<1>1. book \in Seq(BrokerOrder)
  BY DEF TypeOK
<1>2. ASSUME NEW j \in DOMAIN book, NEW s, Fills(j) \/ Closes(j, s)
      PROVE  \E e : e.order = book[j].order /\ book' = [book EXCEPT ![j] = e]
  <2>1. book[j] \in BrokerOrder
    BY <1>1, EntryOf
  <2> QED
    BY <1>2, <2>1 DEF Fills, Closes, Filled, BrokerOrder
<1>3. CASE Settles
  <2>1. PICK j \in DOMAIN book :
          \E e : e.order = book[j].order /\ book' = [book EXCEPT ![j] = e]
    BY <1>2, <1>3 DEF Settles
  <2> QED
    BY <1>1, <2>1
<1> QED
  BY <1>3

LEMMA ApprovalStep ==
  ASSUME TypeInv, ApprovalInv, NoNewSubmission, UNCHANGED <<book, transactions>> \/ Settles,
         \/ audit_log' = audit_log
         \/ \E r : audit_log' = Append(audit_log, r)
  PROVE  ApprovalInv'
<1>1. TypeOK
  BY DEF TypeInv
<1>2. ASSUME NEW i \in DOMAIN book'
      PROVE  ApprovedIn(audit_log', book'[i].order.order_id)
  <2>1. i \in DOMAIN book /\ book'[i].order = book[i].order
    BY <1>1, <1>2, SettledContents
  <2>2. ApprovedIn(audit_log, book[i].order.order_id)
    BY <2>1 DEF ApprovalInv, EveryOrderApproved, ApprovedIn
  <2> QED
    BY <1>1, <2>1, <2>2, ApprovedStays
<1>3. ASSUME NEW c \in Clients, Submitting(c)'
      PROVE  ApprovedIn(audit_log', call'[c].order.order_id)
  <2>1. Submitting(c) /\ call'[c].order = call[c].order
    BY <1>3 DEF NoNewSubmission
  <2>2. ApprovedIn(audit_log, call[c].order.order_id)
    BY <2>1 DEF ApprovalInv
  <2> QED
    BY <1>1, <2>1, <2>2, ApprovedStays
<1> QED
  BY <1>2, <1>3 DEF ApprovalInv, EveryOrderApproved, ApprovedIn

LEMMA JudgeApproval ==
  ASSUME TypeInv, ApprovalInv, NEW c \in Clients, Judge(c)
  PROVE  ApprovalInv'
<1> DEFINE approved == Approved(call[c].order, call[c].context, portfolio, kill_switch, TRUE)
           row == [order_id |-> call[c].order.order_id, approved |-> approved]
<1>1. TypeOK /\ ClientsOK
  BY DEF TypeInv, TypeOK, ClientsOK
<1>2. UNCHANGED <<book, transactions>> /\ audit_log' = Append(audit_log, row)
  BY DEF Judge, Log, adapter
<1>3. CASE ~approved
  <2>1. NoNewSubmission
    BY <1>1, <1>3 DEF Judge, Finish, ClientsOK, NoNewSubmission, Submitting
  <2> QED
    BY <1>2, <2>1, ApprovalStep
<1>4. CASE approved
  <2>1. /\ pc' = [pc EXCEPT ![c] = "attempt"]
        /\ call' = [call EXCEPT ![c].context = NoContext]
    BY <1>4 DEF Judge
  <2>2. ApprovedIn(audit_log', call'[c].order.order_id)
    <3>1. call'[c].order = call[c].order
      BY <1>1, <2>1 DEF ClientsOK, Call
    <3>2. row = [order_id |-> call[c].order.order_id, approved |-> TRUE]
      BY <1>4, Zenon DEF Approved
    <3>3. /\ Len(audit_log) + 1 \in DOMAIN audit_log'
          /\ audit_log'[Len(audit_log) + 1] = row
      <4> HIDE DEF row
      <4> QED
        BY <1>1, <1>2 DEF TypeOK
    <3> HIDE DEF row
    <3> QED
      BY <3>1, <3>2, <3>3 DEF ApprovedIn
  <2>3. ASSUME NEW d \in Clients, d # c, Submitting(d)'
        PROVE  ApprovedIn(audit_log', call'[d].order.order_id)
    <3>1. Submitting(d) /\ call'[d] = call[d]
      BY <1>1, <2>1, <2>3 DEF ClientsOK, Submitting
    <3> QED
      BY <1>1, <1>2, <3>1, ApprovedStays DEF ApprovalInv
  <2>4. ASSUME NEW i \in DOMAIN book'
        PROVE  ApprovedIn(audit_log', book'[i].order.order_id)
    <3>1. ApprovedIn(audit_log, book[i].order.order_id)
      BY <1>2, <2>4 DEF ApprovalInv, EveryOrderApproved, ApprovedIn
    <3> QED
      BY <1>1, <1>2, <3>1, ApprovedStays
  <2> QED
    BY <2>2, <2>3, <2>4 DEF ApprovalInv, EveryOrderApproved, ApprovedIn
<1> QED
  BY <1>3, <1>4

LEMMA HandleSubmitApproval ==
  ASSUME TypeInv, ApprovalInv, NEW c \in Clients, HandleSubmit(c)
  PROVE  ApprovalInv'
<1> DEFINE order == call[c].order
<1>1. TypeOK /\ ClientsOK /\ audit_log' = audit_log
  BY DEF TypeInv, TypeOK, ClientsOK, HandleSubmit
<1>2. NoNewSubmission
  BY <1>1, AnswerStartsNothing DEF HandleSubmit, SubmitSimulation, SubmitPaper
<1>3. CASE UNCHANGED <<book, transactions>>
  BY <1>1, <1>2, <1>3, ApprovalStep
<1>4. CASE order \in Orders /\ Accepts(order)
  <2>1. PICK e \in BrokerOrder : e.order = order /\ book' = Append(book, e)
    BY <1>1, <1>4, AcceptedContents
  <2>2. ApprovedIn(audit_log, order.order_id)
    BY DEF HandleSubmit, ApprovalInv, Submitting
  <2>3. ASSUME NEW i \in DOMAIN book'
        PROVE  ApprovedIn(audit_log, book'[i].order.order_id)
    <3>1. book \in Seq(BrokerOrder)
      BY <1>1 DEF TypeOK
    <3>2. CASE i \in DOMAIN book
      BY <2>1, <3>1, <3>2 DEF ApprovalInv, EveryOrderApproved, ApprovedIn
    <3>3. CASE i = Len(book) + 1
      BY <2>1, <2>2, <3>1, <3>3
    <3> QED
      BY <2>1, <2>3, <3>1, <3>2, <3>3
  <2>4. ASSUME NEW d \in Clients, Submitting(d)'
        PROVE  ApprovedIn(audit_log, call'[d].order.order_id)
    BY <1>2, <2>4 DEF NoNewSubmission, ApprovalInv
  <2> QED
    BY <1>1, <2>3, <2>4 DEF ApprovalInv, EveryOrderApproved, ApprovedIn
<1> QED
  BY <1>3, <1>4, HandleSubmitBook

\* No order enters the book that the risk engine has not approved, whichever
\* attempt of whichever client brings it there (gateway.py 67-73, reliable.py 72-94).
THEOREM ApprovalInvariant == Spec => []EveryOrderApproved
<1>1. Init => ApprovalInv
  BY DEF Init, ApprovalInv, EveryOrderApproved, Submitting
<1>2. TypeInv /\ ApprovalInv /\ [Next]_vars => ApprovalInv'
  <2> SUFFICES ASSUME TypeInv, ApprovalInv, [Next]_vars
               PROVE  ApprovalInv'
    OBVIOUS
  <2>1. TypeOK /\ ClientsOK
    BY DEF TypeInv, TypeOK, ClientsOK
  <2>2. ASSUME NEW c \in Clients, Begin(c)
        PROVE  ApprovalInv'
    <3>1. NoNewSubmission
      BY <2>1, <2>2, StartSubmitsNothing, Zenon
      DEF Begin, BuildContext, CallCancel, CallReconcile, NoCall
    <3>2. UNCHANGED <<book, transactions>> /\ audit_log' = audit_log
      BY <2>2 DEF Begin, BuildContext, CallCancel, CallReconcile, Start, adapter
    <3> QED
      BY <3>1, <3>2, ApprovalStep
  <2>3. ASSUME NEW c \in Clients, RequestLost(c) \/ HandleReconcile(c) \/ EndSweep(c)
        PROVE  ApprovalInv'
    <3>1. CASE RequestLost(c) \/ EndSweep(c)
      <4>1. NoNewSubmission
        BY <2>1, <3>1, AnswerStartsNothing DEF RequestLost, EndSweep
      <4>2. UNCHANGED <<book, transactions>> /\ audit_log' = audit_log
        BY <3>1 DEF RequestLost, EndSweep, adapter
      <4> QED
        BY <4>1, <4>2, ApprovalStep
    <3>2. CASE HandleReconcile(c)
      <4>1. NoNewSubmission
        <5>1. CASE connected /\ mode = "paper"
          BY <2>1, <3>2, <5>1 DEF HandleReconcile, ClientsOK, NoNewSubmission, Submitting
        <5>2. CASE ~(connected /\ mode = "paper")
          BY <2>1, <3>2, <5>2, AnswerStartsNothing DEF HandleReconcile
        <5> QED
          BY <5>1, <5>2
      <4>2. UNCHANGED <<book, transactions>> /\ audit_log' = audit_log
        BY <3>2 DEF HandleReconcile, adapter
      <4> QED
        BY <4>1, <4>2, ApprovalStep
    <3> QED
      BY <2>3, <3>1, <3>2
  <2>4. ASSUME NEW c \in Clients, HandleCancel(c) \/ Sweep(c)
        PROVE  ApprovalInv'
    <3>1. UNCHANGED <<book, transactions>> \/ Settles
      BY <2>4, HandleCancelBook, SweepBook
    <3>2. NoNewSubmission
      <4>1. CASE HandleCancel(c)
        BY <2>1, <4>1, AnswerStartsNothing DEF HandleCancel
      <4>2. CASE Sweep(c)
        BY <4>2 DEF Sweep, NoNewSubmission, Submitting
      <4> QED
        BY <2>4, <4>1, <4>2
    <3>3. audit_log' = audit_log
      BY <2>4 DEF HandleCancel, Sweep
    <3> QED
      BY <3>1, <3>2, <3>3, ApprovalStep
  <2>5. CASE UNCHANGED <<book, transactions, audit_log, pc, call>>
    BY <2>5, ApprovalStep DEF NoNewSubmission, Submitting
  <2>6. ASSUME NEW b \in BOOLEAN, SetKillSwitch(b) \/ set_connected(b)
        PROVE  UNCHANGED <<book, transactions, audit_log, pc, call>>
    BY <2>6 DEF SetKillSwitch, set_connected, adapter, account
  <2>7. CASE UNCHANGED vars
    BY <2>5, <2>7 DEF vars
  <2> QED
    BY <2>2, <2>3, <2>4, <2>5, <2>6, <2>7, JudgeApproval, HandleSubmitApproval
    DEF Next, Proceed
<1>3. ApprovalInv => EveryOrderApproved
  BY DEF ApprovalInv
<1> QED
  BY <1>1, <1>2, <1>3, TypeInvInvariant, PTL DEF Spec
-----------------------------------------------------------------------------
(***************************************************************************)
(* The composition implements the contract of the broker boundary.  The    *)
(* mapping reads the status of an id off the book, so it needs that no two *)
(* entries of the book share an id.                                        *)
(***************************************************************************)
UniqueIds(orders) ==
  \A i, j \in DOMAIN orders : orders[i].order.order_id = orders[j].order.order_id => i = j

IdsUnique == UniqueIds(book)

LEMMA PlaceUnique ==
  ASSUME NEW orders, UniqueIds(orders), NEW i \in DOMAIN orders
  PROVE  PlaceIn(orders, orders[i].order.order_id) = i
<1>1. PlaceIn(orders, orders[i].order.order_id) \in DOMAIN orders
  BY PlaceFound
<1> QED
  BY <1>1, PlaceFound DEF UniqueIds

SamePlaces(orders, after) ==
  /\ DOMAIN after = DOMAIN orders
  /\ \A id : PlaceIn(after, id) = PlaceIn(orders, id)

\* Replacing an entry by one of the same order leaves every place as it was.
LEMMA ReplacedPlaces ==
  ASSUME NEW T, NEW orders \in Seq(T), UniqueIds(orders),
         NEW j \in DOMAIN orders, NEW e, e.order = orders[j].order,
         NEW after, after = [orders EXCEPT ![j] = e]
  PROVE  UniqueIds(after) /\ SamePlaces(orders, after)
<1>1. /\ DOMAIN after = DOMAIN orders
      /\ \A i \in DOMAIN orders : after[i].order = orders[i].order
  OBVIOUS
<1>2. UniqueIds(after)
  BY <1>1 DEF UniqueIds
<1>3. ASSUME NEW id
      PROVE  PlaceIn(after, id) = PlaceIn(orders, id)
  <2>1. CASE PlaceIn(orders, id) \in DOMAIN orders
    BY <1>1, <1>2, <2>1, PlaceFound, PlaceUnique
  <2>2. CASE \A k \in DOMAIN orders : orders[k].order.order_id # id
    <3>1. \A k \in DOMAIN after : after[k].order.order_id # id
      BY <1>1, <2>2
    <3> QED
      BY <2>2, <3>1 DEF PlaceIn
  <2> QED
    BY <2>1, <2>2, PlaceFound
<1> QED
  BY <1>1, <1>2, <1>3 DEF SamePlaces

OnlyNewPlace(orders, e, after) ==
  /\ PlaceIn(after, e.order.order_id) # 0
  /\ after[PlaceIn(after, e.order.order_id)] = e
  /\ \A id : id # e.order.order_id =>
       /\ PlaceIn(after, id) = PlaceIn(orders, id)
       /\ PlaceIn(orders, id) # 0 => after[PlaceIn(orders, id)] = orders[PlaceIn(orders, id)]

\* Appending an order of a new id leaves the other places as they were.
LEMMA AppendedPlaces ==
  ASSUME NEW T, NEW orders \in Seq(T), UniqueIds(orders), NEW e,
         PlaceIn(orders, e.order.order_id) = 0,
         NEW after, after = Append(orders, e)
  PROVE  UniqueIds(after) /\ OnlyNewPlace(orders, e, after)
<1> DEFINE n == Len(orders) + 1
<1>1. /\ DOMAIN after = DOMAIN orders \cup {n} /\ n \notin DOMAIN orders
      /\ 0 \notin DOMAIN orders
      /\ after[n] = e
      /\ \A i \in DOMAIN orders : after[i] = orders[i]
  OBVIOUS
<1> HIDE DEF n
<1>2. \A k \in DOMAIN orders : orders[k].order.order_id # e.order.order_id
  BY <1>1, PlaceFound
<1>3. UniqueIds(after)
  BY <1>1, <1>2 DEF UniqueIds
<1>4. PlaceIn(after, e.order.order_id) = n
  BY <1>1, <1>3, PlaceUnique
<1>5. ASSUME NEW id, id # e.order.order_id
      PROVE  /\ PlaceIn(after, id) = PlaceIn(orders, id)
             /\ PlaceIn(orders, id) # 0 => after[PlaceIn(orders, id)] = orders[PlaceIn(orders, id)]
  <2>1. CASE PlaceIn(orders, id) \in DOMAIN orders /\ orders[PlaceIn(orders, id)].order.order_id = id
    BY <1>1, <1>3, <2>1, PlaceUnique
  <2>2. CASE PlaceIn(orders, id) = 0 /\ \A k \in DOMAIN orders : orders[k].order.order_id # id
    <3>1. \A k \in DOMAIN after : after[k].order.order_id # id
      BY <1>1, <1>5, <2>2
    <3> QED
      BY <2>2, <3>1 DEF PlaceIn
  <2> QED
    BY <2>1, <2>2, PlaceFound
<1>6. n # 0
  BY DEF n
<1> QED
  BY <1>1, <1>3, <1>4, <1>5, <1>6 DEF OnlyNewPlace
\* The executions, as the contract counts them.
ExecutedOrders(log) == [t \in DOMAIN log |-> log[t].order]

LEMMA ExecutedType ==
  ASSUME NEW log \in Seq(Transaction)
  PROVE  /\ ExecutedOrders(log) \in Seq(Orders)
         /\ Len(ExecutedOrders(log)) = Len(log)
<1> DEFINE n == Len(log)
           executed == ExecutedOrders(log)
<1>1. n \in Nat /\ DOMAIN log = 1..n
  OBVIOUS
<1>2. \A k \in 1..n : log[k].order \in Orders
  <2>1. \A k \in 1..n : log[k] \in Transaction
    BY <1>1, EntryOf
  <2> QED
    BY <2>1 DEF Transaction
<1>3. executed = [k \in 1..n |-> log[k].order]
  BY <1>1 DEF ExecutedOrders
<1> HIDE DEF n, executed
<1>4. executed \in Seq(Orders) /\ DOMAIN executed = 1..n
  BY <1>1, <1>2, <1>3
<1> QED
  BY <1>1, <1>4 DEF n, executed

LEMMA ExecutedAppend ==
  ASSUME NEW log \in Seq(Transaction), NEW t \in Transaction
  PROVE  ExecutedOrders(Append(log, t)) = Append(ExecutedOrders(log), t.order)
<1> DEFINE longer == Append(log, t)
           new == ExecutedOrders(longer)
           old == ExecutedOrders(log)
<1>1. longer \in Seq(Transaction) /\ Len(longer) = Len(log) + 1
  OBVIOUS
<1>2. new \in Seq(Orders) /\ Len(new) = Len(log) + 1
  <2> HIDE DEF longer
  <2> QED
    BY <1>1, ExecutedType
<1>3. old \in Seq(Orders) /\ Len(old) = Len(log)
  BY ExecutedType
<1>4. t.order \in Orders
  BY DEF Transaction
<1>5. ASSUME NEW k \in 1..(Len(log) + 1)
      PROVE  new[k] = Append(old, t.order)[k]
  <2>1. new[k] = longer[k].order
    BY <1>1 DEF ExecutedOrders
  <2>2. CASE k = Len(log) + 1
    <3>1. longer[k] = t
      BY <2>2
    <3>2. Append(old, t.order)[k] = t.order
      <4> HIDE DEF old
      <4> QED
        BY <1>3, <1>4, <2>2
    <3> QED
      BY <2>1, <3>1, <3>2
  <2>3. CASE k \in 1..Len(log)
    <3>1. longer[k] = log[k]
      BY <2>3
    <3>2. Append(old, t.order)[k] = old[k]
      <4> HIDE DEF old
      <4> QED
        BY <1>3, <1>4, <2>3
    <3>3. old[k] = log[k].order
      BY <2>3 DEF ExecutedOrders
    <3> QED
      BY <2>1, <3>1, <3>2, <3>3
  <2>4. k = Len(log) + 1 \/ k \in 1..Len(log)
    OBVIOUS
  <2> HIDE DEF new, old, longer
  <2> QED
    BY <2>2, <2>3, <2>4
<1> HIDE DEF new, old
<1>6. Append(old, t.order) \in Seq(Orders) /\ Len(Append(old, t.order)) = Len(log) + 1
  BY <1>3, <1>4
<1>7. new = Append(old, t.order)
  BY <1>2, <1>5, <1>6, SeqEqual
<1> QED
  BY <1>7 DEF new, old
-----------------------------------------------------------------------------
(* Each shape of step is a step of the contract. *)

statusOf  == [id \in OrderIds |-> EntryStatus(id)]
contentOf == [id \in OrderIds |-> EntryContent(id)]

LEMMA AcceptsContract ==
  ASSUME TypeOK, UniqueIds(book), NEW order \in Orders, Accepts(order)
  PROVE  Contract!Accept(order) /\ UniqueIds(book')
<1> DEFINE id == order.order_id
<1>1. book \in Seq(BrokerOrder) /\ transactions \in Seq(Transaction) /\ id \in OrderIds
  BY OrdersAssumption DEF TypeOK, Order
<1>2. PICK e \in BrokerOrder : e.order = order /\ book' = Append(book, e)
                               /\ e.status = IF AcceptsOpen(order) THEN "submitted" ELSE "filled"
  BY EntryTypes DEF Accepts, AcceptsOpen, AcceptsFilled, Submitted, Filled
<1>3. PlaceIn(book, id) = 0
  BY DEF Accepts, AcceptsOpen, AcceptsFilled, Existing
<1>4. /\ UniqueIds(book')
      /\ PlaceIn(book', id) # 0 /\ book'[PlaceIn(book', id)] = e
      /\ \A other \in OrderIds : other # id =>
           /\ PlaceIn(book', other) = PlaceIn(book, other)
           /\ PlaceIn(book, other) # 0 => book'[PlaceIn(book, other)] = book[PlaceIn(book, other)]
  <2>1. e.order.order_id = id /\ book' = Append(book, e)
    BY <1>2
  <2>2. PlaceIn(book, e.order.order_id) = 0
    BY <1>3, <2>1
  <2>3. UniqueIds(book') /\ OnlyNewPlace(book, e, book')
    BY <1>1, <2>1, <2>2, AppendedPlaces
  <2> QED
    BY <2>1, <2>3 DEF OnlyNewPlace
<1>5. statusOf[id] = "none"
  BY <1>1, <1>3 DEF statusOf, EntryStatus, Existing
<1>6. statusOf' = [statusOf EXCEPT ![id] = e.status]
  <2>1. \A other \in OrderIds : EntryStatus(other)' = IF other = id THEN e.status ELSE EntryStatus(other)
    BY <1>4 DEF EntryStatus, Existing
  <2> QED
    BY <1>1, <2>1 DEF statusOf
<1>7. contentOf' = [contentOf EXCEPT ![id] = order]
  <2>1. \A other \in OrderIds : EntryContent(other)' = IF other = id THEN order ELSE EntryContent(other)
    BY <1>2, <1>4 DEF EntryContent, Existing
  <2> QED
    BY <1>1, <2>1 DEF contentOf
<1>8. CASE AcceptsOpen(order)
  <2>1. ExecutedOrders(transactions') = ExecutedOrders(transactions) /\ e.status = "submitted"
    BY <1>2, <1>8 DEF AcceptsOpen
  <2> QED
    BY <1>1, <1>4, <1>5, <1>6, <1>7, <2>1
    DEF Contract!Accept, statusOf, contentOf, ExecutedOrders
<1>9. CASE ~AcceptsOpen(order)
  <2>1. ExecutedOrders(transactions') = Append(ExecutedOrders(transactions), order)
    <3>1. PICK t \in Transaction : t.order = order /\ transactions' = Append(transactions, t)
      BY <1>9 DEF Accepts, AcceptsFilled, Executes
    <3> QED
      BY <1>1, <3>1, ExecutedAppend
  <2>2. e.status = "filled"
    BY <1>2, <1>9
  <2> QED
    BY <1>1, <1>4, <1>5, <1>6, <1>7, <2>1, <2>2
    DEF Contract!Accept, statusOf, contentOf, ExecutedOrders
<1> QED
  BY <1>8, <1>9
LEMMA SettlesContract ==
  ASSUME TypeOK, UniqueIds(book), Settles
  PROVE  Contract!ContractNext /\ UniqueIds(book')
<1>1. book \in Seq(BrokerOrder) /\ transactions \in Seq(Transaction)
  BY DEF TypeOK
<1>2. PICK i \in DOMAIN book : Fills(i) \/ \E s \in {"cancelled", "rejected"} : Closes(i, s)
  BY DEF Settles
<1> DEFINE order == book[i].order
<1>3. book[i] \in BrokerOrder /\ order \in Orders /\ order.order_id \in OrderIds
  <2>1. book[i] \in BrokerOrder
    BY <1>1, EntryOf
  <2>2. order \in Orders
    BY <2>1 DEF BrokerOrder
  <2> QED
    BY <2>1, <2>2, OrdersAssumption DEF Order
<1>4. PICK id \in OrderIds : id = order.order_id
  BY <1>3
<1>4a. PlaceIn(book, id) = i /\ i # 0
  BY <1>1, <1>4, PlaceUnique
<1>5. statusOf[id] = "submitted" /\ contentOf[id] = order
  BY <1>2, <1>3, <1>4, <1>4a
  DEF statusOf, contentOf, EntryStatus, EntryContent, Existing, Fills, Closes
<1>6. ASSUME NEW e, e.order = order, book' = [book EXCEPT ![i] = e]
      PROVE  /\ UniqueIds(book')
             /\ statusOf' = [statusOf EXCEPT ![id] = e.status]
             /\ contentOf' = contentOf
  <2>0. UniqueIds(book') /\ SamePlaces(book, book')
    BY <1>1, <1>6, ReplacedPlaces
  <2>1. /\ UniqueIds(book')
        /\ DOMAIN book' = DOMAIN book
        /\ \A other : PlaceIn(book', other) = PlaceIn(book, other)
    BY <2>0 DEF SamePlaces
  <2>2. book'[i] = e /\ \A k \in DOMAIN book : k # i => book'[k] = book[k]
    BY <1>1, <1>6
  <2>3. ASSUME NEW other \in OrderIds
        PROVE  /\ EntryStatus(other)' = IF other = id THEN e.status ELSE EntryStatus(other)
               /\ EntryContent(other)' = EntryContent(other)
    <3>1. CASE other = id
      BY <1>4, <1>4a, <1>6, <2>1, <2>2, <3>1 DEF EntryStatus, EntryContent, Existing
    <3>2. CASE other # id /\ PlaceIn(book, other) = 0
      BY <2>1, <3>2 DEF EntryStatus, EntryContent, Existing
    <3>3. CASE other # id /\ PlaceIn(book, other) # 0
      <4>1. /\ PlaceIn(book, other) \in DOMAIN book
            /\ book[PlaceIn(book, other)].order.order_id = other
        BY <3>3, PlaceFound
      <4>2. PlaceIn(book, other) # i
        BY <1>4, <3>3, <4>1
      <4> QED
        BY <2>1, <2>2, <3>3, <4>1, <4>2 DEF EntryStatus, EntryContent, Existing
    <3> QED
      BY <3>1, <3>2, <3>3
  <2> QED
    BY <1>3, <2>1, <2>3 DEF statusOf, contentOf
<1>7. CASE Fills(i)
  <2>1. /\ UniqueIds(book')
        /\ statusOf' = [statusOf EXCEPT ![id] = "filled"]
        /\ contentOf' = contentOf
    <3>1. Filled(order).order = order /\ Filled(order).status = "filled"
      BY DEF Filled
    <3>2. book' = [book EXCEPT ![i] = Filled(order)]
      BY <1>7 DEF Fills
    <3> HIDE DEF order
    <3> QED
      BY <1>6, <3>1, <3>2
  <2>2. ExecutedOrders(transactions') = Append(ExecutedOrders(transactions), order)
    <3>1. PICK t \in Transaction : t.order = order /\ transactions' = Append(transactions, t)
      BY <1>7 DEF Fills, Executes
    <3> QED
      BY <1>1, <3>1, ExecutedAppend
  <2>3. Contract!Fill(id)
    BY <1>5, <2>1, <2>2 DEF Contract!Fill, statusOf, contentOf, ExecutedOrders
  <2> HIDE DEF order
  <2> QED
    BY <2>1, <2>3 DEF Contract!ContractNext
<1>8. ASSUME NEW s \in {"cancelled", "rejected"}, Closes(i, s)
      PROVE  Contract!ContractNext /\ UniqueIds(book')
  <2>1. /\ UniqueIds(book')
        /\ statusOf' = [statusOf EXCEPT ![id] = s]
        /\ contentOf' = contentOf
    <3> DEFINE e == [book[i] EXCEPT !.status = s]
    <3>1. e.order = order /\ e.status = s
      BY <1>3 DEF BrokerOrder
    <3>2. book' = [book EXCEPT ![i] = e]
      BY <1>8 DEF Closes
    <3> HIDE DEF e, order
    <3> QED
      BY <1>6, <3>1, <3>2
  <2>2. ExecutedOrders(transactions') = ExecutedOrders(transactions)
    BY <1>8 DEF Closes
  <2>3. Contract!Close(id)
    BY <1>5, <2>1, <2>2 DEF Contract!Close, statusOf, contentOf, ExecutedOrders
  <2> HIDE DEF order
  <2> QED
    BY <2>1, <2>3 DEF Contract!ContractNext
<1> QED
  BY <1>2, <1>7, <1>8

\* Adapters, retries and gateway together implement the contract of the broker
\* boundary (OrderContract): one order per client id with the content first accepted,
\* final states that stay, one execution for each order that is filled.
THEOREM ContractImplemented == Spec => ImplementsContract
<1>1. Init => Contract!ContractInit /\ IdsUnique
  <2> SUFFICES ASSUME Init
               PROVE  Contract!ContractInit /\ IdsUnique
    OBVIOUS
  <2>1. book = <<>> /\ transactions = <<>>
    BY DEF Init
  <2>2. \A id : Existing(id) = 0
    BY <2>1, ExistingFound
  <2>3. [t \in DOMAIN transactions |-> transactions[t].order] = <<>>
    BY <2>1
  <2> QED
    BY <2>1, <2>2, <2>3 DEF Contract!ContractInit, EntryStatus, EntryContent, IdsUnique, UniqueIds
<1>2. TypeInv /\ IdsUnique /\ [Next]_vars
        => IdsUnique' /\ [Contract!ContractNext]_(Contract!contractVars)
  <2> SUFFICES ASSUME TypeInv, IdsUnique, [Next]_vars
               PROVE  IdsUnique' /\ [Contract!ContractNext]_(Contract!contractVars)
    OBVIOUS
  <2> USE DEF IdsUnique
  <2>1. BookStep /\ TypeOK
    BY NextBookStep DEF TypeInv
  <2>2. CASE UNCHANGED <<book, transactions>>
    BY <2>2 DEF Contract!contractVars, EntryStatus, EntryContent, Existing
  <2>3. CASE \E order \in Orders : Accepts(order)
    BY <2>1, <2>3, AcceptsContract DEF Contract!ContractNext
  <2>4. CASE Settles
    BY <2>1, <2>4, SettlesContract
  <2> QED
    BY <2>1, <2>2, <2>3, <2>4 DEF BookStep
<1> QED
  BY <1>1, <1>2, TypeInvInvariant, PTL
  DEF Spec, ImplementsContract, Contract!ContractSpec
-----------------------------------------------------------------------------
(***************************************************************************)
(* The answers.  What a call ended with is a claim about the place its id  *)
(* has in the book.  Such a claim is true when the answer is given, and no *)
(* later step of any client can undo it: an id keeps its place and its     *)
(* content, and a status that is final.                                    *)
(***************************************************************************)
ClaimTrue(op, order, result) ==
  LET i == Existing(order.order_id)
  IN  /\ op = "submit" /\ result = "ok" => i # 0 /\ book[i].order = order
      /\ op = "submit" /\ result = "conflict" => i # 0 /\ book[i].order # order
      /\ op = "cancel" /\ result = "ok" => i # 0 /\ book[i].status = "cancelled"
      /\ op = "cancel" /\ result = "state_error" =>
           i # 0 /\ book[i].status \in {"filled", "rejected"}

Truthful(c) == pc[c] = "idle" => ClaimTrue(call[c].op, call[c].order, call[c].result)

\* Only a reconciliation sweeps, and its turns have left no order open behind them.
SweepInv ==
  /\ \A c \in Clients : pc[c] = "sweep" => call[c].op = "reconcile"
  /\ \A i \in DOMAIN book : i < sweep => book[i].status # "submitted"

AnswersInv ==
  /\ IdsUnique
  /\ SweepInv
  /\ \A c \in Clients : Truthful(c)

\* What every step leaves of an id that the book knows.
BookKept ==
  \A id : Existing(id) # 0 =>
    /\ Existing(id)' # 0
    /\ (book[Existing(id)].order)' = book[Existing(id)].order
    /\ book[Existing(id)].status # "submitted" =>
         (book[Existing(id)].status)' = book[Existing(id)].status

LEMMA AcceptsKept ==
  ASSUME TypeOK, IdsUnique, NEW order \in Orders, Accepts(order)
  PROVE  IdsUnique' /\ BookKept
<1>1. PICK e \in BrokerOrder : e.order = order /\ book' = Append(book, e)
  BY AcceptedContents
<1>2. PlaceIn(book, e.order.order_id) = 0
  BY <1>1 DEF Accepts, AcceptsOpen, AcceptsFilled, Existing
<1>3. UniqueIds(book') /\ OnlyNewPlace(book, e, book')
  BY <1>1, <1>2, AppendedPlaces DEF IdsUnique, TypeOK
<1> QED
  BY <1>2, <1>3 DEF BookKept, OnlyNewPlace, Existing, IdsUnique

LEMMA SettlesKept ==
  ASSUME TypeOK, IdsUnique, Settles
  PROVE  IdsUnique' /\ BookKept
<1>1. book \in Seq(BrokerOrder)
  BY DEF TypeOK
<1>2. PICK j \in DOMAIN book : Fills(j) \/ \E s \in {"cancelled", "rejected"} : Closes(j, s)
  BY DEF Settles
<1>3. PICK e : e.order = book[j].order /\ book' = [book EXCEPT ![j] = e]
  <2>1. book[j] \in BrokerOrder
    BY <1>1, EntryOf
  <2> QED
    BY <1>2, <2>1 DEF Fills, Closes, Filled, BrokerOrder
<1>4. book[j].status = "submitted"
  BY <1>2 DEF Fills, Closes
<1>5. UniqueIds(book') /\ SamePlaces(book, book')
  BY <1>1, <1>3, ReplacedPlaces DEF IdsUnique
<1>6. /\ DOMAIN book' = DOMAIN book
      /\ book'[j] = e
      /\ \A i \in DOMAIN book : i # j => book'[i] = book[i]
  BY <1>1, <1>3
<1>7. ASSUME NEW id, Existing(id) # 0
      PROVE  /\ Existing(id)' # 0
             /\ (book[Existing(id)].order)' = book[Existing(id)].order
             /\ book[Existing(id)].status # "submitted" =>
                  (book[Existing(id)].status)' = book[Existing(id)].status
  <2>1. Existing(id) \in DOMAIN book
    BY <1>7, ExistingFound
  <2>2. Existing(id)' = Existing(id)
    BY <1>5 DEF SamePlaces, Existing
  <2> QED
    BY <1>3, <1>4, <1>6, <1>7, <2>1, <2>2
<1> QED
  BY <1>5, <1>7 DEF BookKept, IdsUnique

LEMMA StepKeepsBook ==
  ASSUME TypeInv, IdsUnique, [Next]_vars
  PROVE  IdsUnique' /\ BookKept
<1>1. TypeOK /\ BookStep
  BY NextBookStep DEF TypeInv
<1>2. CASE UNCHANGED <<book, transactions>>
  BY <1>2 DEF IdsUnique, BookKept, Existing
<1> QED
  BY <1>1, <1>2, AcceptsKept, SettlesKept DEF BookStep

LEMMA ClaimKept ==
  ASSUME BookKept, NEW op, NEW order, NEW result, ClaimTrue(op, order, result)
  PROVE  ClaimTrue(op, order, result)'
<1> DEFINE id == order.order_id
<1>1. Existing(id) # 0 =>
        /\ Existing(id)' # 0
        /\ (book[Existing(id)].order)' = book[Existing(id)].order
        /\ book[Existing(id)].status # "submitted" =>
             (book[Existing(id)].status)' = book[Existing(id)].status
  BY DEF BookKept
<1> QED
  BY <1>1 DEF ClaimTrue

\* A client whose call and place stay as they are stays truthful.
LEMMA TruthKept ==
  ASSUME BookKept, NEW d \in Clients, Truthful(d), pc'[d] = pc[d], call'[d] = call[d]
  PROVE  Truthful(d)'
<1>1. CASE pc[d] = "idle"
  <2>1. PICK op, order, result :
          op = call[d].op /\ order = call[d].order /\ result = call[d].result
    OBVIOUS
  <2>2. ClaimTrue(op, order, result)
    BY <1>1, <2>1 DEF Truthful
  <2>3. ClaimTrue(op, order, result)'
    BY <2>2, ClaimKept
  <2>4. op = call'[d].op /\ order = call'[d].order /\ result = call'[d].result
    BY <2>1
  <2> QED
    BY <2>3, <2>4 DEF Truthful
<1> QED
  BY <1>1 DEF Truthful

\* How an answer leaves the clients: only the one that called moves, and it tries
\* again, or ends with the adapter's result or the last failure.
Answered(c, result) ==
  /\ \A d \in Clients : d # c => pc'[d] = pc[d] /\ call'[d] = call[d]
  /\ \/ pc'[c] = "attempt"
     \/ /\ pc'[c] = "idle"
        /\ call'[c].op = call[c].op
        /\ call'[c].order = call[c].order
        /\ call'[c].result \in {result, "transient"}

LEMMA FinishAnswered ==
  ASSUME ClientsOK, NEW c \in Clients, NEW result, NEW r \in {result, "transient"},
         Finish(c, r)
  PROVE  Answered(c, result)
<1> DEFINE ended == [call[c] EXCEPT !.result = r, !.context = NoContext, !.attempts = 0]
<1>1. call[c] \in Call
  BY DEF ClientsOK
<1>2. ended.op = call[c].op /\ ended.order = call[c].order /\ ended.result = r
  BY <1>1 DEF Call
<1>3. pc' = [pc EXCEPT ![c] = "idle"] /\ call' = [call EXCEPT ![c] = ended]
  BY <1>1 DEF Finish, ClientsOK
<1> HIDE DEF ended
<1> QED
  BY <1>2, <1>3 DEF ClientsOK, Answered

LEMMA AnswerAnswered ==
  ASSUME ClientsOK, NEW c \in Clients, NEW result,
         Answer(c, result) \/ FailedAttempt(c)
  PROVE  Answered(c, result)
<1>1. CASE FailedAttempt(c) /\ call[c].attempts + 1 < MaxAttempts
  <2>1. /\ pc' = [pc EXCEPT ![c] = "attempt"]
        /\ call' = [call EXCEPT ![c].attempts = @ + 1]
    BY <1>1 DEF FailedAttempt
  <2> QED
    BY <2>1 DEF ClientsOK, Answered
<1>2. CASE \E r \in {result, "transient"} : Finish(c, r)
  BY <1>2, FinishAnswered
<1> QED
  BY <1>1, <1>2 DEF Answer, FailedAttempt

\* A client is answered truthfully when the claim holds of the book it leaves.
LEMMA AnsweredTruth ==
  ASSUME BookKept, \A d \in Clients : Truthful(d), NEW c \in Clients, NEW result,
         Answered(c, result),
         NEW op, NEW order, op = call[c].op, order = call[c].order,
         ClaimTrue(op, order, result)'
  PROVE  \A d \in Clients : Truthful(d)'
<1>1. ASSUME NEW d \in Clients, d # c
      PROVE  Truthful(d)'
  BY <1>1, TruthKept DEF Answered
<1>2. Truthful(c)'
  <2>1. CASE pc'[c] = "attempt"
    BY <2>1 DEF Truthful
  <2>2. CASE /\ call'[c].op = op /\ call'[c].order = order
             /\ call'[c].result \in {result, "transient"}
    BY <2>2 DEF Truthful, ClaimTrue
  <2> QED
    BY <2>1, <2>2 DEF Answered
<1> QED
  BY <1>1, <1>2

\* A result nothing is claimed of.
Uncommitted == {"pending", "risk_rejected", "order_error", "not_found", "unavailable", "transient"}

LEMMA NoClaim ==
  ASSUME NEW op, NEW order, NEW result, result \in Uncommitted \/ op \notin {"submit", "cancel"}
  PROVE  ClaimTrue(op, order, result)'
  BY DEF ClaimTrue, Uncommitted

\* The claim HandleSubmit's result makes is true of the book it leaves.
LEMMA HandleSubmitTruth ==
  ASSUME TypeInv, IdsUnique, BookKept, \A d \in Clients : Truthful(d),
         NEW c \in Clients, HandleSubmit(c)
  PROVE  \A d \in Clients : Truthful(d)'
<1>1. PICK order \in Orders : order = call[c].order
  BY DEF TypeInv, CallsCarryTheirData, HandleSubmit
<1>2. TypeOK /\ ClientsOK /\ call[c].op = "submit"
  BY DEF TypeInv, TypeOK, ClientsOK, HandleSubmit
<1> DEFINE i == Existing(order.order_id)
           outcome == execute(order, portfolio)
<1>3. ASSUME NEW result, Answer(c, result), ClaimTrue("submit", order, result)'
      PROVE  \A d \in Clients : Truthful(d)'
  BY <1>1, <1>2, <1>3, AnswerAnswered, AnsweredTruth
<1>4. CASE \E result \in Uncommitted : Answer(c, result)
  BY <1>3, <1>4, NoClaim
<1>5. CASE /\ i # 0 /\ UNCHANGED <<account, book>>
           /\ Answer(c, ExistingAnswer(i, order))
  <2> DEFINE result == ExistingAnswer(i, order)
  <2>1. result = IF book[i].order = order THEN "ok" ELSE "conflict"
    BY DEF ExistingAnswer
  <2>2. i' = i /\ book' = book
    BY <1>5 DEF Existing
  <2>3. PICK r : r = result
    OBVIOUS
  <2>4. ClaimTrue("submit", order, r)'
    BY <1>5, <2>1, <2>2, <2>3 DEF ClaimTrue
  <2> HIDE DEF result
  <2> QED
    BY <1>3, <1>5, <2>3, <2>4 DEF result
<1>6. ASSUME NEW e, e.order = order, i = 0, book' = Append(book, e), Answer(c, "ok")
      PROVE  \A d \in Clients : Truthful(d)'
  <2>1. PlaceIn(book, e.order.order_id) = 0 /\ book \in Seq(BrokerOrder)
    BY <1>2, <1>6 DEF Existing, TypeOK
  <2>2. OnlyNewPlace(book, e, book')
    BY <1>6, <2>1, AppendedPlaces DEF IdsUnique
  <2>3. PlaceIn(book', order.order_id) # 0 /\ book'[PlaceIn(book', order.order_id)] = e
    BY <1>6, <2>2 DEF OnlyNewPlace
  <2>4. ClaimTrue("submit", order, "ok")'
    BY <1>6, <2>3 DEF ClaimTrue, Existing
  <2> QED
    BY <1>3, <1>6, <2>4
<1>7. CASE i = 0 /\ SubmitSimulation(c, order)
  <2>1. CASE outcome.raised
    BY <1>4, <1>7, <2>1 DEF SubmitSimulation, Uncommitted
  <2>2. CASE ~outcome.raised
    <3>1. book' = Append(book, Filled(order)) /\ Answer(c, "ok")
      BY <1>7, <2>2 DEF SubmitSimulation
    <3>2. PICK e : e = Filled(order)
      OBVIOUS
    <3>3. e.order = order
      BY <3>2 DEF Filled
    <3> QED
      BY <1>6, <1>7, <3>1, <3>2, <3>3
  <2> QED
    BY <2>1, <2>2
<1>8. CASE i = 0 /\ SubmitPaper(c, order)
  <2>1. PICK e : e = Submitted(order)
    OBVIOUS
  <2>2. e.order = order /\ book' = Append(book, e) /\ Answer(c, "ok")
    BY <1>8, <2>1 DEF SubmitPaper, Submitted
  <2> QED
    BY <1>6, <1>8, <2>2
<1> QED
  BY <1>1, <1>4, <1>5, <1>7, <1>8 DEF HandleSubmit, Uncommitted

\* The claim HandleCancel's result makes is true of the book it leaves.
LEMMA HandleCancelTruth ==
  ASSUME TypeInv, IdsUnique, BookKept, \A d \in Clients : Truthful(d),
         NEW c \in Clients, HandleCancel(c)
  PROVE  \A d \in Clients : Truthful(d)'
<1>1. PICK order : order = call[c].order
  OBVIOUS
<1>2. TypeOK /\ ClientsOK /\ call[c].op = "cancel" /\ book \in Seq(BrokerOrder)
  BY DEF TypeInv, TypeOK, ClientsOK, HandleCancel
<1> DEFINE i == Existing(order.order_id)
<1>3. ASSUME NEW result, Answer(c, result), ClaimTrue("cancel", order, result)'
      PROVE  \A d \in Clients : Truthful(d)'
  BY <1>1, <1>2, <1>3, AnswerAnswered, AnsweredTruth
<1>4. CASE ~connected \/ i = 0
  <2>1. \E result \in Uncommitted : Answer(c, result)
    BY <1>1, <1>4 DEF HandleCancel, Uncommitted
  <2> QED
    BY <1>3, <2>1, NoClaim
<1>5. CASE connected /\ i # 0
  <2>1. i \in DOMAIN book
    BY <1>5, ExistingFound
  <2>2. book[i] \in BrokerOrder
    BY <1>2, <2>1, EntryOf
  <2>3. CASE book[i].status = "submitted"
    <3>1. book' = [book EXCEPT ![i].status = "cancelled"] /\ Answer(c, "ok")
      BY <1>1, <1>5, <2>3 DEF HandleCancel
    <3>2. PICK e : e = [book[i] EXCEPT !.status = "cancelled"]
      OBVIOUS
    <3>3. e.order = book[i].order /\ e.status = "cancelled"
      BY <2>2, <3>2 DEF BrokerOrder
    <3>4. book' = [book EXCEPT ![i] = e]
      BY <3>1, <3>2
    <3>5. SamePlaces(book, book') /\ book'[i] = e
      BY <1>2, <2>1, <3>3, <3>4, ReplacedPlaces DEF IdsUnique
    <3>6. i' = i
      BY <3>5 DEF SamePlaces, Existing
    <3>7. ClaimTrue("cancel", order, "ok")'
      BY <1>5, <3>3, <3>5, <3>6 DEF ClaimTrue
    <3> QED
      BY <1>3, <3>1, <3>7
  <2>4. CASE book[i].status # "submitted"
    <3>1. book' = book
      BY <1>1, <2>4 DEF HandleCancel
    <3>2. i' = i
      BY <3>1 DEF Existing
    <3>3. CASE book[i].status = "cancelled"
      <4>1. ClaimTrue("cancel", order, "ok")'
        BY <1>5, <3>1, <3>2, <3>3 DEF ClaimTrue
      <4>2. Answer(c, "ok")
        BY <1>1, <1>5, <3>3 DEF HandleCancel
      <4> QED
        BY <1>3, <4>1, <4>2
    <3>4. CASE book[i].status \in {"filled", "rejected"}
      <4>1. ClaimTrue("cancel", order, "state_error")'
        BY <1>5, <3>1, <3>2, <3>4 DEF ClaimTrue
      <4>2. Answer(c, "state_error")
        BY <1>1, <1>5, <3>4 DEF HandleCancel
      <4> QED
        BY <1>3, <4>1, <4>2
    <3> QED
      BY <2>2, <2>4, <3>3, <3>4 DEF BrokerOrder
  <2> QED
    BY <2>3, <2>4
<1> QED
  BY <1>4, <1>5

\* Clients that sweep after a step did so before it, in the same call.
NoNewSweeper ==
  \A d \in Clients : pc'[d] = "sweep" => pc[d] = "sweep" /\ call'[d].op = call[d].op

\* Every step but a turn of the loop leaves the loop before its first turn, or ended.
LEMMA LoopNotTurned ==
  ASSUME TypeInv', SweepInv, NoNewSweeper, sweep' \in {0, 1}
  PROVE  SweepInv'
<1>1. \A i \in DOMAIN book' : i \in Nat /\ i >= 1
  <2>1. book' \in Seq(BrokerOrder)
    BY DEF TypeInv, TypeOK
  <2> QED
    BY <2>1
<1> QED
  BY <1>1 DEF SweepInv, NoNewSweeper

LEMMA SweepTurn ==
  ASSUME TypeInv, SweepInv, NEW c \in Clients, Sweep(c)
  PROVE  SweepInv'
<1>1. book \in Seq(BrokerOrder) /\ sweep \in DOMAIN book /\ sweep \in Nat
  BY DEF TypeInv, TypeOK, Sweep
<1> DEFINE entry == book[sweep]
<1>2. /\ DOMAIN book' = DOMAIN book
      /\ \A i \in DOMAIN book : i # sweep => book'[i] = book[i]
      /\ book'[sweep].status # "submitted"
  <2>1. CASE entry.status # "submitted"
    BY <2>1 DEF Sweep
  <2>2. CASE entry.status = "submitted"
    <3>1. entry \in BrokerOrder
      BY <1>1, EntryOf
    <3>2. PICK e : e.status # "submitted" /\ book' = [book EXCEPT ![sweep] = e]
      BY <2>2, <3>1 DEF Sweep, Filled, BrokerOrder
    <3> QED
      BY <1>1, <3>2
  <2> QED
    BY <2>1, <2>2
<1>3. sweep' = sweep + 1 /\ pc' = pc /\ call' = call
  BY DEF Sweep
<1>4. \A i \in DOMAIN book : i \in Nat
  BY <1>1
<1> QED
  BY <1>1, <1>2, <1>3, <1>4 DEF SweepInv

\* Every step keeps the claims true, and the loop of a reconciliation in order.
LEMMA AnswersStep ==
  ASSUME TypeInv, AnswersInv, [Next]_vars
  PROVE  AnswersInv'
<1> USE DEF AnswersInv
<1>1. TypeInv' /\ TypeOK /\ ClientsOK
  BY NextTypeInv DEF TypeInv, TypeOK, ClientsOK
<1>2. IdsUnique' /\ BookKept
  BY StepKeepsBook
<1>3. ASSUME NEW c \in Clients, NEW result, Answered(c, result), sweep' \in {0, 1},
             result \in Uncommitted \/ call[c].op \notin {"submit", "cancel"}
      PROVE  AnswersInv'
  <2>1. PICK op, order : op = call[c].op /\ order = call[c].order
    OBVIOUS
  <2>2. ClaimTrue(op, order, result)'
    BY <1>3, <2>1, NoClaim
  <2>3. \A d \in Clients : Truthful(d)'
    BY <1>2, <1>3, <2>1, <2>2, AnsweredTruth
  <2>4. NoNewSweeper
    BY <1>3 DEF Answered, NoNewSweeper
  <2> QED
    BY <1>1, <1>2, <1>3, <2>3, <2>4, LoopNotTurned
<1>4. ASSUME NEW c \in Clients, Begin(c)
      PROVE  AnswersInv'
  <2>1. PICK next \in {"judge", "attempt"} : \E started : Start(c, next, started)
    BY <1>4 DEF Begin, BuildContext, CallCancel, CallReconcile
  <2>2. /\ sweep' = 0
        /\ pc' = [pc EXCEPT ![c] = next]
        /\ \A d \in Clients : d # c => call'[d] = call[d]
    BY <1>1, <2>1 DEF Start, LoopFree, ClientsOK
  <2>3. /\ pc'[c] # "idle" /\ pc'[c] # "sweep"
        /\ \A d \in Clients : d # c => pc'[d] = pc[d]
    BY <1>1, <2>2 DEF ClientsOK
  <2>4. \A d \in Clients : Truthful(d)'
    <3>1. Truthful(c)'
      BY <2>3 DEF Truthful
    <3> QED
      BY <1>2, <2>2, <2>3, <3>1, TruthKept
  <2>5. NoNewSweeper
    BY <2>2, <2>3 DEF NoNewSweeper
  <2> QED
    BY <1>1, <1>2, <2>2, <2>4, <2>5, LoopNotTurned
<1>5. ASSUME NEW c \in Clients, Judge(c)
      PROVE  AnswersInv'
  <2>1. sweep' \in {0, 1}
    BY <1>5 DEF Judge, LoopFree
  <2>2. Answered(c, "risk_rejected")
    <3>1. CASE /\ pc' = [pc EXCEPT ![c] = "attempt"]
               /\ call' = [call EXCEPT ![c].context = NoContext]
      BY <1>1, <3>1 DEF ClientsOK, Answered
    <3>2. CASE Finish(c, "risk_rejected")
      BY <1>1, <3>2, FinishAnswered
    <3> QED
      BY <1>5, <3>1, <3>2 DEF Judge
  <2> QED
    BY <1>3, <2>1, <2>2 DEF Uncommitted
<1>6. ASSUME NEW c \in Clients, RequestLost(c)
      PROVE  AnswersInv'
  <2>1. sweep' \in {0, 1}
    BY <1>6 DEF RequestLost, LoopFree
  <2>2. Answered(c, "transient")
    BY <1>1, <1>6, AnswerAnswered DEF RequestLost
  <2> QED
    BY <1>3, <2>1, <2>2 DEF Uncommitted
<1>7. ASSUME NEW c \in Clients, HandleSubmit(c) \/ HandleCancel(c)
      PROVE  AnswersInv'
  <2>1. sweep' \in {0, 1}
    BY <1>7 DEF HandleSubmit, HandleCancel, LoopFree
  <2>2. \A d \in Clients : Truthful(d)'
    BY <1>2, <1>7, HandleSubmitTruth, HandleCancelTruth
  <2>3. NoNewSweeper
    <3>1. \E result : Answer(c, result)
      <4>1. CASE HandleSubmit(c)
        BY <4>1 DEF HandleSubmit, SubmitSimulation, SubmitPaper
      <4>2. CASE HandleCancel(c)
        BY <4>2 DEF HandleCancel
      <4> QED
        BY <1>7, <4>1, <4>2
    <3> QED
      BY <1>1, <3>1, AnswerAnswered DEF Answered, NoNewSweeper
  <2> QED
    BY <1>1, <1>2, <2>1, <2>2, <2>3, LoopNotTurned
<1>8. ASSUME NEW c \in Clients, HandleReconcile(c)
      PROVE  AnswersInv'
  <2>1. CASE connected /\ mode = "paper"
    <3>1. /\ sweep' = 1 /\ call' = call
          /\ pc' = [pc EXCEPT ![c] = "sweep"]
          /\ call[c].op = "reconcile"
      BY <1>8, <2>1 DEF HandleReconcile
    <3>2. \A d \in Clients : Truthful(d)'
      <4>1. Truthful(c)'
        BY <1>1, <3>1 DEF Truthful, ClientsOK
      <4>2. \A d \in Clients : d # c => pc'[d] = pc[d] /\ call'[d] = call[d]
        BY <1>1, <3>1 DEF ClientsOK
      <4> QED
        BY <1>2, <4>1, <4>2, TruthKept
    <3>3. \A d \in Clients : pc'[d] = "sweep" => call'[d].op = "reconcile"
      BY <1>1, <3>1 DEF ClientsOK, SweepInv
    <3>4. \A i \in DOMAIN book' : ~(i < sweep')
      <4>1. book' \in Seq(BrokerOrder)
        BY <1>1 DEF TypeInv, TypeOK
      <4> QED
        BY <3>1, <4>1
    <3> QED
      BY <1>2, <3>2, <3>3, <3>4 DEF SweepInv
  <2>2. CASE ~(connected /\ mode = "paper")
    <3>1. sweep' \in {0, 1} /\ call[c].op = "reconcile"
      BY <1>8, <2>2 DEF HandleReconcile, LoopFree
    <3>2. PICK result : Answer(c, result)
      BY <1>8, <2>2 DEF HandleReconcile
    <3>3. Answered(c, result)
      BY <1>1, <3>2, AnswerAnswered
    <3> QED
      BY <1>3, <3>1, <3>3
  <2> QED
    BY <2>1, <2>2
<1>9. ASSUME NEW c \in Clients, Sweep(c)
      PROVE  AnswersInv'
  <2>1. \A d \in Clients : Truthful(d)'
    BY <1>2, <1>9, TruthKept DEF Sweep
  <2> QED
    BY <1>2, <1>9, <2>1, SweepTurn
<1>10. ASSUME NEW c \in Clients, EndSweep(c)
       PROVE  AnswersInv'
  <2>1. sweep' \in {0, 1} /\ call[c].op = "reconcile"
    BY <1>10 DEF EndSweep, SweepInv
  <2>2. Answered(c, "ok")
    BY <1>1, <1>10, AnswerAnswered DEF EndSweep
  <2> QED
    BY <1>3, <2>1, <2>2
<1>11. CASE UNCHANGED <<book, sweep, pc, call>>
  <2>1. \A d \in Clients : Truthful(d)'
    BY <1>2, <1>11, TruthKept
  <2> QED
    BY <1>2, <1>11, <2>1 DEF SweepInv
<1>12. ASSUME NEW b \in BOOLEAN, SetKillSwitch(b) \/ set_connected(b)
       PROVE  UNCHANGED <<book, sweep, pc, call>>
  BY <1>12 DEF SetKillSwitch, set_connected, adapter, account
<1>13. CASE UNCHANGED vars
  BY <1>11, <1>13 DEF vars
<1> QED
  BY <1>4, <1>5, <1>6, <1>7, <1>8, <1>9, <1>10, <1>11, <1>12, <1>13 DEF Next, Proceed

LEMMA AnswersInvInvariant == Spec => []AnswersInv
<1>1. Init => AnswersInv
  <2> SUFFICES ASSUME Init
               PROVE  AnswersInv
    OBVIOUS
  <2>1. IdsUnique /\ SweepInv
    BY DEF Init, IdsUnique, UniqueIds, SweepInv
  <2>2. \A c \in Clients : Truthful(c)
    BY DEF Init, NoCall, Truthful, ClaimTrue
  <2> QED
    BY <2>1, <2>2 DEF AnswersInv
<1>2. TypeInv /\ AnswersInv /\ [Next]_vars => AnswersInv'
  BY AnswersStep
<1> QED
  BY <1>1, <1>2, TypeInvInvariant, PTL DEF Spec

\* What a call was told stays true of the book: an accepted order stands with its
\* content, a conflict names another content, a cancelled order stays cancelled,
\* after any number of lost answers, retries and calls of others (local.py 84-113).
THEOREM AnswersAreTrue == Spec => []AnswersTrue
<1>1. AnswersInv => AnswersTrue
  <2> SUFFICES ASSUME AnswersInv, NEW c \in Clients
               PROVE  LET order == call[c].order
                          i == Existing(order.order_id)
                          ended(op, result) ==
                            pc[c] = "idle" /\ call[c].op = op /\ call[c].result = result
                      IN  /\ ended("submit", "ok") => Stands(order)
                          /\ ended("submit", "conflict") => ~Stands(order) /\ i # 0
                          /\ ended("cancel", "ok") => i # 0 /\ book[i].status = "cancelled"
                          /\ ended("cancel", "state_error") =>
                               i # 0 /\ book[i].status \in {"filled", "rejected"}
    BY DEF AnswersTrue
  <2> DEFINE order == call[c].order
             i == Existing(order.order_id)
  <2>1. Truthful(c) /\ IdsUnique
    BY DEF AnswersInv
  <2>2. i # 0 => i \in DOMAIN book
    BY ExistingFound
  <2>3. i # 0 /\ book[i].order = order => Stands(order)
    BY <2>2 DEF Stands
  <2>4. i # 0 /\ book[i].order # order => ~Stands(order)
    <3> SUFFICES ASSUME NEW k \in DOMAIN book, book[k].order = order
                 PROVE  i = k
      BY DEF Stands
    <3> QED
      BY <2>1, PlaceUnique DEF IdsUnique, Existing
  <2> QED
    BY <2>1, <2>3, <2>4 DEF Truthful, ClaimTrue
<1> QED
  BY <1>1, AnswersInvInvariant, PTL

\* The loop of a reconciliation leaves no order open, wherever it began and whatever
\* execution made of each (local.py 176-198).
THEOREM ReconciliationSettles == Spec => ReconcileSettles
<1>1. TypeInv /\ AnswersInv /\ [Next]_vars
        => [\A c \in Clients :
              pc[c] = "sweep" /\ pc'[c] # "sweep"
                => \A i \in DOMAIN book' : book'[i].status # "submitted"]_vars
  <2> SUFFICES ASSUME TypeInv, AnswersInv, [Next]_vars,
                      NEW c \in Clients, pc[c] = "sweep", pc'[c] # "sweep"
               PROVE  \A i \in DOMAIN book' : book'[i].status # "submitted"
    OBVIOUS
  <2>1. TypeOK /\ ClientsOK /\ SweepInv
    BY DEF TypeInv, TypeOK, ClientsOK, AnswersInv
  <2>2. ASSUME NEW d \in Clients, d # c,
               \E result : Answer(d, result) \/ FailedAttempt(d)
        PROVE  pc'[c] = pc[c]
    BY <2>1, <2>2, AnswerAnswered DEF Answered
  <2>3. ASSUME NEW d \in Clients, Begin(d) \/ Judge(d)
        PROVE  FALSE
    <3>1. pc[d] \in {"idle", "judge"} /\ pc' = [pc EXCEPT ![d] = pc'[d]]
      BY <2>1, <2>3
      DEF Begin, BuildContext, CallCancel, CallReconcile, Start, Judge, Finish, ClientsOK
    <3> QED
      BY <2>1, <3>1 DEF ClientsOK
  <2>4. ASSUME NEW d \in Clients,
               RequestLost(d) \/ HandleSubmit(d) \/ HandleCancel(d) \/ HandleReconcile(d)
        PROVE  FALSE
    <3>1. pc[d] = "attempt"
      BY <2>4 DEF RequestLost, HandleSubmit, HandleCancel, HandleReconcile
    <3>2. \/ \E result : Answer(d, result) \/ FailedAttempt(d)
          \/ pc' = [pc EXCEPT ![d] = "sweep"]
      <4>1. CASE RequestLost(d)
        BY <4>1 DEF RequestLost
      <4>2. CASE HandleSubmit(d)
        BY <4>2 DEF HandleSubmit, SubmitSimulation, SubmitPaper
      <4>3. CASE HandleCancel(d)
        BY <4>3 DEF HandleCancel
      <4>4. CASE HandleReconcile(d)
        BY <4>4 DEF HandleReconcile
      <4> QED
        BY <2>4, <4>1, <4>2, <4>3, <4>4
    <3> QED
      BY <2>1, <2>2, <3>1, <3>2 DEF ClientsOK
  <2>5. ~(\E d \in Clients : Sweep(d))
    BY DEF Sweep
  <2>6. ~(\E b \in BOOLEAN : SetKillSwitch(b) \/ set_connected(b))
    BY DEF SetKillSwitch, set_connected
  <2>7. ~UNCHANGED vars
    BY DEF vars
  <2>8. PICK d \in Clients : EndSweep(d)
    BY <2>3, <2>4, <2>5, <2>6, <2>7 DEF Next, Proceed
  <2>9. book' = book /\ sweep > Len(book)
    BY <2>8 DEF EndSweep, adapter
  <2>10. \A i \in DOMAIN book : i < sweep
    <3>1. book \in Seq(BrokerOrder) /\ sweep \in Nat
      BY <2>1 DEF TypeOK
    <3> QED
      BY <2>9, <3>1
  <2> QED
    BY <2>1, <2>9, <2>10 DEF SweepInv
<1> QED
  BY <1>1, TypeInvInvariant, AnswersInvInvariant, PTL DEF Spec, ReconcileSettles
=============================================================================
