---------------------------- MODULE PaperTrading ----------------------------
(***************************************************************************)
(* The asynchronous order path of phase 4, composed:                       *)
(*                                                                         *)
(*   clients -> AsyncRiskManagedBroker -> ReliableBrokerClient             *)
(*           -> local adapter -> SimulatedBroker -> Portfolio              *)
(*                                                                         *)
(* Clients are asyncio tasks that share one gateway, one reliable client,  *)
(* one adapter and one portfolio.  A task yields where the code awaits     *)
(* something that can suspend: between building a context and submitting,  *)
(* before each attempt (wait_for runs it as a task of its own on Python    *)
(* 3.11, and a slow transport holds it up on any version) and between the  *)
(* attempts.  What a local adapter does in one call is atomic, the loop of *)
(* a reconciliation included; the loop is taken order by order while       *)
(* nothing else may move.                                                  *)
(*                                                                         *)
(* An attempt may fail on its way to the adapter or on its way back, as    *)
(* the retry policy foresees (time-out, transient error, network error)    *)
(* and as the tests provoke with adapters that lose the answer.            *)
(***************************************************************************)
EXTENDS RiskEngine

CONSTANTS
  Clients,
  Modes,          \* adapters to consider: "simulation" fills at once, "paper" later
  InitialCash,
  DayStartEquity,
  MarketPrices,   \* the quotes callers put in a context
  MaxAttempts,    \* ReliabilityPolicy.max_attempts
  NoOrder, NoContext,
  MaxCalls        \* bound: calls started by all clients together

ASSUME ClientsAssumption == Modes \subseteq {"simulation", "paper"}
ASSUME AccountAssumption ==
  InitialCash \in Amount /\ DayStartEquity \in Amount /\ MarketPrices \in [Symbols -> Amount]
ASSUME BoundsAssumption == MaxAttempts \in Nat \ {0} /\ MaxCalls \in Nat
ASSUME NullsAssumption == NoOrder \notin Orders /\ NoContext \notin RiskContext

VARIABLES
  mode,           \* which adapter was configured
  portfolio,
  transactions,   \* SimulatedBroker._transactions
  book,           \* the adapter's broker orders, oldest first
  connected,
  kill_switch,    \* KillSwitchRule.active
  audit_log,      \* RiskEngine._audit_log
  sweep,          \* the order a running reconciliation looks at, 0 when none runs
  pc,             \* where each client stands
  call,           \* the call each client makes, or made last
  calls           \* calls started

account == <<portfolio, transactions>>
adapter == <<mode, portfolio, transactions, book, connected>>
vars == <<mode, portfolio, transactions, book, connected, kill_switch, audit_log,
          sweep, pc, call, calls>>

\* execution is the place of the order's transaction in the log, 0 for none.
BrokerOrder ==
  [order : Orders, status : {"submitted", "filled", "cancelled", "rejected"}, execution : Nat]

\* What a call ended with: the broker order, or the error that was raised.
Results == {"pending", "ok", "risk_rejected", "order_error", "conflict", "not_found",
            "state_error", "unavailable", "transient"}

\* A submission carries its order and, until it is judged, its context; a
\* cancellation names the order to cancel by its id.
Call ==
  [op : {"none", "submit", "cancel", "reconcile"},
   order : Orders \cup {NoOrder},
   context : RiskContext \cup {NoContext},
   attempts : Nat,
   result : Results]

NoCall == [op |-> "none", order |-> NoOrder, context |-> NoContext,
           attempts |-> 0, result |-> "ok"]

TypeOK ==
  /\ mode \in Modes
  /\ portfolio \in PortfolioType
  /\ transactions \in Seq(Transaction)
  /\ book \in Seq(BrokerOrder)
  /\ connected \in BOOLEAN
  /\ kill_switch \in BOOLEAN
  /\ audit_log \in Seq(RiskAssessment)
  /\ sweep \in Nat
  /\ pc \in [Clients -> {"idle", "judge", "attempt", "sweep"}]
  /\ call \in [Clients -> Call]
  /\ calls \in 0..MaxCalls

Init ==
  /\ mode \in Modes
  /\ portfolio = [cash_balance |-> InitialCash,
                  positions |-> [s \in Symbols |-> NoPosition],
                  realized_profit |-> 0]
  /\ transactions = <<>>
  /\ book = <<>>
  /\ connected = TRUE
  /\ kill_switch = FALSE
  /\ audit_log = <<>>
  /\ sweep = 0
  /\ pc = [c \in Clients |-> "idle"]
  /\ call = [c \in Clients |-> NoCall]
  /\ calls = 0

\* No reconciliation is under way: the event loop is free to run another task.
LoopFree == sweep = 0

-----------------------------------------------------------------------------
(* Clients start a call. *)

Start(c, next, started) ==
  /\ LoopFree
  /\ pc[c] = "idle"
  /\ calls < MaxCalls
  /\ calls' = calls + 1
  /\ pc' = [pc EXCEPT ![c] = next]
  /\ call' = [call EXCEPT ![c] = started]
  /\ UNCHANGED <<adapter, kill_switch, audit_log, sweep>>

\* The context is built from the account as it is now; the gateway judges later.
BuildContext(c, order) ==
  LET context == ContextFor(portfolio, DayStartEquity, MarketPrices, Fee)
  IN  /\ ValidContext(context, portfolio)
      /\ Start(c, "judge", [NoCall EXCEPT !.op = "submit", !.order = order,
                                          !.context = context, !.result = "pending"])

CallCancel(c, order) ==
  Start(c, "attempt", [NoCall EXCEPT !.op = "cancel", !.order = order, !.result = "pending"])

CallReconcile(c) ==
  Start(c, "attempt", [NoCall EXCEPT !.op = "reconcile", !.result = "pending"])

\* The call of c ends with this result.
Finish(c, result) ==
  /\ pc' = [pc EXCEPT ![c] = "idle"]
  /\ call' = [call EXCEPT ![c].result = result, ![c].context = NoContext, ![c].attempts = 0]

-----------------------------------------------------------------------------
(* AsyncRiskManagedBroker.submit_order judges the order, then awaits the broker. *)

\* Mutant for the checks: the verdict is logged and not obeyed.
Judge_IgnoringVerdict(c) ==
  LET approved == Approved(call[c].order, call[c].context, portfolio, kill_switch, TRUE)
  IN  /\ LoopFree
      /\ pc[c] = "judge"
      /\ audit_log' = Log(audit_log, call[c].order, approved)
      /\ pc' = [pc EXCEPT ![c] = "attempt"]
      /\ call' = [call EXCEPT ![c].context = NoContext]
      /\ UNCHANGED <<adapter, kill_switch, sweep, calls>>

Judge(c) ==
  LET approved == Approved(call[c].order, call[c].context, portfolio, kill_switch, TRUE)
  IN  /\ LoopFree
      /\ pc[c] = "judge"
      /\ audit_log' = Log(audit_log, call[c].order, approved)
      /\ IF approved
         THEN /\ pc' = [pc EXCEPT ![c] = "attempt"]
              /\ call' = [call EXCEPT ![c].context = NoContext]
         ELSE Finish(c, "risk_rejected")
      /\ UNCHANGED <<adapter, kill_switch, sweep, calls>>

-----------------------------------------------------------------------------
(* ReliableBrokerClient._call. *)

\* Mutant for the checks: failed attempts are not counted.
FailedAttempt_Uncounted(c) ==
  pc' = [pc EXCEPT ![c] = "attempt"] /\ call' = call

\* A transient failure: another attempt, unless this was the last.
FailedAttempt(c) ==
  IF call[c].attempts + 1 < MaxAttempts
  THEN /\ pc' = [pc EXCEPT ![c] = "attempt"]
       /\ call' = [call EXCEPT ![c].attempts = @ + 1]
  ELSE Finish(c, "transient")

\* The adapter's answer reaches the client, or is lost on the way.  An error
\* that is not transient ends the call like a result does.
Answer(c, result) == Finish(c, result) \/ FailedAttempt(c)

\* The attempt fails before the adapter sees it.
RequestLost(c) ==
  /\ LoopFree
  /\ pc[c] = "attempt"
  /\ FailedAttempt(c)
  /\ UNCHANGED <<adapter, kill_switch, audit_log, sweep, calls>>

-----------------------------------------------------------------------------
(* The adapter. *)

\* The place of the order with this id in a book, 0 when there is none.
PlaceIn(orders, id) ==
  IF \E i \in DOMAIN orders : orders[i].order.order_id = id
  THEN CHOOSE i \in DOMAIN orders : orders[i].order.order_id = id
  ELSE 0

\* Mutant for the checks: only open orders are looked up.
Existing_OpenOnly(id) ==
  PlaceIn([i \in {k \in DOMAIN book : book[k].status = "submitted"} |-> book[i]], id)

Existing(id) == PlaceIn(book, id)

\* Mutant for the checks: the content of a known id is not compared.
ExistingAnswer_AnyContent(i, order) == "ok"

\* _existing_for: the same content gets the broker order, another a conflict.
ExistingAnswer(i, order) == IF book[i].order = order THEN "ok" ELSE "conflict"

Submitted(order) == [order |-> order, status |-> "submitted", execution |-> 0]

\* Mutant for the checks: the order names the transaction before its own.
Filled_PreviousTransaction(order) ==
  [order |-> order, status |-> "filled", execution |-> Len(transactions)]

\* The order once SimulatedBroker.execute has logged its transaction.
Filled(order) ==
  [order |-> order, status |-> "filled", execution |-> Len(transactions) + 1]

Record(order, after) ==
  transactions' = Append(transactions, TransactionOf(order, portfolio, after))

\* SimulatorBrokerAdapter: an order that cannot be executed leaves no broker order.
SubmitSimulation(c, order) ==
  LET outcome == execute(order, portfolio)
  IN  /\ portfolio' = outcome.portfolio
      /\ IF outcome.raised
         THEN /\ UNCHANGED <<transactions, book>>
              /\ Answer(c, "order_error")
         ELSE /\ Record(order, outcome.portfolio)
              /\ book' = Append(book, Filled(order))
              /\ Answer(c, "ok")

\* LocalPaperBrokerAdapter.
SubmitPaper(c, order) ==
  /\ book' = Append(book, Submitted(order))
  /\ UNCHANGED account
  /\ Answer(c, "ok")

HandleSubmit(c) ==
  LET order == call[c].order
      i == Existing(order.order_id)
  IN  /\ LoopFree
      /\ pc[c] = "attempt" /\ call[c].op = "submit"
      /\ IF ~connected
         THEN UNCHANGED <<account, book>> /\ Answer(c, "unavailable")
         ELSE IF i # 0
         THEN /\ UNCHANGED <<account, book>>
              /\ Answer(c, ExistingAnswer(i, order))
         ELSE IF mode = "simulation" THEN SubmitSimulation(c, order)
              ELSE SubmitPaper(c, order)
      /\ UNCHANGED <<mode, connected, kill_switch, audit_log, sweep, calls>>

HandleCancel(c) ==
  LET i == Existing(call[c].order.order_id)
      open == i # 0 /\ book[i].status = "submitted"
      result == IF ~connected THEN "unavailable"
                ELSE IF i = 0 THEN "not_found"
                ELSE IF book[i].status \in {"submitted", "cancelled"} THEN "ok"
                ELSE "state_error"
  IN  /\ LoopFree
      /\ pc[c] = "attempt" /\ call[c].op = "cancel"
      /\ book' = IF connected /\ open
                 THEN [book EXCEPT ![i].status = "cancelled"]
                 ELSE book
      /\ Answer(c, result)
      /\ UNCHANGED <<mode, account, connected, kill_switch, audit_log, sweep, calls>>

\* Only the paper adapter has anything to do when it reconciles.
HandleReconcile(c) ==
  /\ LoopFree
  /\ pc[c] = "attempt" /\ call[c].op = "reconcile"
  /\ IF connected /\ mode = "paper"
     THEN /\ sweep' = 1
          /\ pc' = [pc EXCEPT ![c] = "sweep"]
          /\ call' = call
     ELSE /\ sweep' = sweep
          /\ Answer(c, IF connected THEN "ok" ELSE "unavailable")
  /\ UNCHANGED <<adapter, kill_switch, audit_log, calls>>

\* One turn of the reconciliation loop: an open order is executed or rejected.
Sweep(c) ==
  LET entry == book[sweep]
      outcome == execute(entry.order, portfolio)
  IN  /\ pc[c] = "sweep"
      /\ sweep \in DOMAIN book
      /\ sweep' = sweep + 1
      /\ IF entry.status # "submitted"
         THEN UNCHANGED <<account, book>>
         ELSE /\ portfolio' = outcome.portfolio
              /\ IF outcome.raised
                 THEN /\ book' = [book EXCEPT ![sweep].status = "rejected"]
                      /\ UNCHANGED transactions
                 ELSE /\ book' = [book EXCEPT ![sweep] = Filled(entry.order)]
                      /\ Record(entry.order, outcome.portfolio)
      /\ UNCHANGED <<mode, connected, kill_switch, audit_log, pc, call, calls>>

\* Mutant for the checks: the last order is left out of the loop.
EndSweep_OneShort(c) ==
  /\ pc[c] = "sweep"
  /\ sweep >= Len(book)
  /\ sweep' = 0
  /\ Answer(c, "ok")
  /\ UNCHANGED <<adapter, kill_switch, audit_log, calls>>

EndSweep(c) ==
  /\ pc[c] = "sweep"
  /\ sweep > Len(book)
  /\ sweep' = 0
  /\ Answer(c, "ok")
  /\ UNCHANGED <<adapter, kill_switch, audit_log, calls>>

-----------------------------------------------------------------------------
(* Operators. *)

SetKillSwitch(active) ==
  /\ LoopFree
  /\ kill_switch # active
  /\ kill_switch' = active
  /\ UNCHANGED <<adapter, audit_log, sweep, pc, call, calls>>

set_connected(up) ==
  /\ LoopFree
  /\ connected # up
  /\ connected' = up
  /\ UNCHANGED <<mode, account, book, kill_switch, audit_log, sweep, pc, call, calls>>

-----------------------------------------------------------------------------

\* What the event loop does for a client that is in a call.
Proceed(c) ==
  \/ Judge(c)
  \/ RequestLost(c)
  \/ HandleSubmit(c)
  \/ HandleCancel(c)
  \/ HandleReconcile(c)
  \/ Sweep(c)
  \/ EndSweep(c)

Begin(c) ==
  \/ \E order \in Orders : BuildContext(c, order) \/ CallCancel(c, order)
  \/ CallReconcile(c)

Next ==
  \/ \E c \in Clients : Begin(c) \/ Proceed(c)
  \/ \E b \in BOOLEAN : SetKillSwitch(b) \/ set_connected(b)

Spec == Init /\ [][Next]_vars

\* asyncio runs every task that is ready, in turn; nobody has to start a call.
FairSpec == Spec /\ \A c \in Clients : WF_vars(Proceed(c))

-----------------------------------------------------------------------------
(* Properties. *)

\* The transaction log and the filled orders match one to one: a filled order
\* names the transaction of that very order, and every transaction belongs to
\* one filled order (BrokerOrder.__post_init__, local.py submit and reconcile).
ExecutionsMatchBook ==
  /\ \A i \in DOMAIN book :
       /\ book[i].status = "filled" <=> book[i].execution # 0
       /\ book[i].execution # 0 =>
            /\ book[i].execution \in DOMAIN transactions
            /\ transactions[book[i].execution].order = book[i].order
  /\ \A t \in DOMAIN transactions : \E i \in DOMAIN book : book[i].execution = t
  /\ \A i, j \in DOMAIN book :
       book[i].execution = book[j].execution /\ book[i].execution # 0 => i = j

\* No order reaches the book unless the risk engine approved that order id
\* (AsyncRiskManagedBroker.submit_order), whatever is retried or repeated.
EveryOrderApproved ==
  \A i \in DOMAIN book : \E a \in DOMAIN audit_log :
    audit_log[a] = [order_id |-> book[i].order.order_id, approved |-> TRUE]

Stands(order) == \E i \in DOMAIN book : book[i].order = order

\* What a call ended with is true of the book, after any number of lost answers
\* and retries: an accepted order stands with exactly that content, a conflict
\* names another content under the id, a cancelled order is and stays cancelled,
\* and one that could not be cancelled is settled otherwise (local.py 84-113).
AnswersTrue ==
  \A c \in Clients :
    LET order == call[c].order
        ended(op, result) == pc[c] = "idle" /\ call[c].op = op /\ call[c].result = result
        entry == book[Existing(order.order_id)]
    IN  /\ ended("submit", "ok") => Stands(order)
        /\ ended("submit", "conflict") =>
             ~Stands(order) /\ Existing(order.order_id) # 0
        /\ ended("cancel", "ok") =>
             Existing(order.order_id) # 0 /\ entry.status = "cancelled"
        /\ ended("cancel", "state_error") =>
             Existing(order.order_id) # 0 /\ entry.status \in {"filled", "rejected"}

\* A reconciliation that reports success leaves no order open (local.py 176-198).
ReconcileSettles ==
  [][\A c \in Clients :
       pc[c] = "sweep" /\ pc'[c] # "sweep"
         => \A i \in DOMAIN book' : book'[i].status # "submitted"]_vars

\* Every call ends, with a result or an error, however many attempts fail
\* (the bounded retry of ReliableBrokerClient._call).
CallsEnd == \A c \in Clients : pc[c] # "idle" ~> pc[c] = "idle"

\* The adapters behind gateway and retries keep the contract of the broker
\* boundary: one order per id with fixed content, final states, one execution.
EntryStatus(id) == IF Existing(id) = 0 THEN "none" ELSE book[Existing(id)].status
EntryContent(id) == IF Existing(id) = 0 THEN NoOrder ELSE book[Existing(id)].order

Contract == INSTANCE OrderContract WITH
  status   <- [id \in OrderIds |-> EntryStatus(id)],
  content  <- [id \in OrderIds |-> EntryContent(id)],
  executed <- [t \in DOMAIN transactions |-> transactions[t].order]

ImplementsContract == Contract!ContractSpec

\* The checklist of phase 3 promises a maximum absolute position value.  Each
\* open paper order was judged without the other open orders, and they fill
\* together at the next reconciliation.
PositionValueWithinMaximum ==
  \A s \in Symbols : QuantityOf(portfolio, s) * MarketPrices[s] <= MaxPositionValue

\* The kill switch blocks every order (docstring of KillSwitchRule).  An order
\* approved before it was thrown still enters the book at a later attempt.
NoOrderEntersUnderKillSwitch ==
  [][Len(book') > Len(book) => ~kill_switch]_vars
=============================================================================
