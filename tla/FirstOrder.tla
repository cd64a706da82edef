------------------------------ MODULE FirstOrder ------------------------------
(***************************************************************************)
(* run_first_paper_order (brokers/alpaca_onboarding.py): a console reads   *)
(* the account and a quote, has a purchase of one share assessed, asks for *)
(* a confirmation, has it assessed again and submits it, all of it against *)
(* an account that other consoles may be using.  Nothing is retried.       *)
(*                                                                         *)
(* The account is external: an open order may be filled, at its limit or   *)
(* below, or end without, and its owner may buy and sell by hand at any    *)
(* moment, on margin if need be.  A request may fail before it is handled, *)
(* its answer may be lost, and a POST nobody waits for any more may still  *)
(* arrive.                                                                 *)
(***************************************************************************)
EXTENDS Integers, FiniteSets

CONSTANTS
  Consoles,      \* runs of the command
  Quotes,        \* bound: prices of the share
  Balances,      \* bound: cash of the account at the beginning
  MaxTrades      \* bound: purchases and sales by the owner

ASSUME QuotesAssumption == Quotes \subseteq Nat \ {0} /\ Balances \subseteq Nat /\ MaxTrades \in Nat

VARIABLES
  console,     \* of each run: where it stands, the cash and the quote it has read
  order,       \* at Alpaca: the order of each run and its limit
  account,     \* at Alpaca: cash and shares
  trades,      \* how often the owner has bought or sold
  by_hand,     \* history: the shares the owner has bought
  taken,       \* history: the cash that went out since each run read the balance
  crowded      \* history: the runs that began before all earlier ones and their orders had ended

firstOrderVars == <<console, order, account, trades, by_hand, taken, crowded>>

Reading == {"read_cash", "read_positions", "read_quote"}
Reported == {"blocked", "cancelled", "sent", "raised"}
Console == [phase : {"new", "asking", "sending"} \cup Reading \cup Reported,
            cash : Int, quote : Quotes \cup {0}]

\* "on_its_way" is a POST not handled yet, "lost" one that never will be.
OrderOfRun == [status : {"none", "on_its_way", "lost", "refused", "open", "filled", "ended"},
               limit : Quotes \cup {0}]

FirstOrderTypeOK ==
  /\ console \in [Consoles -> Console]
  /\ order \in [Consoles -> OrderOfRun]
  /\ account \in [cash : Int, shares : Nat]
  /\ trades \in 0..MaxTrades
  /\ by_hand \in Nat
  /\ taken \in [Consoles -> Nat]
  /\ crowded \in Nat

FirstOrderInit ==
  /\ console = [c \in Consoles |-> [phase |-> "new", cash |-> 0, quote |-> 0]]
  /\ order = [c \in Consoles |-> [status |-> "none", limit |-> 0]]
  /\ account \in [cash : Balances, shares : 0..1]
  /\ trades = 0
  /\ by_hand = 0
  /\ taken = [c \in Consoles |-> 0]
  /\ crowded = 0

-----------------------------------------------------------------------------
(* The risk engine with the policy of this command, in an account without *)
(* positions and without fees.                                            *)

AAPL == [symbol |-> "AAPL", currency |-> "USD"]

Gate == INSTANCE RiskEngine WITH
  Symbols <- {"AAPL"}, Instruments <- {AAPL}, AccountCurrency <- "USD",
  NoPosition <- "no position", OrderIds <- Consoles, Orders <- {}, Fee <- 0,
  MaxOrderValue <- 500, MaxPositionValue <- 500,
  MaxConcentration <- 1, MinCashReserve <- 50, MaxDailyLoss <- 1

EmptyPortfolio(cash) ==
  [cash_balance |-> cash, positions |-> [s \in {"AAPL"} |-> "no position"],
   realized_profit |-> 0]

OneShare(c, quote) ==
  [order_id |-> c, instrument |-> AAPL, side |-> "buy", quantity |-> 1, price |-> quote]

\* risk_engine.assess: the equity at the start of the day is the cash of now.
Approves(c, cash, quote) ==
  LET portfolio == EmptyPortfolio(cash)
      context == Gate!ContextFor(portfolio, cash, [s \in {"AAPL"} |-> quote], 0)
  IN  Gate!Approved(OneShare(c, quote), context, portfolio, FALSE, TRUE)

-----------------------------------------------------------------------------
(* A run of the command. *)

Outstanding(c) == order[c].status \in {"on_its_way", "open"}
Running(c) == console[c].phase \in Reading \cup {"asking", "sending"}

Enter(c, phase) == console' = [console EXCEPT ![c].phase = phase]

Launch(c) ==
  /\ console[c].phase = "new"
  /\ Enter(c, "read_cash")
  /\ crowded' = IF \E d \in Consoles : Running(d) \/ Outstanding(d) THEN crowded + 1 ELSE crowded
  /\ UNCHANGED <<order, account, trades, by_hand, taken>>

\* The first request of get_account.
ReadCash(c) ==
  /\ console[c].phase = "read_cash"
  /\ console' = [console EXCEPT ![c].phase = "read_positions", ![c].cash = account.cash]
  /\ taken' = [taken EXCEPT ![c] = 0]
  /\ UNCHANGED <<order, account, trades, by_hand, crowded>>

\* Mutant for the checks: an account with positions is taken too.
ReadPositions_Any(c) ==
  /\ console[c].phase = "read_positions"
  /\ Enter(c, "read_quote")
  /\ UNCHANGED <<order, account, trades, by_hand, taken, crowded>>

\* The second request of get_account; only an account without positions will do.
ReadPositions(c) ==
  /\ console[c].phase = "read_positions"
  /\ Enter(c, IF account.shares = 0 THEN "read_quote" ELSE "raised")
  /\ UNCHANGED <<order, account, trades, by_hand, taken, crowded>>

\* The quote arrives and the order is assessed.  An account without cash makes no
\* valid portfolio or context, which raises.
ReadQuote(c) ==
  /\ console[c].phase = "read_quote"
  /\ \E quote \in Quotes :
       console' = [console EXCEPT ![c].quote = quote,
                     ![c].phase = IF console[c].cash <= 0 THEN "raised"
                                  ELSE IF Approves(c, console[c].cash, quote)
                                  THEN "asking" ELSE "blocked"]
  /\ UNCHANGED <<order, account, trades, by_hand, taken, crowded>>

\* The answer to the question, however much later: exactly the confirmation or
\* anything else.  A confirmed order is assessed again, on what was read before
\* the question, and posted with the quote as its limit.
Confirm(c) ==
  /\ console[c].phase = "asking"
  /\ \/ Enter(c, "cancelled") /\ UNCHANGED order
     \/ IF Approves(c, console[c].cash, console[c].quote)
        THEN /\ Enter(c, "sending")
             /\ order' = [order EXCEPT ![c] = [status |-> "on_its_way",
                                               limit |-> console[c].quote]]
        ELSE Enter(c, "raised") /\ UNCHANGED order
  /\ UNCHANGED <<account, trades, by_hand, taken, crowded>>

\* Mutant for the checks: any answer to the POST is reported as a success.
Report_Anyway(c) ==
  /\ console[c].phase = "sending"
  /\ order[c].status \notin {"on_its_way", "lost"}
  /\ Enter(c, "sent")
  /\ UNCHANGED <<order, account, trades, by_hand, taken, crowded>>

\* The answer to the POST arrives.
Report(c) ==
  /\ console[c].phase = "sending"
  /\ order[c].status \notin {"on_its_way", "lost"}
  /\ Enter(c, IF order[c].status = "refused" THEN "raised" ELSE "sent")
  /\ UNCHANGED <<order, account, trades, by_hand, taken, crowded>>

\* A request fails, an answer is lost or unreadable, or the user interrupts.
Interrupted(c) ==
  /\ Running(c)
  /\ Enter(c, "raised")
  /\ UNCHANGED <<order, account, trades, by_hand, taken, crowded>>

-----------------------------------------------------------------------------
(* Alpaca, external to the repository. *)

SetStatus(c, status) == order' = [order EXCEPT ![c].status = status]

\* A share is bought: the cash goes out under every run that has read the balance.
Buy(price) ==
  /\ account' = [cash |-> account.cash - price, shares |-> account.shares + 1]
  /\ taken' = [c \in Consoles |-> taken[c] + price]

HandlePost(c) ==
  /\ order[c].status = "on_its_way"
  /\ \E status \in {"open", "refused", "lost"} : SetStatus(c, status)
  /\ UNCHANGED <<console, account, trades, by_hand, taken, crowded>>

FillOrder(c) ==
  /\ order[c].status = "open"
  /\ SetStatus(c, "filled")
  /\ \E price \in Quotes : price <= order[c].limit /\ Buy(price)
  /\ UNCHANGED <<console, trades, by_hand, crowded>>

\* Cancelled in the dashboard, or expired at the end of the day.
OrderEnds(c) ==
  /\ order[c].status = "open"
  /\ SetStatus(c, "ended")
  /\ UNCHANGED <<console, account, trades, by_hand, taken, crowded>>

OwnerTrades ==
  /\ trades < MaxTrades
  /\ trades' = trades + 1
  /\ \E price \in Quotes :
       \/ Buy(price) /\ by_hand' = by_hand + 1
       \/ /\ account.shares > 0
          /\ account' = [cash |-> account.cash + price, shares |-> account.shares - 1]
          /\ UNCHANGED <<by_hand, taken>>
  /\ UNCHANGED <<console, order, crowded>>

FirstOrderNext ==
  \/ \E c \in Consoles :
       \/ Launch(c)
       \/ ReadCash(c)
       \/ ReadPositions(c)
       \/ ReadQuote(c)
       \/ Confirm(c)
       \/ Report(c)
       \/ Interrupted(c)
       \/ HandlePost(c)
       \/ FillOrder(c)
       \/ OrderEnds(c)
  \/ OwnerTrades

-----------------------------------------------------------------------------
(* Properties. *)

OutstandingOrders == {c \in Consoles : Outstanding(c)}

\* "At most one AAPL order" (alpaca_onboarding.py 21) as the account sees it.  The
\* check of an empty account (29) sees positions and no open orders: what is held
\* and awaited stays one share, and one more for each that the owner bought and for
\* each run that began while another one, or its order, had not ended.  The second
\* assessment (74) knows only what was read before the question: an order that is out
\* may go beyond the policy, but by no more than the cash that went out since.
FirstOrderStaysSmall ==
  /\ account.shares + Cardinality(OutstandingOrders) <= 1 + crowded + by_hand
  /\ \A c \in OutstandingOrders :
       /\ order[c].limit * 100 <= account.cash + taken[c]
       /\ order[c].limit <= 500

\* What the console prints is true at Alpaca: after "blocked" and "cancelled,
\* nothing has been sent" (alpaca_onboarding.py 55, 70) no order of this run is
\* there or on its way, and after "sent" it is there, in overlapping runs too.
ReportTrue ==
  \A c \in Consoles :
    /\ console[c].phase \in {"blocked", "cancelled"} => order[c].status = "none"
    /\ console[c].phase = "sent" => order[c].status \in {"open", "filled", "ended"}
=============================================================================
