# Broker AI in TLA+

A verification development kept beside the code of Broker AI, a broker and
backtesting platform in Python that trades on paper only. It models the order
path from the risk rules to the account, the boundary to brokers that lose
answers, the API that records proposals, the copy of an external broker in the
local database, the backtest, the first paper order and the rate limiter. Paths below are relative to the repository;
`broker_ai/` stands for `src/src/broker_ai/` in `PROJECT.json`.

## 1. Inventory of the system

| Component | State it keeps | Operations | What makes it correct |
|---|---|---|---|
| Portfolio and orders, `domain/` | cash, one position per symbol, realized profit | `deposit`, `withdraw`, `record_purchase`, `record_sale` | cash never negative, no empty position, book value conserved |
| Simulated broker, `brokers/simulated.py` | its transactions | `execute` | an execution happens entirely or not at all, and is logged once |
| Risk engine, `risk/` | kill switch, audit log | `assess`, `activate`, `deactivate` | nothing passes that a rule refuses; every verdict is logged |
| Gateways, `risk/gateway.py` | none | `execute`, `submit_order` | the only road to a broker |
| Local adapters, `brokers/local.py` | broker orders, transactions, portfolio, connection | `submit_order`, `cancel_order`, `reconcile_orders`, `set_connected` | one order per id, final states final, executed when filled |
| Reliable client, `brokers/reliable.py` | none | `_call` around every operation | a retry repeats nothing that was done, and ends |
| Alpaca adapter, `brokers/alpaca.py` | orders this session has placed | as the local adapters, by HTTP | knows what it has placed; answers are true |
| Synchronisation, `brokers/alpaca_sync.py` | tables `broker_orders`, `broker_positions`, `broker_sync_runs` | one run | positions shown stood together; orders explain them |
| Sync worker, `server/sync_worker.py` | task, `running`, failure count | `start`, `stop`, `run_once` | a failure or a stop never disables it for good |
| Server API, `server/app.py` | none of its own but counters | `create_bot`, `propose`, `decide`, reading endpoints | a status is explained by the bot's mode or an administrator |
| Rate limiter and login, `server/app.py` | a deque of times per address | `check`, `current_user` | no more than the limit in any window; a burst does not make the deque grow |
| First paper order, `brokers/alpaca_onboarding.py` | what a console has read | `run_first_paper_order` | one share, within the policy of the account it read; says what happened |
| Database, `server/database.py` | SQLite tables | `execute`, `fetchone`, `fetchall`, `audit`, `backup` | audit log and tables agree |
| Backtest, `backtesting/engine.py` | portfolio, equity curve, pending signal | `run` | no order from the future; sizing within the policy |
| Moving averages, `strategies/` | none | `decide` | never acts on what it cannot know yet |
| Command line, `main.py` | none | one command per process | runs only what is named |
| Data, demos, settings, logging | none | parsing, printing | - |

How they interact. A caller builds a `RiskContext`, which holds a reference to the
live portfolio next to prices and equity of the moment it was built. The
synchronous gateway judges it and calls `SimulatedBroker.execute` at once. The
asynchronous gateway judges it and awaits `ReliableBrokerClient`, which runs the
adapter under `wait_for`, up to `max_attempts` times. The local adapters execute
against the portfolio; the Alpaca adapter sends HTTP requests. The server writes
proposals and audit rows, statement by statement, from a pool of threads. Its sync
worker and the console command `alpaca-sync` each copy Alpaca into the tables, in
two processes with nothing in common but the database file.

What is hard in it. Clients interleave wherever a call awaits. An answer is lost
after the work was done, and the work is asked for again. Requests that were given
up arrive late. A verdict is used after the state it was based on has changed. A
handler is several transactions, and the server may stop between them. Two
snapshots of a moving broker are taken one after the other. `PROJECT.json` lists
the hazards line by line, with the properties aimed at each.

## 2. Modules

```
Portfolio  <-  SimulatedBroker  <-  RiskEngine  <-  RiskManagedBroker   (synchronous path)
                                              <-  PaperTrading  --implements-->  OrderContract
                                              <-  Backtest  <-  Main    (process per command)
MovingAverageStrategy  <-  Backtest
RiskEngine  <-  FirstOrder  <-  Main      RateLimiter  <-  Main
AlpacaPaper      BrokerSync      ProposalApi                            (on their own)
```

`MC*.tla` extend a module with the values of an instance; `*_proofs.tla` hold theorems.

**Portfolio, SimulatedBroker.** Operators from a portfolio to what the method
leaves behind and whether it raised, so that the stages of `execute` (withdraw,
record, deposit) stay visible and a partial failure would show. Money is a whole
number of smallest units: sums and products are exact, a quotient is rounded half to
even and never reaches zero, as with the 28 digits of `Decimal`. Transaction ids and
clocks are left out; a transaction holds the order it is copied from.

**RiskEngine.** The six rules as predicates over an order, the frozen part of a
context and the live portfolio. Rates are percentages, compared after
cross-multiplication. `extra_rules` are one Boolean: their conjunction, where a rule
that raises counts as a refusal, as `assess` has it.

**RiskManagedBroker.** `Execute` is `RiskManagedBroker.execute` from the verdict to
the log. The environment is any caller: it presents fresh contexts or the one it
presented last, with or without the broker's fee, while prices move, days begin and
the kill switch is thrown. With one portfolio, the check that a context belongs to
the portfolio at hand never fails and is left out.

**OrderContract.** The promise of the broker boundary, apart from any adapter: an
id stands for one order with fixed content, open until it is filled, cancelled or
rejected, and executed exactly when it becomes filled. Written from `BrokerOrder` and
`BrokerInterface`.

**PaperTrading.** Clients, gateway, retries, adapter, broker and account composed.
`pc[c]` says where a client stands: building a context is one step, the verdict
another (`Judge`), each attempt a third (`HandleSubmit`, `HandleCancel`,
`HandleReconcile`), since the code may yield between them: `wait_for` may run an
attempt in a task of its own, a transport may hold it up, and between attempts the
client sleeps. Inside the adapter nothing is awaited: a call is one step, and the
loop of a reconciliation is taken order by order while `LoopFree` stops everyone
else. `RequestLost` fails an attempt before the adapter sees it; `Answer` delivers a
result or loses it. Both adapters are there, `mode` chooses.

**AlpacaPaper.** The adapter's two maps are one sequence, `known`, as they are
written together. Each HTTP request is three steps: sent, carried out by the store
(`HandleRequest`), answer taken (`Receive`); in between anything may happen.
`GiveUp` stands for time-outs, network errors and 429/5xx, which are retried, and for
other broken connections and answers that cannot be read, which raise at once; a POST
or DELETE given up may still arrive (`HandleStray`). The store is external: it takes a
client order id once and keeps a settled order settled; it may turn any request down
with a 4xx (`"refused"`), and it refuses a taken id and may refuse to cancel a settled
order (`"already"`). The adapter raises the same `BrokerError` for both, and only its
text tells them apart. Of an open order a part may be filled before the rest
is filled, cancelled or expires; `_to_broker_order` makes an execution of filled
orders only. `Restart` is a new process with empty maps.

**BrokerSync.** A run is `get_account`, `get_recent_order_snapshots`, the
transaction, the audit record. A request lists only the newest `RecentLimit` orders
(100 in the code). `StepFails` raises in any step, `Kill` ends a process in any
step, `StopServer` cancels where the task awaits; the server may start and stop any
number of times. At the broker, orders are placed, filled share by share, and
cancelled, also after a part was filled. A purchase is of a symbol of its own and a
sale is of what one purchase bought, so that a position is named after its purchase
and may shrink and vanish. `held` is a history of all the positions that have stood.

**ProposalApi.** The three writing handlers, cut where one statement ends and the
next begins, since every statement commits. Only requests of an administrator with
a valid body: any other is answered before a handler runs. `committed` is a history of
all changes committed, with the status each gave its row; an audit record reports
such a change. Of two decisions that commit the same status on one proposal, which
`decide` allows when they overlap, the history keeps one.

**RateLimiter.** `current_user` in a pool of threads, for one address, since the
deques of two have nothing in common. A step is what the interpreter does without
letting another thread run: a test of the loop, `popleft`, the count, the append.
The comparison of a token with the stored hashes may turn out either way; the error of
a database that cannot be read at that point is counted with the endpoint's own answers.

**FirstOrder.** Consoles that read the cash, the positions and a quote in three
requests, ask, assess again and post. Between any two steps the account moves: an
open order fills at its limit or below or ends without, the owner buys or sells by
hand, into debt if need be. The policy
and the empty portfolio are those of the code, in an instance of `RiskEngine`. A
failed request, a lost answer and an interrupt at the question are `Interrupted`.

**MovingAverageStrategy, Backtest.** One action per bar, with any opening and
closing price. The strategy is either any, with any signal at each close, or the
moving averages, which are asked with the bars and the position of that close.
Sizing, slippage, gateway and execution are those of the modules above. A refusal or
a failing order raises and ends the run. Drawdown and benchmark are functions of the
bars and the curve.

**Main.** The command line: a process runs one command, and what the others would
have kept stays as it was. One instance checks three of them side by side.

## 3. What TLC checks

| Run | Shows | Bounds |
|---|---|---|
| `risk_managed_broker` | every execution has an approval of its own; the log explains the account; no execution moves the book value beyond its rounding; purchases respect reserve and exposure of the context they were judged in, however old | 4 assessments, 7 orders, 3 prices; 1.8 million states |
| `paper_trading` | orders, transactions and approvals match; answers are true; reconciliation settles; **implements OrderContract** | 2 clients, 3 calls, 2 attempts, both adapters |
| `paper_liveness` | every call ends | 2 clients, 2 calls, 3 attempts |
| `alpaca_paper` | known orders stand in the store with that content; answers are true; shares go unreported only when an order ends after a part was filled; no order is unknown unless something was cut off | 2 clients, 3 calls, 2 attempts, 1 restart; 2.4 million states |
| `broker_sync` | positions shown stood together at the broker and orders explain them; rows go back only under overlap; unlogged runs were cut off; the tables come to be up to date | a purchase, its sale, a purchase of two shares, 2 orders listed, 1 console run, 1 failure or kill; 1.8 million states |
| `proposal_api` | every status is what the bot's mode gives or an administrator decided; the log names only committed changes, with their status, and misses nothing but what was cut off | 2 threads, 2 bots, 2 proposals, 4 requests, 2 cut off; 0.46 million states |
| `commands`: backtest | sizing picks the largest quantity the rules approve; only a worthless sale ends a run; equity stays positive; moving averages trade on averages of earlier bars and by turns; the drawdown is the worst fall; the benchmark buys what cash and fee allow | 4 bars, 3 prices, windows 1 and 2, 7 fees of the benchmark |
| `commands`: first order | held and awaited is one share, and one more per share the owner bought and per run begun too early; an order exceeds the policy by no more than the cash that went out since; what is printed is true | 3 consoles, 3 quotes, 3 balances, 1 trade by the owner |
| `commands`: server | without overlap exactly the limit in any window, refusals only when it is reached; with it the deque stays within the limit plus threads | 3 threads, limit 2, window 2, 5 requests, 5 instants; all `commands` together 2.6 million states |

Five runs look for what the repository says and find it violated:

| Run | Said | Found |
|---|---|---|
| `position_limit_violation` | maximum absolute position value (`:12`) | open paper orders are judged one by one and fill together |
| `kill_switch_violation` | the switch blocks every order (`risk/rules.py:16`) | read once, before the submission and its retries |
| `decision_violation` | a decided proposal does not wait any more (`server/app.py:215`) | the status is read in one transaction and overwritten in another |
| `repeat_violation` | repeating an order gives the same order when an answer was lost (`docs/architecture.md:90-92`) | the Alpaca adapter does not look the order up by its id at Alpaca: the retry is refused and the order stays unknown |
| `cancel_violation` | cancelling is idempotent (`docs/decisions/0005-async-broker-contract.md:22`, `docs/phase-4-checklist.md:15`) | the Alpaca adapter sends the DELETE again: after a lost answer the retry is refused for the order it has cancelled |

*Why the bounds are enough.* Each interesting case needs few actors: two clients meet
on one order, a third call comes after both; two attempts are one failure and one
retry; two contents under one id make a conflict. Prices and limits are chosen so
that each rule refuses some order and approves another, that the second purchase
exceeds what the first has left, that a single share can be worth less than the fee,
and that a sale leaves a rounded average price behind. Quotes of 500 and 501 and
balances of 49999 and 50000 lie on either side of the limits of 500 dollars and one
per cent. Four bars are a purchase, a sale and a bar after each, with averages of one
and two bars. Three threads and a limit of two let a burst exceed the limit and leave
`popleft` without an entry, so that the cases the properties except do occur. In `broker_sync` three orders
and a list of two make an order fall out of the list; the sale makes a position vanish,
and the purchase of two shares is shown half filled. Each property has a mutant in
`PROJECT.json` under which TLC finds it violated in the same instance.

*Fairness.* `paper_liveness` assumes that a client in a call goes on
(`WF(Proceed(c))`): asyncio runs ready tasks and `wait_for` ends each wait. Nobody
has to start a call, no network has to work: lost requests and answers are among the
steps of `Proceed`. `broker_sync` assumes that a process under way takes its next
step and that the loop wakes up; that only a bounded number of runs fails or is
killed is a bound of the model, and without it the tables could stay behind for ever.
That the server stays up is a hypothesis of the property and not of the
specification. `alpaca_paper` states no liveness: its calls end for the reason
checked in `paper_liveness`, the same `_call` around them.

## 4. What is proved

Every invariant and every action property that a run checks is a theorem, for every
value of the constants that satisfies the named assumptions: any number of clients,
consoles, threads, orders, symbols, attempts and bars, any prices, fees and policies.
`TypeCorrect` of each module (`MainTypeInvariant`, `ContractTypeCorrect`) is its type
invariant; the others:

| Theorem | Property | Says |
|---|---|---|
| `SimulatedBroker_proofs!ExecuteAtomic` | | an execution that raises leaves the account as it was, any other leaves a valid one |
| `RiskManagedBroker_proofs!ApprovalInvariant` | `EveryExecutionApproved` | each execution has an approval of its own |
| `!LogInvariant` | `LogExplainsAccount` | cash, shares and profit are what the log adds up to |
| `!BookValueKept` | `BookValueConserved` | an execution moves book value by what is rounded, at most |
| `!ReserveHeld`, `!ExposureHeld` | `CashReserveHeld`, `ExposureWithinPolicy` | what the rules demanded before a purchase holds after it, in a context of any age |
| `OrderContract_proofs!NoDoubleExecution` | | under the contract an id is executed at most once, with the content it stands for |
| `PaperTrading_proofs!MatchInvariant` | `ExecutionsMatchBook` | filled orders and transactions match one to one |
| `!ApprovalInvariant` | `EveryOrderApproved` | every order in the book was approved |
| `!ContractImplemented` | `ImplementsContract` | the order path implements `OrderContract` |
| `!AnswersAreTrue` | `AnswersTrue` | what a client was told is so in the book, and stays so |
| `!ReconciliationSettles` | `ReconcileSettles` | a reconciliation that returns has left no order open |
| `AlpacaPaper_proofs!KnownInvariant` | `KnownIsPlaced` | what the maps hold stands at Alpaca with that content, once |
| `!OrphanInvariant` | `NoOrphanWithoutCutOff` | nothing stands at Alpaca unknown unless something was cut off |
| `!AnswersAreTrue`, `!FillsAreTold` | `AnswersTrue`, `OnlyPartialFillsUnreported` | answers and refusals with a reason are true; what was executed goes unreported only after a partial fill |
| `BrokerSync_proofs!PositionsInvariant`, `!TogetherInvariant` | `PositionsExplained`, `PositionsStoodTogether` | positions shown stood together, and orders explain them |
| `!UnloggedInvariant` | `UnloggedOnlyWhenCutOff` | a run without an audit record was cut off or is about to write it |
| `!RowsAdvance` | `RowsOnlyAdvance` | rows go back only after runs have overlapped |
| `ProposalApi_proofs!StatusInvariant` | `StatusExplained` | a status is the one the bot's mode gives, or one that was decided where decisions are asked for |
| `!AuditInvariant`, `!UnloggedInvariant` | `AuditTellsTheTruth`, `UnloggedOnlyWhenCutOff` | the audit log names committed changes with their status, and misses only what was cut off |
| `Main_proofs!DequeInvariant` | `DequeBounded` | the deque outgrows the limit by fewer places than there are threads |
| `!ExactInvariant` | `ExactWhenAlone` | requests that do not overlap are limited exactly |
| `!FirstOrderInvariant`, `!ReportInvariant` | `FirstOrderStaysSmall`, `ReportTrue` | shares and orders are bounded under overlap and trades of the owner; what is printed is true |
| `!EquityInvariant` | `EquityPositive` | every point of the curve can be divided by |
| `!EndInvariant` | `OnlyAWorthlessSaleEndsRun` | no backtest ends by a refusal of the risk engine |
| `!SizingInvariant` | `SizingMatchesRules` | a purchase is the largest the rules approve |
| `!BenchmarkInvariant` | `BenchmarkWithinMeans` | the benchmark buys what cash and fee allow, and is short only where the fee exceeds the cash by a share |
| `!AverageInvariant` | `MovingAverageTradesJustified` | trades alternate, each on averages of bars that had closed |
| `!DrawdownInvariant` | `DrawdownIsWorstFall` | the drawdown of the one pass is the worst fall between any two points |

**Account and broker.** `SimulatedBroker_proofs` states what the stages of `execute`
come to: which sales raise (`SaleOutcome`), that a purchase the cash pays for does not
(`PurchaseSucceeds`), and what an execution leaves in cash, shares, average price and
profit (`PurchaseLeaves`, `SaleLeaves`). The other modules cite these and never look
into the stages again.

**Synchronous path.** Each rule states an inequality about the account before the
purchase; `PurchaseStep` and the effects carry it to the account after it. Nothing is
assumed of the age of the context: equity and prices are frozen in it, while cash and
quantities are read when it is judged, so that orders judged in one context add up. Of
the reserve it is assumed that the context has at least the broker's fee; the fee
defaults to zero (`risk/models.py:53`) and is compared with nothing, and a context
without it spends the fee out of the reserve. `LogExplainsAccount` speaks of sums over
a log. `Tally` is the function that the fold of the community module takes the value of;
it exists and satisfies its equation, entry by entry (`TallyByEntry`), by induction on a
set of numbers (`NumbersBySteps`, from the library's theorem on minimal elements, which
takes no operator parameter). An appended entry then changes the sum by its own worth
(`TallyAppend`), which is what `ExecuteAtomic` and the effects say of the account. The
book value is a sum over held symbols, which `MapThenSumSet` takes in an order that
`CHOOSE` leaves open; `SumAnyFirst` shows that the order does not matter, so that only
the symbol of the order counts (`InvestedChange`). `PurchaseRounds` and `SaleRounds` are
the arithmetic of the rounded quotient.

**Asynchronous path.** `TypeOK` is not inductive: that a submission carries an order and,
until judged, a context has to be added (`CallsCarryTheirData`). Each step does one of
three things to the book (`BookStep`): it accepts one new entry, settles one open entry,
or leaves book and transactions alone. Match, refinement and answers are proved for these
three and not for each action. The refinement needs that ids in the book are unique
(`IdsUnique`); the approval of orders that a client about to attempt a submission has been
approved (`ApprovalInv`). An answer is a claim about the place of an id in the book
(`ClaimTrue`); it is true when it is given (`HandleSubmitTruth`, `HandleCancelTruth`),
and no later step of anybody undoes it (`ClaimKept`). A sweep has left nothing open
behind it (`SweepInv`), since nobody else runs during it.

**Alpaca adapter.** The store and the maps are written in different steps.
`KnownIsPlaced` is inductive together with `AnsweredPosts`: an answered POST that its
client has not taken yet stands in the store, is not in the maps, and has no other such
POST beside it. That rests on one fact of the store: it takes a POST only under a free id
and never changes a content (`StoreKeepsContents`, `PostTakesFreeId`). For
`NoOrphanWithoutCutOff` it has to be added that nothing is stray before the first cut
(`NothingStrayYet`). A call that ends in an error without a reason claims nothing. For the answers, a reply under way must still be true when it is
taken (`ReplyTrue`), of the order the call asks for (`CallFits`).

**Synchronisation.** What a run has fetched and what the rows show is never ahead of the
broker (`NeverAhead`), and without overlap the rows are not ahead of what the one run has
fetched (`AloneSoFar`). What is held never exceeds what its purchase has been filled for
(`PositionsBought`) and is in the history of positions (`PositionsHeld`). Positions are
fetched first, so that the order list is no older than they are (`FetchExplained`). Missing audit records are counted with the runs about
to write theirs (`UnloggedCounted`).

**Proposal API.** Between its statements a handler holds what it has read. The invariant
says why that cannot be stale where it matters: bots never change (`BotsActive`,
`MayInsert`), and a proposal that waits belongs to a bot that asks for decisions for as
long as it exists (`PendingAsks`, `MayUpdate`). That its status cannot be stale is not
among them: `decision_violation` shows that it can. For the audit log, what a handler is
about to report has been committed, and so has everything reported
(`AuditExplained`).

**Rate limiter.** A thread that has passed the count holds a place it has not taken yet.
`DequeInv` counts those places (`Admitted`) with the deque. Without overlap the deque is
the last part of all requests let in (`DequeIsSuffix`), what was dropped has expired, and
requests `Limit` places apart are a window apart (`Spaced`), of which `WindowNotOverfull`
makes that no window holds more.

**First order.** The runs that have not ended are no more than one and those begun too
early (`RunsCounted`); among them are those that may still bring a share, since they
await it or have found the account empty, and a share that arrives is taken from them
(`FillCounted`). The balance a run has read exceeds the present one by no more than
what went out since (`WithinBalance`); `ApprovedIsSmall` is what the policy makes of
that.

**Backtest.** Something is always left to the account, cash or a position (`Solvent`):
a sale that brings in less than its fee raises, and a purchase buys a share. So equity is
positive and the loss rule can be met, and `ApprovedIfAllowed` reduces the six rules to
the one comparison the sizing makes. The averages are sums over bars gone by, and equal
on two histories that agree on them (`SumsAgree`). The drawdown is a fold, unrolled point by point (`FallFold`); after
each point the worst fall so far is known (`WorstSoFar`).

The assumptions are those the modules declare: finite or infinite sets of symbols,
instruments and orders with the fields `Order` demands, amounts positive, the null
values outside their types, percentages in their ranges; a finite pool of threads in the
API and in the limiter, and finitely many processes and orders in the synchronisation.
`Main_proofs` proves of each command what it does alone and carries it over to the
process (`ServesLimiter`, `RunsFirstOrder`, `RunsBacktest`).

Only model-checked: the two liveness properties, `CallsEnd` of `paper_liveness` and
`EventuallyUpToDate` of `broker_sync`, as fairness and `ENABLED` are out of the prover's
reach; and that the runs expected to violate do so.

## 5. What is not modelled

- Answers of Alpaca that contradict themselves, such as a filled order with a part of
  its quantity. Prices of the adapter but for the quote of FirstOrder, and the account's
  status: they are read.
- The 28 digits of `Decimal` but in the average price of a position: sums, products and
  the quantity a backtest sizes (`engine.py:174`) are exact here. They differ only for
  amounts of more digits than that, or a quotient that close to a whole number.
- Which of two errors of one kind a text tells apart: `BrokerError` is one class.
- Reading endpoints, request metrics, database backup.
- The first administrator (`seed_admin`), and the form of a token: `current_user`
  strips what is supplied and not what was configured.
- Total return, volatility and Sharpe ratio of the backtest: a quotient of two states
  and statistics in floating point.
- Parsing of historical data, settings, logging and the walks of the demos.
- What the limiter lets in when requests overlap: more than the limit, by less than
  the number of threads at a time, or a 500 when `popleft` finds nothing. No statement
  of the repository speaks of it; only the length of the deque is bounded.
- Time: backoff, intervals, time-out lengths. A time-out may happen whenever
  something is waited for.

## 6. Plan

Done, in this order: account and broker, risk engine and synchronous gateway; the
contract and the asynchronous path with its proofs; the proposal API; the Alpaca
adapter with its proofs; the synchronisation, the backtest; partial fills, the first
order, the moving averages, the report of the backtest, and the rate limiter; sales and
partial fills in the synchronisation, trades of the owner in the first order; then the
proofs of the synchronous path, the proposal API, the synchronisation, the commands, and
of the answers of both adapters. Left:

1. An abstract ledger, of cash, shares and profit alone, that `RiskManagedBroker` and the
   backtest implement: both execute through the same broker, and only the first has
   `LogExplainsAccount`.
2. How far the deque of the limiter lets a burst through when requests overlap: a bound
   on any window in terms of the threads, first as a property and then as a theorem.
3. What a console that overlaps others can spend in all: `FirstOrderStaysSmall` bounds
   each order by the cash that went out since its own reading only.
4. How far an open paper order can take a position beyond its maximum: the sum of what
   was approved and is open, which `position_limit_violation` only shows to be exceeded.
