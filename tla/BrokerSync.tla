----------------------------- MODULE BrokerSync -----------------------------
(***************************************************************************)
(* Alpaca Paper copied into the local database: sync_alpaca_paper, run by  *)
(* the background worker of the server and by the console command          *)
(* alpaca-sync, two processes that know nothing of each other.             *)
(*                                                                         *)
(* A run fetches the positions, then the recent orders, then writes both   *)
(* in one transaction, then writes its audit record in another; the store  *)
(* of the broker moves on in between.  Any step of a run may fail, and a   *)
(* process may be stopped or killed in it.                                 *)
(*                                                                         *)
(* A purchase is of a symbol of its own, and a sale is of what one purchase *)
(* bought: the position in a symbol is named after the purchase.           *)
(***************************************************************************)
EXTENDS Naturals, FiniteSets

CONSTANTS
  MaxOrders,     \* bound: orders ever placed
  Quantity,      \* the shares each order is for
  SaleOf,        \* the purchase whose shares each order sells, 0 for a purchase
  RecentLimit,   \* the orders one request returns, newest first
  ConsoleRuns,   \* bound: runs of the console command
  MaxCutOff      \* bound: runs that fail or are killed

ASSUME BoundsAssumption ==
  /\ MaxOrders \in Nat /\ RecentLimit \in Nat \ {0}
  /\ Quantity \in [1..MaxOrders -> Nat \ {0}]
  /\ SaleOf \in [1..MaxOrders -> 0..MaxOrders]
  /\ ConsoleRuns \in Nat /\ MaxCutOff \in Nat

VARIABLES
  remote,            \* status and fill of each order at the broker, as numbered
  shares,            \* the positions at the broker, by the purchase they are of
  held,              \* history: all the positions that have stood there
  broker_orders,     \* the table: what it shows of each order
  broker_positions,  \* the table: the positions it shows
  last_run,          \* positions_seen of the last row of broker_sync_runs
  unlogged,          \* completed runs without an audit record
  pc,                \* the next step of the run of each process
  fetched,           \* what each run has fetched and not written yet
  worker,            \* BrokerSyncWorker of the server
  overlapped,        \* have two runs ever been under way together?
  console_runs, cut_off

broker == <<remote, shares, held>>
tables == <<broker_orders, broker_positions, last_run, unlogged>>
vars == <<remote, shares, held, broker_orders, broker_positions, last_run, unlogged, pc, fetched,
          worker, overlapped, console_runs, cut_off>>

OrderNumbers == 1..MaxOrders
Processes == {"server", "console"}
\* "new" stands for partially_filled too.
Statuses == {"none", "new", "filled", "canceled"}
Rows == [status : Statuses, filled_quantity : Nat]
NoRow == [status |-> "none", filled_quantity |-> 0]
Holdings == [OrderNumbers -> Nat]
NoShares == [o \in OrderNumbers |-> 0]
Steps == {"idle", "account", "orders", "write", "audit"}

\* A list of orders has NoRow where it does not show the order.
OrderLists == [OrderNumbers -> Rows]
NoFetch == [positions |-> NoShares, orders |-> [o \in OrderNumbers |-> NoRow]]

TypeOK ==
  /\ remote \in [OrderNumbers -> Rows]
  /\ shares \in Holdings
  /\ held \subseteq Holdings
  /\ broker_orders \in OrderLists
  /\ broker_positions \in Holdings
  /\ last_run \in Nat
  /\ unlogged \in Nat
  /\ pc \in [Processes -> Steps]
  /\ fetched \in [Processes -> [positions : Holdings, orders : OrderLists]]
  /\ worker \in [started : BOOLEAN, running : BOOLEAN, consecutive_failures : 0..MaxCutOff]
  /\ overlapped \in BOOLEAN
  /\ console_runs \in 0..ConsoleRuns
  /\ cut_off \in 0..MaxCutOff

NewWorker == [started |-> FALSE, running |-> FALSE, consecutive_failures |-> 0]

Init ==
  /\ remote = [o \in OrderNumbers |-> NoRow]
  /\ shares = NoShares
  /\ held = {NoShares}
  /\ broker_orders = [o \in OrderNumbers |-> NoRow]
  /\ broker_positions = NoShares
  /\ last_run = 0
  /\ unlogged = 0
  /\ pc = [p \in Processes |-> "idle"]
  /\ fetched = [p \in Processes |-> NoFetch]
  /\ worker = NewWorker
  /\ overlapped = FALSE
  /\ console_runs = 0
  /\ cut_off = 0

-----------------------------------------------------------------------------
(* The broker, external to the repository. *)

Placed == {o \in OrderNumbers : remote[o].status # "none"}

\* The newest orders, as many as one request returns.
Recent == {o \in Placed : Cardinality({n \in Placed : n > o}) < RecentLimit}

PlaceOrder(o) ==
  /\ \A n \in OrderNumbers : n < o <=> n \in Placed
  /\ remote' = [remote EXCEPT ![o].status = "new"]
  /\ UNCHANGED <<shares, held>>

\* One share changes hands; an order is filled when all of its shares have.
FillShare(o) ==
  LET filled == remote[o].filled_quantity + 1
      row == [status |-> IF filled = Quantity[o] THEN "filled" ELSE "new",
              filled_quantity |-> filled]
  IN  /\ remote[o].status = "new"
      /\ remote' = [remote EXCEPT ![o] = row]
      /\ \/ SaleOf[o] = 0 /\ shares' = [shares EXCEPT ![o] = @ + 1]
         \/ /\ SaleOf[o] # 0 /\ shares[SaleOf[o]] > 0
            /\ shares' = [shares EXCEPT ![SaleOf[o]] = @ - 1]
      /\ held' = held \cup {shares'}

CancelOrder(o) ==
  /\ remote[o].status = "new"
  /\ remote' = [remote EXCEPT ![o].status = "canceled"]
  /\ UNCHANGED <<shares, held>>

MarketMoves ==
  /\ \E o \in OrderNumbers : PlaceOrder(o) \/ FillShare(o) \/ CancelOrder(o)
  /\ UNCHANGED <<tables, pc, fetched, worker, overlapped, console_runs, cut_off>>

-----------------------------------------------------------------------------
(* One run, step by step: sync_alpaca_paper. *)

\* The run starts by migrating the database, which changes nothing any more.
Enter(p) ==
  /\ pc[p] = "idle"
  /\ pc' = [pc EXCEPT ![p] = "account"]
  /\ overlapped' = (overlapped \/ \E q \in Processes : pc[q] # "idle")

Leave(p) ==
  /\ pc' = [pc EXCEPT ![p] = "idle"]
  /\ fetched' = [fetched EXCEPT ![p] = NoFetch]

get_account(p) ==
  /\ pc[p] = "account"
  /\ pc' = [pc EXCEPT ![p] = "orders"]
  /\ fetched' = [fetched EXCEPT ![p].positions = shares]
  /\ UNCHANGED <<broker, tables, worker, overlapped, console_runs, cut_off>>

get_recent_order_snapshots(p) ==
  /\ pc[p] = "orders"
  /\ pc' = [pc EXCEPT ![p] = "write"]
  /\ fetched' = [fetched EXCEPT ![p].orders = [o \in OrderNumbers |->
                                           IF o \in Recent THEN remote[o] ELSE NoRow]]
  /\ UNCHANGED <<broker, tables, worker, overlapped, console_runs, cut_off>>

\* Mutants for the checks: known rows are left as they are, or all are replaced.
Upserted_Ignoring(orders) ==
  [o \in OrderNumbers |-> IF broker_orders[o] = NoRow THEN orders[o] ELSE broker_orders[o]]
Upserted_Replacing(orders) == orders

\* INSERT ... ON CONFLICT DO UPDATE, whatever the row said before.
Upserted(orders) ==
  [o \in OrderNumbers |-> IF orders[o] # NoRow THEN orders[o] ELSE broker_orders[o]]

\* Mutant for the checks: the positions no longer held are not deleted.
Replaced_NoDelete(positions) ==
  [o \in OrderNumbers |-> IF positions[o] > 0 THEN positions[o] ELSE broker_positions[o]]

\* DELETE of every position, then INSERT of those fetched.
Replaced(positions) == positions

\* How many positions there are: a symbol of which nothing is held has none.
Seen(positions) == Cardinality({o \in OrderNumbers : positions[o] > 0})

\* BEGIN ... commit: order rows, positions and the row of the run.
WriteTables(p) ==
  /\ pc[p] = "write"
  /\ broker_orders' = Upserted(fetched[p].orders)
  /\ broker_positions' = Replaced(fetched[p].positions)
  /\ last_run' = Seen(fetched[p].positions)
  /\ unlogged' = unlogged + 1
  /\ pc' = [pc EXCEPT ![p] = "audit"]
  /\ fetched' = [fetched EXCEPT ![p] = NoFetch]
  /\ UNCHANGED <<broker, worker, overlapped, console_runs, cut_off>>

-----------------------------------------------------------------------------
(* BrokerSyncWorker: start, run_once, _loop and stop. *)

\* The end of run_once, whatever the run ended with.
Ended(consecutive_failures) ==
  worker' = [worker EXCEPT !.running = FALSE, !.consecutive_failures = consecutive_failures]

\* Mutant for the checks: running is only reset after a success.
FailedRun_StillRunning == worker' = [worker EXCEPT !.consecutive_failures = @ + 1]

\* Mutant for the checks: a failure is counted by the run and by the loop.
FailedRun_Twice == Ended(worker.consecutive_failures + 2)

FailedRun == Ended(worker.consecutive_failures + 1)

\* Mutant for the checks: a run that saw no position is not audited.
audit_OnlyPositions == IF last_run > 0 THEN unlogged - 1 ELSE unlogged

\* The record of broker.sync.completed.
audit == unlogged - 1

WriteAudit(p) ==
  /\ pc[p] = "audit"
  /\ unlogged' = audit
  /\ Leave(p)
  /\ IF p = "server" THEN Ended(0) ELSE UNCHANGED worker
  /\ UNCHANGED <<broker, broker_orders, broker_positions, last_run, overlapped,
                 console_runs, cut_off>>

\* A step raises: a broken request, a bad answer, a locked database.  What the
\* transaction did is rolled back; the worker notes the failure and goes on.
StepFails(p) ==
  /\ pc[p] # "idle"
  /\ cut_off < MaxCutOff
  /\ cut_off' = cut_off + 1
  /\ Leave(p)
  /\ IF p = "server" THEN FailedRun ELSE UNCHANGED worker
  /\ UNCHANGED <<broker, tables, overlapped, console_runs>>

\* The loop wakes up; a run already under way is skipped.
run_once ==
  /\ worker.started
  /\ ~worker.running
  /\ Enter("server")
  /\ worker' = [worker EXCEPT !.running = TRUE]
  /\ UNCHANGED <<broker, tables, fetched, console_runs, cut_off>>

\* lifespan, with the synchronisation enabled.
StartServer ==
  /\ ~worker.started
  /\ worker' = [worker EXCEPT !.started = TRUE]
  /\ UNCHANGED <<broker, tables, pc, fetched, overlapped, console_runs, cut_off>>

\* stop cancels the task where it awaits: in its sleep or in a request.  The
\* process ends with the application.
StopServer ==
  /\ worker.started
  /\ pc["server"] \in {"idle", "account", "orders"}
  /\ worker' = NewWorker
  /\ Leave("server")
  /\ UNCHANGED <<broker, tables, overlapped, console_runs, cut_off>>

\* A process is killed, at any step.
Kill(p) ==
  /\ pc[p] # "idle"
  /\ cut_off < MaxCutOff
  /\ cut_off' = cut_off + 1
  /\ Leave(p)
  /\ worker' = IF p = "server" THEN NewWorker ELSE worker
  /\ UNCHANGED <<broker, tables, overlapped, console_runs>>

run_alpaca_sync ==
  /\ console_runs < ConsoleRuns
  /\ console_runs' = console_runs + 1
  /\ Enter("console")
  /\ UNCHANGED <<broker, tables, fetched, worker, cut_off>>

-----------------------------------------------------------------------------

Proceed(p) ==
  get_account(p) \/ get_recent_order_snapshots(p) \/ WriteTables(p) \/ WriteAudit(p)

Next ==
  \/ MarketMoves
  \/ \E p \in Processes : Proceed(p) \/ StepFails(p) \/ Kill(p)
  \/ run_once \/ run_alpaca_sync
  \/ StartServer \/ StopServer

Spec == Init /\ [][Next]_vars

\* A process that runs goes on, and the loop wakes up after every sleep.  How
\* many runs fail is bounded, and nobody has to start the server.
FairSpec == Spec /\ WF_vars(run_once) /\ \A p \in Processes : WF_vars(Proceed(p))

-----------------------------------------------------------------------------
(* Properties. *)

\* What the tables show as held was bought according to the tables: as long as its
\* purchase is listed, the row shows at least as many shares filled.  The positions
\* are fetched first, so the orders of the same run are never older (alpaca_sync.py
\* 24-25), and both are written by one transaction (28-72), whichever run writes
\* last.  What was bought need not be shown as held: it may have been bought, or
\* sold, in between.
PositionsExplained ==
  \A o \in Recent : broker_positions[o] <= broker_orders[o].filled_quantity

\* The positions shown stood at the broker together: they are never a mixture of two
\* runs, nor do they keep what was sold (alpaca_sync.py 53-64), and they are as many
\* as the last completed run says it saw (docs/architecture.md 155-156).
PositionsStoodTogether ==
  broker_positions \in held /\ Seen(broker_positions) = last_run

\* A completed run without an audit record is about to write it, or was cut off
\* between the two transactions (alpaca_sync.py 72, 80).
UnloggedOnlyWhenCutOff ==
  unlogged <= cut_off + Cardinality({p \in Processes : pc[p] = "audit"})

Stage(status) == CASE status = "none" -> 0 [] status = "new" -> 1 [] OTHER -> 2

NotAhead(row, other) ==
  Stage(row.status) <= Stage(other.status) /\ row.filled_quantity <= other.filled_quantity

\* Unless two runs have overlapped, no order row goes back to an earlier state or
\* fewer shares or disappears, also when its order is no longer listed.
RowsOnlyAdvance ==
  [][~overlapped' => \A o \in OrderNumbers : NotAhead(broker_orders[o], broker_orders'[o])]_vars

UpToDate ==
  /\ \A o \in Recent : broker_orders[o] = remote[o]
  /\ broker_positions = shares

\* Failing runs do not end the worker (CHANGELOG 0.8.0): while the server stays
\* up, the tables come to show the broker's recent orders and positions for
\* good, even after an overlapping run has written older rows over newer ones.
EventuallyUpToDate == <>[](worker.started) => <>[]UpToDate
=============================================================================
