--------------------------- MODULE BrokerSync_proofs ---------------------------
(***************************************************************************)
(* The copy of the broker in the tables, for any number of orders, any     *)
(* length of the list a request returns and any number of runs, failures   *)
(* and starts.                                                             *)
(*                                                                         *)
(* The broker moves on while a run is under way; what makes the properties *)
(* inductive is the direction it moves in: an order only goes forward, its *)
(* filled shares only grow, and it leaves the recent ones only for newer   *)
(* orders.  Positions come and go, but never exceed what was bought.  So   *)
(* what a run has fetched is never ahead of the broker, and its order list *)
(* is no older than its positions.                                         *)
(***************************************************************************)
EXTENDS BrokerSync, FiniteSetTheorems, TLAPS

Auditing == {p \in Processes : pc[p] = "audit"}

FailuresCounted == worker.consecutive_failures <= cut_off

\* A run about to write its audit record is one of those without one.
UnloggedCounted ==
  Cardinality(Auditing) <= unlogged /\ unlogged <= cut_off + Cardinality(Auditing)

\* What is held, was fetched as held or is shown as held was bought.
PositionsBought ==
  /\ \A o \in OrderNumbers :
       /\ remote[o].status = "none" => remote[o].filled_quantity = 0
       /\ shares[o] <= remote[o].filled_quantity
       /\ broker_positions[o] <= remote[o].filled_quantity
  /\ \A p \in Processes : \A o \in OrderNumbers :
       fetched[p].positions[o] <= remote[o].filled_quantity

\* What was fetched or is shown has stood at the broker.
PositionsHeld ==
  /\ {NoShares, shares, broker_positions} \subseteq held
  /\ \A p \in Processes : fetched[p].positions \in held

\* The orders of a run are no older than its positions.
FetchExplained ==
  \A p \in Processes : pc[p] = "write" =>
    \A o \in Recent : fetched[p].positions[o] <= fetched[p].orders[o].filled_quantity

\* Neither the rows nor what a run has fetched is ahead of the broker.
NeverAhead ==
  \A o \in OrderNumbers :
    /\ NotAhead(broker_orders[o], remote[o])
    /\ \A p \in Processes : NotAhead(fetched[p].orders[o], remote[o])

\* Without overlap one run is under way at most, and the rows are not ahead of
\* what it has fetched.
AloneSoFar ==
  ~overlapped =>
    /\ \A p, q \in Processes : pc[p] # "idle" /\ pc[q] # "idle" => p = q
    /\ \A p \in Processes : pc[p] = "write" =>
         \A o \in OrderNumbers :
           fetched[p].orders[o] # NoRow => NotAhead(broker_orders[o], fetched[p].orders[o])

CountInv == TypeOK /\ FailuresCounted /\ UnloggedCounted

PositionsInv ==
  CountInv /\ PositionsBought /\ PositionsHeld /\ FetchExplained /\ PositionsExplained
  /\ PositionsStoodTogether

RowsInv == CountInv /\ NeverAhead /\ AloneSoFar

-----------------------------------------------------------------------------
(* Sets of orders and of processes. *)

LEMMA OrdersFinite ==
  \A S : S \subseteq OrderNumbers => IsFiniteSet(S) /\ Cardinality(S) \in Nat
<1>1. IsFiniteSet(OrderNumbers)
  BY BoundsAssumption, FS_Interval DEF OrderNumbers
<1> QED
  BY <1>1, FS_Subset, FS_CardinalityType

LEMMA AuditingFinite == IsFiniteSet(Auditing) /\ Cardinality(Auditing) \in Nat
<1>1. IsFiniteSet({"server", "console"})
  <2>1. IsFiniteSet({"server"}) /\ {"server", "console"} = {"server"} \cup {"console"}
    BY FS_Singleton
  <2> QED
    BY <2>1, FS_AddElement
<1>2. Auditing \in SUBSET {"server", "console"}
  BY DEF Auditing, Processes
<1> QED
  BY <1>1, <1>2, FS_Subset, FS_CardinalityType

\* One process more that is about to audit, or one less.
LEMMA AuditingEntered ==
  ASSUME NEW p \in Processes, p \notin Auditing, Auditing' = Auditing \cup {p}
  PROVE  Cardinality(Auditing') = Cardinality(Auditing) + 1
BY AuditingFinite, FS_AddElement

LEMMA AuditingLeft ==
  ASSUME NEW p \in Processes, Auditing' = Auditing \ {p}
  PROVE  Cardinality(Auditing') = IF p \in Auditing THEN Cardinality(Auditing) - 1
                                  ELSE Cardinality(Auditing)
BY AuditingFinite, FS_RemoveElement

LEMMA NoFetchTyped ==
  NoShares \in Holdings /\ NoRow \in Rows /\ NoFetch \in [positions : Holdings, orders : OrderLists]
BY DEF NoFetch, NoShares, NoRow, Rows, Statuses, Holdings, OrderLists

-----------------------------------------------------------------------------
(* Types and counts. *)

LEMMA LeaveTypes ==
  ASSUME TypeOK, NEW p \in Processes, Leave(p)
  PROVE  /\ pc' \in [Processes -> Steps]
         /\ fetched' \in [Processes -> [positions : Holdings, orders : OrderLists]]
         /\ pc'[p] = "idle" /\ fetched'[p] = NoFetch
         /\ \A q \in Processes \ {p} : pc'[q] = pc[q] /\ fetched'[q] = fetched[q]
         /\ Auditing' = Auditing \ {p}
<1>1. /\ pc' \in [Processes -> Steps]
      /\ pc'[p] = "idle"
      /\ \A q \in Processes \ {p} : pc'[q] = pc[q]
  BY DEF Leave, TypeOK, Steps
<1>2. /\ fetched' \in [Processes -> [positions : Holdings, orders : OrderLists]]
      /\ fetched'[p] = NoFetch
      /\ \A q \in Processes \ {p} : fetched'[q] = fetched[q]
  BY NoFetchTyped DEF Leave, TypeOK
<1> QED
  BY <1>1, <1>2 DEF Auditing

LEMMA EnterTypes ==
  ASSUME TypeOK, NEW p \in Processes, Enter(p)
  PROVE  /\ pc' \in [Processes -> Steps]
         /\ overlapped' \in BOOLEAN
         /\ pc[p] = "idle" /\ pc'[p] = "account"
         /\ \A q \in Processes \ {p} : pc'[q] = pc[q]
         /\ Auditing' = Auditing
BY DEF Enter, TypeOK, Steps, Auditing

LEMMA FailureCounted ==
  ASSUME CountInv, cut_off < MaxCutOff, cut_off' = cut_off + 1
  PROVE  /\ cut_off' \in 0..MaxCutOff
         /\ worker.consecutive_failures + 1 \in 0..MaxCutOff
         /\ worker.consecutive_failures + 1 <= cut_off'
<1>1. cut_off \in 0..MaxCutOff /\ worker.consecutive_failures \in 0..MaxCutOff
  BY DEF CountInv, TypeOK
<1>2. worker.consecutive_failures <= cut_off
  BY DEF CountInv, FailuresCounted
<1> QED
  BY <1>1, <1>2, BoundsAssumption

LEMMA NewWorkerTyped ==
  /\ NewWorker \in [started : BOOLEAN, running : BOOLEAN, consecutive_failures : 0..MaxCutOff]
  /\ NewWorker.consecutive_failures = 0
BY BoundsAssumption DEF NewWorker

LEMMA CountInit == Init => CountInv
<1> SUFFICES ASSUME Init PROVE CountInv
  OBVIOUS
<1>1. Auditing = {}
  BY DEF Init, Auditing
<1>2. Cardinality(Auditing) = 0
  BY <1>1, FS_EmptySet
<1>3. /\ worker \in [started : BOOLEAN, running : BOOLEAN, consecutive_failures : 0..MaxCutOff]
      /\ worker.consecutive_failures = 0
  BY NewWorkerTyped DEF Init
<1>4. fetched \in [Processes -> [positions : Holdings, orders : OrderLists]]
  BY NoFetchTyped DEF Init
<1>5. TypeOK
  <2>1. /\ remote \in [OrderNumbers -> Rows] /\ broker_orders \in OrderLists
        /\ shares \in Holdings /\ held \subseteq Holdings /\ broker_positions \in Holdings
        /\ pc \in [Processes -> Steps]
    BY NoFetchTyped DEF Init, OrderLists, Steps
  <2>2. 0 \in 0..ConsoleRuns /\ 0 \in 0..MaxCutOff
    BY BoundsAssumption
  <2> QED
    BY <1>3, <1>4, <2>1, <2>2 DEF Init, TypeOK
<1> QED
  BY <1>2, <1>3, <1>5 DEF Init, CountInv, FailuresCounted, UnloggedCounted

\* What the market does with an order that is placed, filled by a share or cancelled.
LEMMA MarketTypes ==
  ASSUME TypeOK, MarketMoves
  PROVE  remote' \in [OrderNumbers -> Rows] /\ shares' \in Holdings /\ held' \subseteq Holdings
<1>1. /\ remote \in [OrderNumbers -> Rows] /\ shares \in Holdings /\ held \subseteq Holdings
  BY DEF TypeOK
<1>2. ASSUME NEW o \in OrderNumbers, NEW status \in Statuses, UNCHANGED <<shares, held>>,
             remote' = [remote EXCEPT ![o].status = status]
      PROVE  remote' \in [OrderNumbers -> Rows] /\ shares' \in Holdings /\ held' \subseteq Holdings
  BY <1>1, <1>2 DEF Rows
<1>3. ASSUME NEW o \in OrderNumbers, FillShare(o)
      PROVE  remote' \in [OrderNumbers -> Rows] /\ shares' \in Holdings /\ held' \subseteq Holdings
  <2>1. SaleOf[o] # 0 => SaleOf[o] \in OrderNumbers
    BY BoundsAssumption DEF OrderNumbers
  <2>2. shares' \in Holdings
    BY <1>1, <1>3, <2>1 DEF FillShare, Holdings
  <2>3. remote' \in [OrderNumbers -> Rows]
    BY <1>1, <1>3 DEF FillShare, Rows, Statuses
  <2> QED
    BY <1>1, <1>3, <2>2, <2>3 DEF FillShare
<1>4. {"new", "canceled"} \subseteq Statuses
  BY DEF Statuses
<1> QED
  BY <1>2, <1>3, <1>4 DEF MarketMoves, PlaceOrder, CancelOrder

LEMMA CountStep ==
  ASSUME CountInv, [Next]_vars
  PROVE  CountInv'
<1> TypeOK /\ FailuresCounted /\ UnloggedCounted
  BY DEF CountInv
<1>0. /\ unlogged \in Nat /\ cut_off \in 0..MaxCutOff /\ Cardinality(Auditing) \in Nat
      /\ worker \in [started : BOOLEAN, running : BOOLEAN, consecutive_failures : 0..MaxCutOff]
  BY AuditingFinite DEF TypeOK
<1>1. CASE UNCHANGED vars
  BY <1>1 DEF vars, broker, tables, CountInv, TypeOK, FailuresCounted, UnloggedCounted, Auditing
<1>2. CASE MarketMoves
  <2> QED
    BY <1>2, MarketTypes DEF MarketMoves, tables, CountInv, TypeOK, FailuresCounted, UnloggedCounted, Auditing
<1>3. ASSUME NEW p \in Processes, get_account(p) PROVE CountInv'
  <2>2. fetched' \in [Processes -> [positions : Holdings, orders : OrderLists]]
    BY <1>3 DEF get_account, TypeOK
  <2>3. pc' \in [Processes -> Steps] /\ Auditing' = Auditing
    BY <1>3 DEF get_account, TypeOK, Steps, Auditing
  <2> QED
    BY <1>3, <2>2, <2>3 DEF get_account, broker, tables, CountInv, TypeOK, FailuresCounted, UnloggedCounted
<1>4. ASSUME NEW p \in Processes, get_recent_order_snapshots(p) PROVE CountInv'
  <2>1. [o \in OrderNumbers |-> IF o \in Recent THEN remote[o] ELSE NoRow] \in OrderLists
    BY NoFetchTyped DEF OrderLists, TypeOK
  <2>2. fetched' \in [Processes -> [positions : Holdings, orders : OrderLists]]
    BY <1>4, <2>1 DEF get_recent_order_snapshots, TypeOK
  <2>3. pc' \in [Processes -> Steps] /\ Auditing' = Auditing
    BY <1>4 DEF get_recent_order_snapshots, TypeOK, Steps, Auditing
  <2> QED
    BY <1>4, <2>2, <2>3
    DEF get_recent_order_snapshots, broker, tables, CountInv, TypeOK, FailuresCounted, UnloggedCounted
<1>5. ASSUME NEW p \in Processes, WriteTables(p) PROVE CountInv'
  <2>1. fetched[p].positions \in Holdings /\ fetched[p].orders \in OrderLists
    BY DEF TypeOK
  <2>2. broker_orders' \in OrderLists
    BY <1>5, <2>1 DEF WriteTables, Upserted, OrderLists, TypeOK
  <2>3. /\ broker_positions' \in Holdings /\ last_run' \in Nat
        /\ fetched' \in [Processes -> [positions : Holdings, orders : OrderLists]]
    BY <1>5, <2>1, OrdersFinite, NoFetchTyped DEF WriteTables, Replaced, Seen, TypeOK
  <2>4. /\ pc' \in [Processes -> Steps]
        /\ p \notin Auditing /\ Auditing' = Auditing \cup {p}
    BY <1>5 DEF WriteTables, TypeOK, Steps, Auditing
  <2>5. Cardinality(Auditing') = Cardinality(Auditing) + 1
    BY <2>4, AuditingEntered
  <2>6. unlogged' = unlogged + 1
    BY <1>5 DEF WriteTables
  <2>7. UnloggedCounted'
    BY <1>0, <1>5, <2>5, <2>6 DEF WriteTables, UnloggedCounted
  <2> QED
    BY <1>5, <2>2, <2>3, <2>4, <2>6, <2>7 DEF WriteTables, broker, CountInv, TypeOK, FailuresCounted
<1>6. ASSUME NEW p \in Processes, WriteAudit(p) PROVE CountInv'
  <2>1. p \in Auditing /\ Leave(p) /\ unlogged' = unlogged - 1 /\ cut_off' = cut_off
    BY <1>6 DEF WriteAudit, Auditing, audit
  <2>2. Cardinality(Auditing') = Cardinality(Auditing) - 1 /\ Cardinality(Auditing') \in Nat
    <3>1. Cardinality(Auditing') = Cardinality(Auditing) - 1
      BY <2>1, LeaveTypes, AuditingLeft
    <3>2. Cardinality(Auditing) # 0
      BY <2>1, AuditingFinite, FS_EmptySet
    <3> QED
      BY <1>0, <3>1, <3>2
  <2>3. unlogged' \in Nat /\ UnloggedCounted'
    BY <1>0, <2>1, <2>2 DEF UnloggedCounted
  <2>4. /\ worker' \in [started : BOOLEAN, running : BOOLEAN, consecutive_failures : 0..MaxCutOff]
        /\ FailuresCounted'
    <3>1. CASE worker' = worker
      BY <1>0, <2>1, <3>1 DEF FailuresCounted
    <3>2. CASE Ended(0)
      <4>1. 0 \in 0..MaxCutOff /\ 0 <= cut_off'
        BY <1>0, <2>1, BoundsAssumption
      <4>2. worker' = [worker EXCEPT !.running = FALSE, !.consecutive_failures = 0]
        BY <3>2 DEF Ended
      <4> QED
        BY <1>0, <4>1, <4>2 DEF FailuresCounted
    <3> QED
      BY <1>6, <3>1, <3>2 DEF WriteAudit
  <2> QED
    BY <1>6, <2>1, <2>3, <2>4, LeaveTypes DEF WriteAudit, broker, CountInv, TypeOK
\* A process that fails or is killed leaves its record behind, if it was to write one.
<1>7. ASSUME NEW p \in Processes, Leave(p), cut_off' = cut_off + 1, unlogged' = unlogged
      PROVE  UnloggedCounted'
  <2>1. Cardinality(Auditing') = IF p \in Auditing THEN Cardinality(Auditing) - 1
                                 ELSE Cardinality(Auditing)
    BY <1>7, LeaveTypes, AuditingLeft
  <2> QED
    BY <1>0, <1>7, <2>1 DEF UnloggedCounted
<1>8. ASSUME NEW p \in Processes, StepFails(p) PROVE CountInv'
  <2>1. /\ Leave(p) /\ cut_off < MaxCutOff /\ cut_off' = cut_off + 1
        /\ UNCHANGED <<broker, tables, overlapped, console_runs>>
    BY <1>8 DEF StepFails
  <2>2. /\ worker' \in [started : BOOLEAN, running : BOOLEAN, consecutive_failures : 0..MaxCutOff]
        /\ FailuresCounted'
    <3>1. CASE worker' = worker
      BY <1>0, <2>1, <3>1 DEF FailuresCounted
    <3>2. CASE FailedRun
      BY <1>0, <2>1, <3>2, FailureCounted DEF FailedRun, Ended, FailuresCounted
    <3> QED
      BY <1>8, <3>1, <3>2 DEF StepFails
  <2>3. cut_off' \in 0..MaxCutOff /\ UnloggedCounted'
    BY <1>7, <2>1, FailureCounted DEF tables
  <2> QED
    BY <2>1, <2>2, <2>3, LeaveTypes DEF broker, tables, CountInv, TypeOK
<1>9. ASSUME NEW p \in Processes, Kill(p) PROVE CountInv'
  <2>1. /\ Leave(p) /\ cut_off < MaxCutOff /\ cut_off' = cut_off + 1
        /\ UNCHANGED <<broker, tables, overlapped, console_runs>>
        /\ worker' \in {NewWorker, worker}
    BY <1>9 DEF Kill
  <2>2. /\ worker' \in [started : BOOLEAN, running : BOOLEAN, consecutive_failures : 0..MaxCutOff]
        /\ FailuresCounted'
    BY <1>0, <2>1, NewWorkerTyped DEF FailuresCounted
  <2>3. cut_off' \in 0..MaxCutOff /\ UnloggedCounted'
    BY <1>7, <2>1, FailureCounted DEF tables
  <2> QED
    BY <2>1, <2>2, <2>3, LeaveTypes DEF broker, tables, CountInv, TypeOK
<1>10. CASE run_once
  <2>1. "server" \in Processes
    BY DEF Processes
  <2>2. worker' \in [started : BOOLEAN, running : BOOLEAN, consecutive_failures : 0..MaxCutOff]
        /\ worker'.consecutive_failures = worker.consecutive_failures
    BY <1>0, <1>10 DEF run_once
  <2> QED
    BY <1>10, <2>1, <2>2, EnterTypes
    DEF run_once, broker, tables, CountInv, TypeOK, FailuresCounted, UnloggedCounted
<1>11. CASE run_alpaca_sync
  <2>1. "console" \in Processes
    BY DEF Processes
  <2>2. console_runs' \in 0..ConsoleRuns
    BY <1>11, BoundsAssumption DEF run_alpaca_sync, TypeOK
  <2> QED
    BY <1>11, <2>1, <2>2, EnterTypes
    DEF run_alpaca_sync, broker, tables, CountInv, TypeOK, FailuresCounted, UnloggedCounted
<1>12. CASE StartServer
  <2>1. /\ worker' \in [started : BOOLEAN, running : BOOLEAN, consecutive_failures : 0..MaxCutOff]
        /\ worker'.consecutive_failures = worker.consecutive_failures
    BY <1>0, <1>12 DEF StartServer
  <2> QED
    BY <1>12, <2>1
    DEF StartServer, broker, tables, CountInv, TypeOK, FailuresCounted, UnloggedCounted, Auditing
<1>13. CASE StopServer
  <2>1. "server" \in Processes /\ Leave("server") /\ "server" \notin Auditing
    BY <1>13 DEF StopServer, Processes, Auditing
  <2>2. Auditing' = Auditing
    <3>1. Auditing' = Auditing \ {"server"}
      BY <2>1, LeaveTypes DEF CountInv
    <3> QED
      BY <2>1, <3>1
  <2>3. /\ worker' \in [started : BOOLEAN, running : BOOLEAN, consecutive_failures : 0..MaxCutOff]
        /\ FailuresCounted'
    BY <1>0, <1>13, NewWorkerTyped DEF StopServer, FailuresCounted
  <2> QED
    BY <1>13, <2>1, <2>2, <2>3, LeaveTypes
    DEF StopServer, broker, tables, CountInv, TypeOK, UnloggedCounted
<1> QED
  BY <1>1, <1>2, <1>3, <1>4, <1>5, <1>6, <1>8, <1>9, <1>10, <1>11, <1>12, <1>13 DEF Next, Proceed

-----------------------------------------------------------------------------
(* The direction the broker moves in. *)

LEMMA StageNat == \A status : Stage(status) \in 0..2
BY DEF Stage

LEMMA NotAheadOrder ==
  /\ \A row \in Rows : NotAhead(row, row) /\ NotAhead(NoRow, row)
  /\ \A one, two, three \in Rows : NotAhead(one, two) /\ NotAhead(two, three) => NotAhead(one, three)
BY StageNat DEF NotAhead, Rows, NoRow, Stage

LEMMA BrokerStays ==
  ASSUME [Next]_vars
  PROVE  MarketMoves \/ UNCHANGED broker
<1>1. ASSUME NEW p \in Processes, Proceed(p) \/ StepFails(p) \/ Kill(p)
      PROVE  UNCHANGED broker
  BY <1>1 DEF Proceed, get_account, get_recent_order_snapshots, WriteTables, WriteAudit,
              StepFails, Kill
<1>2. CASE run_once \/ run_alpaca_sync \/ StartServer \/ StopServer
  BY <1>2 DEF run_once, run_alpaca_sync, StartServer, StopServer
<1> QED
  BY <1>1, <1>2 DEF Next, vars, broker

\* An order is placed, filled by a share or cancelled, but never goes back.
LEMMA RemoteMoves ==
  ASSUME TypeOK, [Next]_vars
  PROVE  \A o \in OrderNumbers : NotAhead(remote[o], remote'[o])
<1>1. remote \in [OrderNumbers -> Rows]
  BY DEF TypeOK
<1>2. ASSUME NEW o \in OrderNumbers, PlaceOrder(o) PROVE NotAhead(remote[o], remote'[o])
  <2>1. remote[o].status = "none"
    <3>1. ~(o < o)
      BY DEF OrderNumbers
    <3> QED
      BY <1>2, <3>1 DEF PlaceOrder, Placed
  <2> QED
    BY <1>1, <1>2, <2>1 DEF PlaceOrder, NotAhead, Stage, Rows
<1>3. ASSUME NEW o \in OrderNumbers, FillShare(o) PROVE NotAhead(remote[o], remote'[o])
  BY <1>1, <1>3 DEF FillShare, NotAhead, Stage, Rows
<1>4. ASSUME NEW o \in OrderNumbers, CancelOrder(o) PROVE NotAhead(remote[o], remote'[o])
  BY <1>1, <1>4 DEF CancelOrder, NotAhead, Stage, Rows
<1>5. ASSUME NEW o \in OrderNumbers, PlaceOrder(o) \/ FillShare(o) \/ CancelOrder(o),
             NEW n \in OrderNumbers, n # o
      PROVE  remote'[n] = remote[n]
  BY <1>1, <1>5 DEF PlaceOrder, FillShare, CancelOrder
<1>6. CASE MarketMoves
  BY <1>1, <1>2, <1>3, <1>4, <1>5, <1>6, NotAheadOrder DEF MarketMoves
<1>7. CASE UNCHANGED broker
  BY <1>1, <1>7, NotAheadOrder DEF broker
<1> QED
  BY <1>6, <1>7, BrokerStays

\* Held shares come and go, but never exceed what was bought.
LEMMA SharesMove ==
  ASSUME TypeOK, PositionsBought, [Next]_vars
  PROVE  \A o \in OrderNumbers :
           /\ remote'[o].status = "none" => remote'[o].filled_quantity = 0
           /\ shares'[o] <= remote'[o].filled_quantity
<1>1. remote \in [OrderNumbers -> Rows] /\ shares \in Holdings
  BY DEF TypeOK
<1>2. ASSUME NEW o \in OrderNumbers, PlaceOrder(o) \/ CancelOrder(o), NEW n \in OrderNumbers
      PROVE  /\ remote'[n].status = "none" => remote'[n].filled_quantity = 0
             /\ shares'[n] <= remote'[n].filled_quantity
  BY <1>1, <1>2 DEF PlaceOrder, CancelOrder, PositionsBought, Rows
<1>3. ASSUME NEW o \in OrderNumbers, FillShare(o), NEW n \in OrderNumbers
      PROVE  /\ remote'[n].status = "none" => remote'[n].filled_quantity = 0
             /\ shares'[n] <= remote'[n].filled_quantity
  <2>1. /\ shares[n] \in Nat /\ remote[n].filled_quantity \in Nat
        /\ shares[n] <= remote[n].filled_quantity
    BY <1>1 DEF Holdings, Rows, PositionsBought
  <2>2. remote'[n].status = "none" => remote'[n] = remote[n]
    BY <1>1, <1>3 DEF FillShare
  <2>3. CASE n = o
    <3>1. remote'[n].filled_quantity = remote[n].filled_quantity + 1
      BY <1>1, <1>3, <2>3 DEF FillShare
    <3>2. shares'[n] \in {shares[n] - 1, shares[n], shares[n] + 1}
      BY <1>1, <1>3 DEF FillShare, Holdings
    <3>3. shares'[n] <= remote'[n].filled_quantity
      BY <2>1, <3>1, <3>2
    <3>4. remote'[n].status # "none"
      BY <1>1, <1>3, <2>3 DEF FillShare, Rows
    <3> QED
      BY <3>3, <3>4
  <2>4. CASE n # o
    <3>1. remote'[n] = remote[n]
      BY <1>1, <1>3, <2>4 DEF FillShare
    <3>2. shares'[n] \in {shares[n], shares[n] - 1}
      BY <1>1, <1>3, <2>4 DEF FillShare, Holdings
    <3> QED
      BY <2>1, <3>1, <3>2 DEF PositionsBought
  <2> QED
    BY <2>3, <2>4
<1>4. CASE MarketMoves
  BY <1>2, <1>3, <1>4 DEF MarketMoves
<1>5. CASE UNCHANGED broker
  BY <1>5 DEF broker, PositionsBought
<1> QED
  BY <1>4, <1>5, BrokerStays

LEMMA HeldGrows ==
  ASSUME PositionsHeld, [Next]_vars
  PROVE  held \subseteq held' /\ shares' \in held'
BY BrokerStays DEF MarketMoves, PlaceOrder, FillShare, CancelOrder, broker, PositionsHeld

\* No order that is placed comes back among the recent ones.
LEMMA RecentShrinks ==
  ASSUME TypeOK, [Next]_vars
  PROVE  Placed \cap Recent' \subseteq Recent
<1>1. Placed \subseteq Placed' /\ Placed' \subseteq OrderNumbers
  BY RemoteMoves DEF Placed, NotAhead, Stage
<1>2. SUFFICES ASSUME NEW o \in Placed, o \in Recent' PROVE o \in Recent
  OBVIOUS
<1> DEFINE newer == {n \in Placed : n > o}
           newerNow == {n \in Placed' : n > o}
<1>3. newer \subseteq newerNow /\ newerNow \subseteq OrderNumbers
  BY <1>1
<1>4. Cardinality(newer) <= Cardinality(newerNow)
  BY <1>3, OrdersFinite, FS_Subset
<1>5. Cardinality(newerNow) < RecentLimit
  BY <1>2 DEF Recent
<1>6. Cardinality(newer) \in Nat /\ Cardinality(newerNow) \in Nat
  BY <1>1, <1>3, OrdersFinite
<1>7. Cardinality(newer) < RecentLimit
  <2> HIDE DEF newer, newerNow
  <2> QED
    BY <1>4, <1>5, <1>6, BoundsAssumption
<1> QED
  BY <1>7 DEF Recent

-----------------------------------------------------------------------------
(* Positions. *)

\* What is fetched by a process, and what the tables show.
LEMMA FetchStep ==
  ASSUME TypeOK, [Next]_vars, NEW p \in Processes
  PROVE  \/ fetched'[p] = fetched[p] /\ (pc'[p] = "write" => pc[p] = "write")
         \/ fetched'[p] = NoFetch /\ pc'[p] # "write"
         \/ get_account(p)
         \/ get_recent_order_snapshots(p)
<1>1. CASE UNCHANGED vars
  BY <1>1 DEF vars
<1>2. CASE MarketMoves
  BY <1>2 DEF MarketMoves
<1>3. ASSUME NEW q \in Processes, get_account(q)
      PROVE  q # p => fetched'[p] = fetched[p] /\ pc'[p] = pc[p]
  BY <1>3 DEF get_account, TypeOK
<1>4. ASSUME NEW q \in Processes, get_recent_order_snapshots(q)
      PROVE  q # p => fetched'[p] = fetched[p] /\ pc'[p] = pc[p]
  BY <1>4 DEF get_recent_order_snapshots, TypeOK
<1>5. ASSUME NEW q \in Processes, WriteTables(q)
      PROVE  \/ fetched'[p] = fetched[p] /\ (pc'[p] = "write" => pc[p] = "write")
             \/ fetched'[p] = NoFetch /\ pc'[p] # "write"
  BY <1>5 DEF WriteTables, TypeOK
<1>6. ASSUME NEW q \in Processes, Leave(q)
      PROVE  \/ fetched'[p] = fetched[p] /\ (pc'[p] = "write" => pc[p] = "write")
             \/ fetched'[p] = NoFetch /\ pc'[p] # "write"
  BY <1>6, LeaveTypes
<1>7. ASSUME NEW q \in Processes, WriteAudit(q) \/ StepFails(q) \/ Kill(q)
      PROVE  Leave(q)
  BY <1>7 DEF WriteAudit, StepFails, Kill
<1>8. ASSUME NEW q \in Processes, Enter(q), UNCHANGED fetched
      PROVE  fetched'[p] = fetched[p] /\ (pc'[p] = "write" => pc[p] = "write")
  BY <1>8 DEF Enter, TypeOK
<1>9. CASE run_once \/ run_alpaca_sync
  <2>1. \E q \in Processes : Enter(q) /\ UNCHANGED fetched
    BY <1>9 DEF run_once, run_alpaca_sync, Processes
  <2> QED
    BY <1>8, <2>1
<1>10. CASE StartServer
  BY <1>10 DEF StartServer
<1>11. CASE StopServer
  BY <1>6, <1>11 DEF StopServer, Processes
<1> QED
  BY <1>1, <1>2, <1>3, <1>4, <1>5, <1>6, <1>7, <1>9, <1>10, <1>11 DEF Next, Proceed

\* The tables only change in WriteTables, all of them together.
LEMMA TablesStep ==
  ASSUME [Next]_vars
  PROVE  \/ UNCHANGED <<broker_orders, broker_positions, last_run>>
         \/ \E p \in Processes : WriteTables(p)
BY DEF Next, vars, tables, MarketMoves, Proceed, get_account, get_recent_order_snapshots,
       WriteAudit, StepFails, Kill, run_once, run_alpaca_sync, StartServer, StopServer

LEMMA PositionsStep ==
  ASSUME PositionsInv, [Next]_vars
  PROVE  PositionsInv'
<1> /\ TypeOK /\ CountInv /\ PositionsBought /\ PositionsHeld /\ FetchExplained
    /\ PositionsExplained /\ PositionsStoodTogether
  BY DEF PositionsInv, CountInv
<1>1. CountInv' /\ TypeOK'
  BY CountStep DEF CountInv
<1>2. \A o \in OrderNumbers :
        /\ remote[o].filled_quantity \in Nat /\ remote'[o].filled_quantity \in Nat
        /\ remote[o].filled_quantity <= remote'[o].filled_quantity
        /\ broker_positions[o] \in Nat /\ shares[o] \in Nat
        /\ \A p \in Processes : fetched[p].positions[o] \in Nat
  BY <1>1, RemoteMoves DEF TypeOK, Rows, Holdings, NotAhead
<1>3. ASSUME NEW p \in Processes
      PROVE  \/ fetched'[p].positions = fetched[p].positions
             \/ fetched'[p].positions = NoShares
             \/ fetched'[p].positions = shares
  <2>1. CASE get_account(p)
    BY <2>1 DEF get_account, TypeOK
  <2>2. CASE get_recent_order_snapshots(p)
    BY <2>2 DEF get_recent_order_snapshots, TypeOK
  <2> QED
    BY <2>1, <2>2, FetchStep DEF NoFetch
<1>4. \/ UNCHANGED <<broker_orders, broker_positions, last_run>>
      \/ \E p \in Processes : WriteTables(p) /\ broker_positions' = fetched[p].positions
  BY TablesStep DEF WriteTables, Replaced
<1>5. PositionsBought'
  <2>1. ASSUME NEW p \in Processes, NEW o \in OrderNumbers
        PROVE  fetched'[p].positions[o] <= remote'[o].filled_quantity
    BY <1>2, <1>3 DEF PositionsBought, NoShares
  <2>2. ASSUME NEW o \in OrderNumbers PROVE broker_positions'[o] <= remote'[o].filled_quantity
    BY <1>2, <1>4 DEF PositionsBought
  <2> QED
    BY <2>1, <2>2, SharesMove DEF PositionsBought
<1>6. PositionsHeld'
  BY <1>3, <1>4, HeldGrows DEF PositionsHeld
<1>7. ASSUME NEW o \in OrderNumbers, o \in Recent', o \notin Recent
      PROVE  /\ broker_positions[o] = 0
             /\ \A p \in Processes : fetched[p].positions[o] = 0
  <2>1. remote[o].status = "none"
    BY <1>7, RecentShrinks DEF Placed
  <2>2. remote[o].filled_quantity = 0
    BY <2>1 DEF PositionsBought
  <2>3. \A n \in Nat : n <= 0 => n = 0
    OBVIOUS
  <2> QED
    BY <1>2, <2>2, <2>3 DEF PositionsBought
<1>8. Recent \subseteq OrderNumbers /\ Recent' \subseteq OrderNumbers
  BY DEF Recent, Placed
<1>9. FetchExplained'
  <2>1. SUFFICES ASSUME NEW p \in Processes, pc'[p] = "write", NEW o \in Recent'
                 PROVE  fetched'[p].positions[o] <= fetched'[p].orders[o].filled_quantity
    BY DEF FetchExplained
  <2>2. o \in OrderNumbers
    BY <1>8
  <2>3. CASE fetched'[p] = fetched[p] /\ pc[p] = "write"
    <3>1. fetched[p].orders[o].filled_quantity \in Nat
      BY <2>2 DEF TypeOK, OrderLists, Rows
    <3> QED
      BY <1>2, <1>7, <2>2, <2>3, <3>1 DEF FetchExplained
  <2>4. CASE get_recent_order_snapshots(p)
    <3>1. /\ fetched'[p].positions = fetched[p].positions
          /\ fetched'[p].orders[o] = IF o \in Recent THEN remote[o] ELSE NoRow
      BY <2>2, <2>4 DEF get_recent_order_snapshots, TypeOK
    <3> QED
      BY <1>2, <1>7, <2>2, <3>1 DEF PositionsBought, NoRow
  <2>5. CASE get_account(p)
    BY <2>1, <2>5 DEF get_account, TypeOK
  <2> QED
    BY <2>1, <2>3, <2>4, <2>5, FetchStep
<1>10. PositionsExplained'
  <2>1. CASE UNCHANGED <<broker_orders, broker_positions, last_run>>
    <3>1. SUFFICES ASSUME NEW o \in Recent'
                   PROVE  broker_positions[o] <= broker_orders[o].filled_quantity
      BY <2>1 DEF PositionsExplained
    <3>2. o \in OrderNumbers /\ broker_orders[o].filled_quantity \in Nat
      BY <1>8 DEF TypeOK, OrderLists, Rows
    <3> QED
      BY <1>7, <3>2 DEF PositionsExplained
  <2>2. ASSUME NEW p \in Processes, WriteTables(p) PROVE PositionsExplained'
    <3>1. /\ pc[p] = "write" /\ remote' = remote
          /\ broker_positions' = fetched[p].positions
          /\ broker_orders' = Upserted(fetched[p].orders)
      BY <2>2 DEF WriteTables, Replaced, broker
    <3>2. Recent' = Recent
      BY <3>1 DEF Recent, Placed
    <3>3. ASSUME NEW o \in Recent
          PROVE  fetched[p].positions[o] <= Upserted(fetched[p].orders)[o].filled_quantity
      <4>1. o \in OrderNumbers /\ broker_orders[o].filled_quantity \in Nat
        BY <1>8 DEF TypeOK, OrderLists, Rows
      <4>2. fetched[p].positions[o] <= fetched[p].orders[o].filled_quantity
        BY <3>1 DEF FetchExplained
      <4>3. CASE fetched[p].orders[o] = NoRow
        <5>1. fetched[p].positions[o] <= 0
          BY <4>2, <4>3 DEF NoRow
        <5> QED
          BY <1>2, <4>1, <4>3, <5>1 DEF Upserted
      <4> QED
        BY <4>1, <4>2, <4>3 DEF Upserted
    <3> QED
      BY <3>1, <3>2, <3>3 DEF PositionsExplained
  <2> QED
    BY <2>1, <2>2, TablesStep
<1>11. PositionsStoodTogether'
  <2>1. ASSUME NEW p \in Processes, WriteTables(p) PROVE Seen(broker_positions)' = last_run'
    BY <2>1 DEF WriteTables, Replaced, Seen
  <2>2. Seen(broker_positions)' = last_run'
    BY <2>1, TablesStep DEF PositionsStoodTogether, Seen
  <2> QED
    BY <1>6, <2>2 DEF PositionsStoodTogether, PositionsHeld
<1> QED
  BY <1>1, <1>5, <1>6, <1>9, <1>10, <1>11 DEF PositionsInv

-----------------------------------------------------------------------------
(* Rows of orders. *)

\* Once two runs have overlapped they have; a run that starts beside another overlaps it.
LEMMA OverlapStep ==
  ASSUME TypeOK, [Next]_vars, ~overlapped'
  PROVE  /\ ~overlapped
         /\ (\A p, q \in Processes : pc[p] # "idle" /\ pc[q] # "idle" => p = q)
              => \A p, q \in Processes : pc'[p] # "idle" /\ pc'[q] # "idle" => p = q
<1>1. CASE UNCHANGED <<overlapped, pc>>
  BY <1>1
<1>2. ASSUME NEW w \in Processes, NEW step, pc[w] # "idle", pc' = [pc EXCEPT ![w] = step],
             overlapped' = overlapped
      PROVE  /\ ~overlapped
             /\ (\A p, q \in Processes : pc[p] # "idle" /\ pc[q] # "idle" => p = q)
                  => \A p, q \in Processes : pc'[p] # "idle" /\ pc'[q] # "idle" => p = q
  BY <1>2 DEF TypeOK
<1>3. ASSUME NEW w \in Processes, Leave(w), overlapped' = overlapped
      PROVE  /\ ~overlapped
             /\ (\A p, q \in Processes : pc[p] # "idle" /\ pc[q] # "idle" => p = q)
                  => \A p, q \in Processes : pc'[p] # "idle" /\ pc'[q] # "idle" => p = q
  BY <1>3 DEF Leave, TypeOK
<1>4. ASSUME NEW w \in Processes, Enter(w)
      PROVE  /\ ~overlapped
             /\ \A p, q \in Processes : pc'[p] # "idle" /\ pc'[q] # "idle" => p = q
  BY <1>4 DEF Enter, TypeOK
<1>5. ASSUME NEW w \in Processes, Proceed(w) \/ StepFails(w) \/ Kill(w)
      PROVE  /\ overlapped' = overlapped
             /\ \/ Leave(w)
                \/ pc[w] # "idle" /\ \E step \in Steps : pc' = [pc EXCEPT ![w] = step]
  BY <1>5 DEF Proceed, get_account, get_recent_order_snapshots, WriteTables, WriteAudit,
              StepFails, Kill, Steps
<1>6. CASE run_once \/ run_alpaca_sync
  BY <1>4, <1>6 DEF run_once, run_alpaca_sync, Processes
<1>7. CASE StopServer
  BY <1>3, <1>7 DEF StopServer, Processes
<1>8. CASE MarketMoves \/ StartServer \/ UNCHANGED vars
  BY <1>1, <1>8 DEF MarketMoves, StartServer, vars
<1> QED
  BY <1>2, <1>3, <1>5, <1>6, <1>7, <1>8 DEF Next

\* A write without overlap is of a run that has fetched the orders since the last one.
LEMMA WriteAdvances ==
  ASSUME RowsInv, [Next]_vars, ~overlapped', NEW o \in OrderNumbers
  PROVE  NotAhead(broker_orders[o], broker_orders'[o])
<1>1. broker_orders[o] \in Rows
  BY DEF RowsInv, CountInv, TypeOK, OrderLists
<1>2. CASE UNCHANGED <<broker_orders, broker_positions, last_run>>
  BY <1>1, <1>2, NotAheadOrder
<1>3. ASSUME NEW p \in Processes, WriteTables(p)
      PROVE  NotAhead(broker_orders[o], broker_orders'[o])
  <2>1. ~overlapped
    BY OverlapStep DEF RowsInv, CountInv
  <2>2. broker_orders'[o] = IF fetched[p].orders[o] # NoRow THEN fetched[p].orders[o]
                            ELSE broker_orders[o]
    BY <1>3 DEF WriteTables, Upserted
  <2>3. fetched[p].orders[o] # NoRow => NotAhead(broker_orders[o], fetched[p].orders[o])
    BY <1>3, <2>1 DEF WriteTables, RowsInv, AloneSoFar
  <2> QED
    BY <1>1, <2>2, <2>3, NotAheadOrder
<1> QED
  BY <1>2, <1>3, TablesStep

LEMMA RowsStep ==
  ASSUME RowsInv, [Next]_vars
  PROVE  RowsInv'
<1> TypeOK /\ CountInv /\ NeverAhead /\ AloneSoFar
  BY DEF RowsInv, CountInv
<1>1. CountInv' /\ TypeOK'
  BY CountStep DEF CountInv
<1>2. \A o \in OrderNumbers :
        /\ remote[o] \in Rows /\ remote'[o] \in Rows /\ broker_orders[o] \in Rows
        /\ NotAhead(remote[o], remote'[o])
        /\ \A p \in Processes : fetched[p].orders[o] \in Rows
  BY <1>1, RemoteMoves DEF TypeOK, OrderLists
<1>3. ASSUME NEW p \in Processes, NEW o \in OrderNumbers
      PROVE  \/ fetched'[p].orders[o] = fetched[p].orders[o] /\ (pc'[p] = "write" => pc[p] = "write")
             \/ fetched'[p].orders[o] = NoRow
             \/ /\ fetched'[p].orders[o] = remote[o] /\ remote' = remote
                /\ pc[p] = "orders" /\ broker_orders' = broker_orders
  <2>1. CASE get_account(p)
    BY <2>1 DEF get_account, TypeOK
  <2>2. CASE get_recent_order_snapshots(p)
    <3>1. fetched'[p].orders[o] = IF o \in Recent THEN remote[o] ELSE NoRow
      BY <2>2 DEF get_recent_order_snapshots, TypeOK
    <3> QED
      BY <2>2, <3>1 DEF get_recent_order_snapshots, broker, tables
  <2>3. NoFetch.orders[o] = NoRow
    BY DEF NoFetch
  <2> QED
    BY <2>1, <2>2, <2>3, FetchStep
<1>4. NeverAhead'
  <2>1. ASSUME NEW o \in OrderNumbers PROVE NotAhead(broker_orders'[o], remote'[o])
    <3>1. CASE UNCHANGED <<broker_orders, broker_positions, last_run>>
      BY <1>2, <3>1, NotAheadOrder DEF NeverAhead
    <3>2. ASSUME NEW p \in Processes, WriteTables(p)
          PROVE  NotAhead(broker_orders'[o], remote'[o])
      BY <3>2 DEF WriteTables, broker, Upserted, NeverAhead
    <3> QED
      BY <3>1, <3>2, TablesStep
  <2>2. ASSUME NEW p \in Processes, NEW o \in OrderNumbers
        PROVE  NotAhead(fetched'[p].orders[o], remote'[o])
    <3>1. NotAhead(fetched[p].orders[o], remote'[o])
      BY <1>2, NotAheadOrder DEF NeverAhead
    <3> QED
      BY <1>2, <1>3, <3>1, NotAheadOrder
  <2> QED
    BY <2>1, <2>2 DEF NeverAhead
<1>5. AloneSoFar'
  <2>1. SUFFICES ASSUME ~overlapped' PROVE
          /\ \A p, q \in Processes : pc'[p] # "idle" /\ pc'[q] # "idle" => p = q
          /\ \A p \in Processes : pc'[p] = "write" =>
               \A o \in OrderNumbers : fetched'[p].orders[o] # NoRow
                 => NotAhead(broker_orders'[o], fetched'[p].orders[o])
    BY DEF AloneSoFar
  <2>2. /\ ~overlapped
        /\ \A p, q \in Processes : pc[p] # "idle" /\ pc[q] # "idle" => p = q
        /\ \A p, q \in Processes : pc'[p] # "idle" /\ pc'[q] # "idle" => p = q
    BY <2>1, OverlapStep DEF AloneSoFar
  <2>3. ASSUME NEW p \in Processes, pc'[p] = "write", NEW o \in OrderNumbers,
               fetched'[p].orders[o] # NoRow
        PROVE  NotAhead(broker_orders'[o], fetched'[p].orders[o])
    <3>1. CASE fetched'[p].orders[o] = fetched[p].orders[o] /\ pc[p] = "write"
      <4>1. NotAhead(broker_orders[o], fetched[p].orders[o])
        BY <2>2, <2>3, <3>1 DEF AloneSoFar
      <4>2. broker_orders' = broker_orders
        <5>1. ASSUME NEW q \in Processes, WriteTables(q) PROVE FALSE
          <6>1. q = p
            BY <2>2, <3>1, <5>1 DEF WriteTables
          <6> QED
            BY <2>3, <5>1, <6>1 DEF WriteTables, TypeOK
        <5> QED
          BY <5>1, TablesStep
      <4> QED
        BY <3>1, <4>1, <4>2
    <3>2. CASE fetched'[p].orders[o] = remote[o] /\ broker_orders' = broker_orders
      BY <3>2 DEF NeverAhead
    <3> QED
      BY <1>3, <2>3, <3>1, <3>2
  <2> QED
    BY <2>2, <2>3
<1> QED
  BY <1>1, <1>4, <1>5 DEF RowsInv

-----------------------------------------------------------------------------

LEMMA InvInit == Init => PositionsInv /\ RowsInv
<1> SUFFICES ASSUME Init PROVE PositionsInv /\ RowsInv
  OBVIOUS
<1>1. CountInv
  BY CountInit
<1>2. /\ broker_positions = NoShares /\ shares = NoShares /\ held = {NoShares} /\ last_run = 0
      /\ \A p \in Processes : pc[p] = "idle" /\ fetched[p] = NoFetch
      /\ \A o \in OrderNumbers : broker_orders[o] = NoRow /\ remote[o] = NoRow
      /\ \A o \in OrderNumbers : NoShares[o] = 0 /\ NoFetch.orders[o] = NoRow
      /\ NoFetch.positions = NoShares /\ NoRow.filled_quantity = 0
  BY DEF Init, NoFetch, NoShares, NoRow
<1>3. PositionsBought /\ PositionsHeld /\ FetchExplained /\ PositionsExplained
  BY <1>2 DEF PositionsBought, PositionsHeld, FetchExplained, PositionsExplained, Recent, Placed
<1>4. PositionsStoodTogether
  <2>1. {o \in OrderNumbers : NoShares[o] > 0} = {}
    BY <1>2
  <2> QED
    BY <1>2, <2>1, FS_EmptySet DEF PositionsStoodTogether, Seen
<1>5. NeverAhead /\ AloneSoFar
  BY <1>2, NoFetchTyped, NotAheadOrder DEF NeverAhead, AloneSoFar
<1> QED
  BY <1>1, <1>3, <1>4, <1>5 DEF PositionsInv, RowsInv

LEMMA Invariant == Spec => [](PositionsInv /\ RowsInv)
<1>1. PositionsInv /\ RowsInv /\ [Next]_vars => (PositionsInv /\ RowsInv)'
  BY PositionsStep, RowsStep
<1> QED
  BY <1>1, InvInit, PTL DEF Spec

\* Every table, run and count keeps its type; the worker counts no more failures in
\* a row than there were (alpaca_sync.py, sync_worker.py).
THEOREM TypeCorrect == Spec => []TypeOK
<1>1. PositionsInv => TypeOK
  BY DEF PositionsInv, CountInv
<1> QED
  BY <1>1, Invariant, PTL

\* What the tables show as held was bought according to their rows, as long as the
\* purchase is listed (sync_alpaca_paper fetches the positions first).
THEOREM PositionsInvariant == Spec => []PositionsExplained
<1>1. PositionsInv => PositionsExplained
  BY DEF PositionsInv
<1> QED
  BY <1>1, Invariant, PTL

\* The positions shown stood at the broker together, and are as many as the last
\* run says: no mixture of runs, and nothing that was sold before (DELETE and INSERT
\* in one transaction, whichever runs fail or overlap).
THEOREM TogetherInvariant == Spec => []PositionsStoodTogether
<1>1. PositionsInv => PositionsStoodTogether
  BY DEF PositionsInv
<1> QED
  BY <1>1, Invariant, PTL

\* No more completed runs are without an audit record than were cut off before
\* they wrote it, and those that are about to.
THEOREM UnloggedInvariant == Spec => []UnloggedOnlyWhenCutOff
<1>1. PositionsInv => UnloggedOnlyWhenCutOff
  BY DEF PositionsInv, CountInv, UnloggedCounted, UnloggedOnlyWhenCutOff, Auditing
<1> QED
  BY <1>1, Invariant, PTL

\* Unless runs have overlapped, no order row goes back or disappears
\* (INSERT ... ON CONFLICT DO UPDATE, alpaca_sync.py).
THEOREM RowsAdvance == Spec => RowsOnlyAdvance
<1>1. RowsInv /\ [Next]_vars =>
        [~overlapped' => \A o \in OrderNumbers :
           NotAhead(broker_orders[o], broker_orders'[o])]_vars
  BY WriteAdvances
<1> QED
  BY <1>1, Invariant, PTL DEF Spec, RowsOnlyAdvance
=============================================================================
