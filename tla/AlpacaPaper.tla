----------------------------- MODULE AlpacaPaper -----------------------------
(***************************************************************************)
(* AlpacaPaperBrokerAdapter behind the retries of ReliableBrokerClient,    *)
(* against an order store of someone else.                                 *)
(*                                                                         *)
(* The adapter keeps two maps, written together, of the orders this        *)
(* session has placed; every operation is one HTTP request or a series of  *)
(* them, and clients interleave while a request is under way.  A request   *)
(* may fail before it is handled, its answer may be lost or unreadable,    *)
(* and any request may be turned down without effect; a POST or DELETE     *)
(* whose attempt was given up may still be on its way and be handled much  *)
(* later.                                                                  *)
(*                                                                         *)
(* The store is external.  Assumed of it is only that it takes a           *)
(* client_order_id once, that a settled order stays settled and one that   *)
(* is being cancelled comes to an end, and that what it calls filled is    *)
(* filled entirely; of any other order a part may have been filled.        *)
(***************************************************************************)
EXTENDS Naturals, Sequences, SequencesExt

CONSTANTS
  Clients, OrderIds, Orders, NoOrder,
  MaxAttempts,    \* ReliabilityPolicy.max_attempts
  MaxCalls,       \* bound: calls started by all clients together
  MaxRestarts     \* bound: sessions that end

ASSUME OrdersAssumption ==
  /\ \A order \in Orders : order.order_id \in OrderIds /\ order.quantity \in Nat \ {0}
  /\ NoOrder \notin Orders
ASSUME BoundsAssumption ==
  MaxAttempts \in Nat \ {0} /\ MaxCalls \in Nat /\ MaxRestarts \in Nat

VARIABLES
  remote,    \* the store: content, status and fill under each client order id
  known,     \* _orders and _broker_id_by_client_id: orders placed, oldest first
  pc,        \* where each client stands
  call,      \* the call each client makes, or made last
  request,   \* the request each client waits for, or waited for last
  reply,     \* the answer that is on its way to each client
  stray,     \* requests on their way that nobody waits for any more
  cut_off,   \* has any attempt or session been cut off so far?
  calls, restarts

local == <<known, pc, call, request, cut_off, calls, restarts>>
vars == <<remote, known, pc, call, request, reply, stray, cut_off, calls, restarts>>

OpenStatuses == {"new", "partially_filled", "pending_cancel"}
\* "expired" stands for replaced too, and "rejected" for suspended.
SettledStatuses == {"filled", "canceled", "expired", "rejected"}
RemoteStatuses == {"none"} \cup OpenStatuses \cup SettledStatuses
\* How many of the shares of an order have changed hands.
Fills == {"nothing", "part", "all"}
Remote == [order : Orders \cup {NoOrder}, status : RemoteStatuses, filled : Fills]
Nothing == [order |-> NoOrder, status |-> "none", filled |-> "nothing"]

Request == [method : {"POST", "GET", "DELETE"}, order : Orders]
NoRequest == [method |-> "none", order |-> NoOrder]

\* What the store answers: 2xx, or a 4xx that the adapter raises as one error or
\* another; "already" is a 4xx because the id is taken or the order settled, and
\* only the text of the error tells it from any other.
Codes == {"ok", "refused", "already"}
Reply == [code : Codes \cup {"none"}, status : RemoteStatuses, filled : Fills]
Bare(code) == [code |-> code, status |-> "none", filled |-> "nothing"]
NoReply == Bare("none")

BrokerStatuses == {"submitted", "filled", "cancelled", "rejected"}
Results == {"pending", "ok", "conflict", "not_found", "refused", "already", "transient",
            "raised"}

\* What a caller is told of an order; "nothing" is no execution.
BrokerOrder == [status : BrokerStatuses \cup {"none"}, execution : Fills]
NoBrokerOrder == [status |-> "none", execution |-> "nothing"]

\* todo lists the orders a reconciliation still has to ask about.
Call ==
  [op : {"none", "submit", "cancel", "reconcile"},
   order : Orders \cup {NoOrder},
   todo : Seq(Orders),
   attempts : 0..(MaxAttempts - 1),
   result : Results,
   answer : BrokerOrder]

NoCall == [op |-> "none", order |-> NoOrder, todo |-> <<>>, attempts |-> 0,
           result |-> "ok", answer |-> NoBrokerOrder]

TypeOK ==
  /\ remote \in [OrderIds -> Remote]
  /\ known \in Seq(Orders)
  /\ pc \in [Clients -> {"idle", "ready", "waiting", "answered"}]
  /\ call \in [Clients -> Call]
  /\ request \in [Clients -> Request \cup {NoRequest}]
  /\ reply \in [Clients -> Reply]
  /\ stray \subseteq Request
  /\ cut_off \in BOOLEAN
  /\ calls \in 0..MaxCalls
  /\ restarts \in 0..MaxRestarts

Init ==
  /\ remote = [id \in OrderIds |-> Nothing]
  /\ known = <<>>
  /\ pc = [c \in Clients |-> "idle"]
  /\ call = [c \in Clients |-> NoCall]
  /\ request = [c \in Clients |-> NoRequest]
  /\ reply = [c \in Clients |-> NoReply]
  /\ stray = {}
  /\ cut_off = FALSE
  /\ calls = 0
  /\ restarts = 0

-----------------------------------------------------------------------------
(* The store, external to the repository. *)

\* Mutant for the checks: an order that is being cancelled counts as cancelled.
_map_status_Hasty(value) ==
  CASE value = "filled" -> "filled"
    [] value \in {"canceled", "expired", "pending_cancel"} -> "cancelled"
    [] value = "rejected" -> "rejected"
    [] OTHER -> "submitted"

\* How the adapter reads a status of the store.
_map_status(value) ==
  CASE value = "filled" -> "filled"
    [] value \in {"canceled", "expired"} -> "cancelled"
    [] value = "rejected" -> "rejected"
    [] OTHER -> "submitted"

\* Mutant for the checks: whatever was filled is an execution.
_to_broker_order_AnyFill(answer) ==
  [status |-> _map_status(answer.status), execution |-> answer.filled]

\* Only an order that is filled has an execution.
_to_broker_order(answer) ==
  [status |-> _map_status(answer.status),
   execution |-> IF _map_status(answer.status) = "filled" THEN answer.filled ELSE "nothing"]

\* The market fills an open order, or a part of it, or rejects it; or it ends
\* cancelled or with the day, whatever part has been filled.
MarketMoves(id) ==
  LET entry == remote[id]
      moves(status, filled) ==
        remote' = [remote EXCEPT ![id] = [order |-> entry.order, status |-> status,
                                          filled |-> filled]]
  IN  /\ entry.status \in OpenStatuses
      /\ \/ moves("filled", "all")
         \/ entry.order.quantity > 1 /\ moves(IF entry.status = "new" THEN "partially_filled"
                                              ELSE entry.status, "part")
         \/ moves(IF entry.status = "pending_cancel" THEN "canceled" ELSE "expired",
                  entry.filled)
         \/ entry.filled = "nothing" /\ moves("rejected", "nothing")
      /\ UNCHANGED <<local, reply, stray>>

\* The answers of the store: without an order, or with what it says of one.
Answers(req) ==
  LET entry == remote[req.order.order_id]
  IN  {Bare(code) : code \in Codes}
        \cup {[code |-> "ok", status |-> status, filled |-> entry.filled] :
                status \in {"new", entry.status}}

\* What a request does to the store, and the answer it gets.  Whatever it asks it
\* may be turned down, for the state of its order or for any other reason.
Carried(req, answer) ==
  LET id == req.order.order_id
      entry == remote[id]
  IN  \/ /\ answer.code = "refused"
         /\ UNCHANGED remote
      \/ /\ req.method = "POST" /\ entry # Nothing
         /\ answer.code = "already"
         /\ UNCHANGED remote
      \/ /\ req.method = "POST" /\ entry = Nothing
         /\ answer = [Bare("ok") EXCEPT !.status = "new"]
         /\ remote' = [remote EXCEPT ![id] = [order |-> req.order, status |-> "new",
                                             filled |-> "nothing"]]
      \/ /\ req.method = "GET" /\ entry # Nothing
         /\ answer = [code |-> "ok", status |-> entry.status, filled |-> entry.filled]
         /\ UNCHANGED remote
      \/ /\ req.method = "DELETE" /\ entry.status \in OpenStatuses
         /\ answer = Bare("ok")
         /\ remote' = [remote EXCEPT ![id].status = "pending_cancel"]
      \/ /\ req.method = "DELETE" /\ entry.status \in SettledStatuses
         /\ answer \in {Bare("ok"), Bare("already")}
         /\ UNCHANGED remote

HandleRequest(c) ==
  /\ pc[c] = "waiting"
  /\ \E answer \in Answers(request[c]) :
       Carried(request[c], answer) /\ reply' = [reply EXCEPT ![c] = answer]
  /\ pc' = [pc EXCEPT ![c] = "answered"]
  /\ UNCHANGED <<known, call, request, stray, cut_off, calls, restarts>>

\* A request nobody waits for any more arrives after all, or never does.
HandleStray(req) ==
  /\ req \in stray
  /\ stray' = stray \ {req}
  /\ \E answer \in Answers(req) : Carried(req, answer)
  /\ UNCHANGED <<local, reply>>

-----------------------------------------------------------------------------
(* The calls, through ReliableBrokerClient._call. *)

Begin(c, started) ==
  /\ pc[c] = "idle"
  /\ calls < MaxCalls
  /\ calls' = calls + 1
  /\ pc' = [pc EXCEPT ![c] = "ready"]
  /\ call' = [call EXCEPT ![c] = started]
  /\ UNCHANGED <<remote, known, request, reply, stray, cut_off, restarts>>

CallSubmit(c, order) ==
  Begin(c, [NoCall EXCEPT !.op = "submit", !.order = order, !.result = "pending"])

CallCancel(c, order) ==
  Begin(c, [NoCall EXCEPT !.op = "cancel", !.order = order, !.result = "pending"])

CallReconcile(c) == Begin(c, [NoCall EXCEPT !.op = "reconcile", !.result = "pending"])

Send(c, method, order) ==
  /\ pc' = [pc EXCEPT ![c] = "waiting"]
  /\ request' = [request EXCEPT ![c] = [method |-> method, order |-> order]]
  /\ reply' = [reply EXCEPT ![c] = NoReply]

Finish(c, result, answer) ==
  /\ pc' = [pc EXCEPT ![c] = "idle"]
  /\ call' = [call EXCEPT ![c].result = result, ![c].answer = answer,
                          ![c].todo = <<>>, ![c].attempts = 0]
  /\ request' = [request EXCEPT ![c] = NoRequest]
  /\ reply' = [reply EXCEPT ![c] = NoReply]

\* Mutant for the checks: one attempt too many.
FailedAttempt_OneMore(c) ==
  IF call[c].attempts + 1 <= MaxAttempts
  THEN /\ pc' = [pc EXCEPT ![c] = "ready"]
       /\ call' = [call EXCEPT ![c].attempts = @ + 1, ![c].todo = <<>>]
       /\ request' = [request EXCEPT ![c] = NoRequest]
       /\ reply' = [reply EXCEPT ![c] = NoReply]
  ELSE Finish(c, "transient", NoBrokerOrder)

\* A time-out, a network error or a 429 or 5xx: another attempt, from the start.
FailedAttempt(c) ==
  IF call[c].attempts + 1 < MaxAttempts
  THEN /\ pc' = [pc EXCEPT ![c] = "ready"]
       /\ call' = [call EXCEPT ![c].attempts = @ + 1, ![c].todo = <<>>]
       /\ request' = [request EXCEPT ![c] = NoRequest]
       /\ reply' = [reply EXCEPT ![c] = NoReply]
  ELSE Finish(c, "transient", NoBrokerOrder)

\* The wait is given up; or it ends in an error that is not transient, a connection
\* broken off in the middle or a 2xx that cannot be read, and the call with it.  An
\* answer under way is lost, a request not handled yet is lost or handled later.
GiveUp(c) ==
  /\ pc[c] \in {"waiting", "answered"}
  /\ FailedAttempt(c) \/ Finish(c, "raised", NoBrokerOrder)
  /\ \/ stray' = stray
     \/ /\ pc[c] = "waiting" /\ request[c].method # "GET"
        /\ stray' = stray \cup {request[c]}
  /\ cut_off' = TRUE
  /\ UNCHANGED <<remote, known, calls, restarts>>

-----------------------------------------------------------------------------
(* The adapter. *)

IsKnown(id) == \E i \in DOMAIN known : known[i].order_id = id

\* submit_order looks its id up: a known order is fetched, a new one is posted.
StartSubmit(c, order) ==
  IF ~IsKnown(order.order_id) THEN Send(c, "POST", order) /\ call' = call
  ELSE IF Contains(known, order) THEN Send(c, "GET", order) /\ call' = call
  ELSE Finish(c, "conflict", NoBrokerOrder)

StartCancel(c, order) ==
  IF IsKnown(order.order_id) THEN Send(c, "DELETE", order) /\ call' = call
                             ELSE Finish(c, "not_found", NoBrokerOrder)

\* reconcile_orders takes the orders it knows now and asks about each in turn.
StartReconcile(c) ==
  IF known = <<>> THEN Finish(c, "ok", NoBrokerOrder)
  ELSE Send(c, "GET", Head(known)) /\ call' = [call EXCEPT ![c].todo = Tail(known)]

Attempt(c) ==
  /\ pc[c] = "ready"
  /\ CASE call[c].op = "submit" -> StartSubmit(c, call[c].order)
       [] call[c].op = "cancel" -> StartCancel(c, call[c].order)
       [] OTHER -> StartReconcile(c)
  /\ UNCHANGED <<remote, known, stray, cut_off, calls, restarts>>

\* Mutant for the checks: a refused POST is kept as if it had been placed.
Remember_AnyPost(c) ==
  known' = IF request[c].method = "POST" THEN Append(known, request[c].order) ELSE known

\* Mutant for the checks: only the last order placed is kept.
Remember_LastOnly(c) ==
  known' = IF request[c].method = "POST" /\ reply[c].code = "ok"
           THEN <<request[c].order>> ELSE known

\* The maps are written once the POST has been answered.
Remember(c) ==
  known' = IF request[c].method = "POST" /\ reply[c].code = "ok"
           THEN Append(known, request[c].order) ELSE known

\* _request raises on any other answer; after a DELETE the order is fetched, a
\* reconciliation goes on with the next order, anything else is the result.
Receive(c) ==
  /\ pc[c] = "answered"
  /\ Remember(c)
  /\ IF reply[c].code # "ok" THEN Finish(c, reply[c].code, NoBrokerOrder)
     ELSE IF request[c].method = "DELETE"
     THEN Send(c, "GET", request[c].order) /\ call' = call
     ELSE IF call[c].todo # <<>>
     THEN /\ Send(c, "GET", Head(call[c].todo))
          /\ call' = [call EXCEPT ![c].todo = Tail(@)]
     ELSE Finish(c, "ok", _to_broker_order(reply[c]))
  /\ UNCHANGED <<remote, stray, cut_off, calls, restarts>>

\* The process ends and another one starts, with empty maps; requests on their
\* way may still arrive.
Restart ==
  /\ restarts < MaxRestarts
  /\ restarts' = restarts + 1
  /\ known' = <<>>
  /\ pc' = [c \in Clients |-> "idle"]
  /\ call' = [c \in Clients |-> NoCall]
  /\ request' = [c \in Clients |-> NoRequest]
  /\ reply' = [c \in Clients |-> NoReply]
  /\ \E late \in SUBSET {request[c] : c \in {d \in Clients : pc[d] = "waiting"}} :
       stray' = stray \cup {req \in late : req.method # "GET"}
  /\ cut_off' = TRUE
  /\ UNCHANGED <<remote, calls>>

-----------------------------------------------------------------------------

Proceed(c) == Attempt(c) \/ Receive(c) \/ GiveUp(c)

Next ==
  \/ \E c \in Clients :
       \/ \E order \in Orders : CallSubmit(c, order) \/ CallCancel(c, order)
       \/ CallReconcile(c)
       \/ HandleRequest(c)
       \/ Proceed(c)
  \/ \E id \in OrderIds : MarketMoves(id)
  \/ \E req \in stray : HandleStray(req)
  \/ Restart

Spec == Init /\ [][Next]_vars

-----------------------------------------------------------------------------
(* Properties. *)

\* What the session believes it has placed stands in the store with exactly
\* that content, once: a lost, late or refused POST never gets into the maps
\* (submit_order, alpaca.py 163-179).
KnownIsPlaced ==
  /\ \A i \in DOMAIN known : remote[known[i].order_id].order = known[i]
  /\ \A i, j \in DOMAIN known : known[i].order_id = known[j].order_id => i = j

SameFinalStatus ==
  {<<"filled", "filled">>, <<"cancelled", "canceled">>, <<"cancelled", "expired">>,
   <<"rejected", "rejected">>}

\* The answer to a submission or a cancellation is true of the store: the order
\* stands with that content, a conflict means that it stands with another one, a
\* cancelled order is at its end or going to it, and a final status is the status
\* it has and keeps, whatever raced with the request.  What ends in an error says
\* nothing.  (submit_order, cancel_order, _to_broker_order, _map_status)
AnswersTrue ==
  \A c \in Clients :
    LET order == call[c].order
        entry == remote[order.order_id]
        ended(op, result) == pc[c] = "idle" /\ call[c].op = op /\ call[c].result = result
    IN  /\ ended("submit", "ok") => entry.order = order
        /\ ended("submit", "conflict") => entry.order \notin {order, NoOrder}
        /\ ended("cancel", "ok") => entry.status \in {"pending_cancel"} \cup SettledStatuses
        /\ (ended("submit", "ok") \/ ended("cancel", "ok")) /\ call[c].answer.status # "submitted"
             => <<call[c].answer.status, entry.status>> \in SameFinalStatus

\* Shares that changed hands are reported as they are: an execution is of the whole
\* order, and once an order is settled what the caller is told to have been
\* executed is what was, with one exception.  An order that is cancelled or expires
\* after a part was filled comes back without an execution, since only FILLED makes
\* one (_to_broker_order, alpaca.py 285-310, 325).
OnlyPartialFillsUnreported ==
  \A c \in Clients :
    LET answer == call[c].answer
        entry == remote[call[c].order.order_id]
    IN  pc[c] = "idle" /\ call[c].op \in {"submit", "cancel"} /\ call[c].result = "ok" =>
          \/ answer.status = "submitted" /\ answer.execution = "nothing"
          \/ answer.execution = entry.filled
          \/ answer = [status |-> "cancelled", execution |-> "nothing"] /\ entry.filled = "part"

\* As long as no attempt and no session has been cut off, every order in the
\* store is known here, or the answer that makes it known is on its way
\* (alpaca.py 176-178 follows 163-175 with nothing awaited in between).
NoOrphanWithoutCutOff ==
  ~cut_off => \A id \in OrderIds :
    remote[id] = Nothing \/ IsKnown(id)
      \/ \E c \in Clients : /\ pc[c] = "answered"
                            /\ request[c] = [method |-> "POST", order |-> remote[id].order]
                            /\ reply[c].code = "ok"

\* docs/architecture.md 90-92: repeating an order with the same content gives
\* the same broker order again, so that a lost answer makes no duplicate.  An
\* order whose answer was lost is refused to its own retry instead.
RepeatIsNotRefused ==
  \A c \in Clients :
    pc[c] = "idle" /\ call[c].op = "submit" /\ call[c].result = "already"
      => remote[call[c].order.order_id].order # call[c].order

\* docs/decisions/0005 22 and phase-4-checklist.md 15: cancelling is idempotent.  An
\* order whose cancellation has come through is refused to the retry of that very
\* cancellation instead (cancel_order sends the DELETE again, _request raises).
RepeatedCancelIsNotRefused ==
  \A c \in Clients :
    pc[c] = "idle" /\ call[c].op = "cancel" /\ call[c].result = "already"
      => remote[call[c].order.order_id].status # "canceled"
=============================================================================
