------------------------- MODULE AlpacaPaper_proofs -------------------------
(***************************************************************************)
(* What the Alpaca adapter believes about its orders, for any number of    *)
(* clients, orders, attempts, calls and sessions.  The store takes an id   *)
(* once and never changes a content; the maps are written from answers     *)
(* only.  What connects the two is the time between them: an answered POST *)
(* that its client has not taken yet (AnsweredPosts).                      *)
(***************************************************************************)
EXTENDS AlpacaPaper, TLAPS

\* An entry of the store is empty or holds an order of its id.
StoreShape ==
  \A id \in OrderIds :
    \/ remote[id] = Nothing
    \/ remote[id].order \in Orders /\ remote[id].order.order_id = id

\* A client that is about to act, or waits, has what the next step needs.
ClientsEquipped ==
  \A c \in Clients :
    /\ pc[c] # "idle" /\ call[c].op \in {"submit", "cancel"} => call[c].order \in Orders
    /\ pc[c] \in {"waiting", "answered"} => request[c] \in Request
    /\ pc[c] = "answered" => reply[c].code \in Codes

TypeInv == TypeOK /\ StoreShape /\ ClientsEquipped

\* The client has been told that its order was placed and has not taken it in.
Placed(c) == pc[c] = "answered" /\ request[c].method = "POST" /\ reply[c].code = "ok"

\* Without this KnownIsPlaced is not inductive: what Receive is about to add
\* to the maps stands in the store, is not known yet and is added by one client.
AnsweredPosts ==
  \A c \in Clients : Placed(c) =>
    LET id == request[c].order.order_id
    IN  /\ remote[id].order = request[c].order
        /\ ~IsKnown(id)
        /\ \A d \in Clients : d # c /\ Placed(d) => request[d].order.order_id # id

NothingStrayYet == ~cut_off => stray = {}

PlacedInv == TypeInv /\ KnownIsPlaced /\ AnsweredPosts
OrphanInv == TypeInv /\ NothingStrayYet /\ NoOrphanWithoutCutOff

-----------------------------------------------------------------------------
(* The store. *)

LEMMA BareReplies == \A code \in Codes \cup {"none"} : Bare(code) \in Reply /\ Bare(code).code = code
  BY DEF Bare, Reply, RemoteStatuses, Fills

LEMMA BrokerOrders ==
  /\ NoBrokerOrder \in BrokerOrder
  /\ \A answer \in Reply : _to_broker_order(answer) \in BrokerOrder
  BY DEF NoBrokerOrder, BrokerOrder, Fills, _to_broker_order, _map_status, BrokerStatuses, Reply

LEMMA AnswersAreReplies ==
  ASSUME TypeInv, NEW req \in Request, NEW answer \in Answers(req)
  PROVE  answer \in Reply
<1>1. req.order.order_id \in OrderIds /\ remote \in [OrderIds -> Remote]
  BY OrdersAssumption DEF TypeInv, TypeOK, Request
<1>2. \A status \in RemoteStatuses :
        [code |-> "ok", status |-> status, filled |-> remote[req.order.order_id].filled] \in Reply
  BY <1>1 DEF Reply, Codes, Remote
<1>3. {"new", remote[req.order.order_id].status} \subseteq RemoteStatuses
  BY <1>1 DEF Remote, RemoteStatuses, OpenStatuses
<1> QED
  BY <1>2, <1>3, BareReplies DEF Answers

LEMMA StoreKeepsContents ==
  ASSUME TypeInv, NEW req \in Request, NEW answer \in Reply, Carried(req, answer)
  PROVE  /\ remote' \in [OrderIds -> Remote] /\ StoreShape'
         /\ answer.code \in Codes
         /\ \A id \in OrderIds : remote[id] # Nothing => remote'[id].order = remote[id].order
         /\ \A id \in OrderIds : remote'[id] # remote[id] =>
              \/ remote[id] # Nothing
              \/ /\ req.method = "POST" /\ answer.code = "ok"
                 /\ req.order.order_id = id /\ remote'[id].order = req.order
<1> DEFINE id == req.order.order_id
<1>1. id \in OrderIds /\ remote \in [OrderIds -> Remote] /\ StoreShape
  BY OrdersAssumption DEF TypeInv, TypeOK, Request
<1>2. CASE UNCHANGED remote /\ answer.code \in Codes
  BY <1>1, <1>2 DEF StoreShape
<1>3. CASE /\ req.method = "POST" /\ remote[id] = Nothing /\ answer.code = "ok"
           /\ remote' = [remote EXCEPT ![id] = [order |-> req.order, status |-> "new",
                                               filled |-> "nothing"]]
  BY <1>1, <1>3 DEF StoreShape, Remote, RemoteStatuses, OpenStatuses, Fills, Request, Codes
<1>4. CASE /\ remote[id].status \in OpenStatuses
           /\ answer.code = "ok"
           /\ remote' = [remote EXCEPT ![id].status = "pending_cancel"]
  BY <1>1, <1>4 DEF StoreShape, Remote, RemoteStatuses, OpenStatuses, Nothing, Codes
<1>5. /\ Bare("ok").code = "ok" /\ Bare("already").code = "already"
      /\ [Bare("ok") EXCEPT !.status = "new"].code = "ok"
      /\ [code |-> "ok", status |-> remote[id].status, filled |-> remote[id].filled].code = "ok"
  BY DEF Bare
<1>6. \/ UNCHANGED remote /\ answer.code \in Codes
      \/ /\ req.method = "POST" /\ remote[id] = Nothing /\ answer.code = "ok"
         /\ remote' = [remote EXCEPT ![id] = [order |-> req.order, status |-> "new",
                                             filled |-> "nothing"]]
      \/ /\ remote[id].status \in OpenStatuses /\ answer.code = "ok"
         /\ remote' = [remote EXCEPT ![id].status = "pending_cancel"]
  BY <1>5, Zenon DEF Carried, Codes
<1> QED
  BY <1>2, <1>3, <1>4, <1>6

LEMMA MarketKeepsContents ==
  ASSUME TypeInv, NEW m \in OrderIds, MarketMoves(m)
  PROVE  /\ remote' \in [OrderIds -> Remote] /\ StoreShape'
         /\ \A id \in OrderIds : /\ remote'[id].order = remote[id].order
                                 /\ remote[id] = Nothing => remote'[id] = Nothing
<1>1. remote \in [OrderIds -> Remote] /\ StoreShape /\ remote[m].status \in OpenStatuses
  BY DEF TypeInv, TypeOK, MarketMoves
<1>2. PICK status \in RemoteStatuses, filled \in Fills :
        remote' = [remote EXCEPT ![m] = [order |-> remote[m].order, status |-> status,
                                         filled |-> filled]]
  BY <1>1 DEF MarketMoves, Remote, RemoteStatuses, OpenStatuses, SettledStatuses, Fills
<1>3. remote[m] # Nothing
  BY <1>1 DEF Nothing, OpenStatuses
<1> QED
  BY <1>1, <1>2, <1>3 DEF StoreShape, Remote

-----------------------------------------------------------------------------
(* Types, one step at a time. *)

LEMMA FinishTypes ==
  ASSUME TypeInv, NEW c \in Clients, NEW result \in Results,
         NEW answer \in BrokerOrder, Finish(c, result, answer)
  PROVE  /\ pc' \in [Clients -> {"idle", "ready", "waiting", "answered"}]
         /\ call' \in [Clients -> Call]
         /\ request' \in [Clients -> Request \cup {NoRequest}]
         /\ reply' \in [Clients -> Reply]
         /\ ClientsEquipped'
<1>1. pc' = [pc EXCEPT ![c] = "idle"] /\ request' = [request EXCEPT ![c] = NoRequest]
      /\ reply' = [reply EXCEPT ![c] = NoReply]
  BY DEF Finish
<1>2. NoReply \in Reply
  BY BareReplies DEF NoReply
<1>3. call' = [call EXCEPT ![c] = [@ EXCEPT !.result = result, !.answer = answer,
                                            !.todo = <<>>, !.attempts = 0]]
  BY DEF Finish, TypeInv, TypeOK, Call
<1>4. 0 \in 0..(MaxAttempts - 1) /\ <<>> \in Seq(Orders)
  BY BoundsAssumption
<1>5. call' \in [Clients -> Call]
  <2>1. [call[c] EXCEPT !.result = result, !.answer = answer,
                        !.todo = <<>>, !.attempts = 0] \in Call
    <3>1. call[c] \in Call
      BY DEF TypeInv, TypeOK
    <3> QED
      BY <1>4, <3>1 DEF Call
  <2> QED
    BY <1>3, <2>1 DEF TypeInv, TypeOK
<1>6. \A d \in Clients : d # c => call'[d] = call[d]
  BY <1>3 DEF TypeInv, TypeOK
<1> QED
  BY <1>1, <1>2, <1>5, <1>6 DEF TypeInv, TypeOK, ClientsEquipped

LEMMA SendTypes ==
  ASSUME TypeInv, NEW c \in Clients, pc[c] # "idle", NEW method \in {"POST", "GET", "DELETE"},
         NEW order \in Orders, Send(c, method, order)
  PROVE  /\ pc' \in [Clients -> {"idle", "ready", "waiting", "answered"}]
         /\ request' \in [Clients -> Request \cup {NoRequest}]
         /\ reply' \in [Clients -> Reply]
         /\ (\A d \in Clients : call'[d].op = call[d].op /\ call'[d].order = call[d].order)
              => ClientsEquipped'
<1>1. [method |-> method, order |-> order] \in Request /\ NoReply \in Reply
  BY BareReplies DEF Request, NoReply
<1> QED
  BY <1>1 DEF Send, TypeInv, TypeOK, ClientsEquipped

LEMMA FailedAttemptTypes ==
  ASSUME TypeInv, NEW c \in Clients, pc[c] \in {"waiting", "answered"}, FailedAttempt(c)
  PROVE  /\ pc' \in [Clients -> {"idle", "ready", "waiting", "answered"}]
         /\ call' \in [Clients -> Call]
         /\ request' \in [Clients -> Request \cup {NoRequest}]
         /\ reply' \in [Clients -> Reply]
         /\ ClientsEquipped'
<1>1. CASE call[c].attempts + 1 < MaxAttempts
  <2> DEFINE n == call[c].attempts + 1
  <2>1. /\ pc' = [pc EXCEPT ![c] = "ready"]
        /\ call' = [call EXCEPT ![c] = [call[c] EXCEPT !.attempts = n, !.todo = <<>>]]
        /\ request' = [request EXCEPT ![c] = NoRequest]
        /\ reply' = [reply EXCEPT ![c] = NoReply]
    BY <1>1 DEF FailedAttempt, TypeInv, TypeOK, Call
  <2>2. NoReply \in Reply
    BY BareReplies DEF NoReply
  <2>3. n \in 0..(MaxAttempts - 1) /\ <<>> \in Seq(Orders) /\ call[c] \in Call
    BY <1>1, BoundsAssumption DEF TypeInv, TypeOK, Call
  <2>4. call' \in [Clients -> Call] /\ \A d \in Clients : call'[d].op = call[d].op
                                                        /\ call'[d].order = call[d].order
    <3> HIDE DEF n
    <3>1. [call[c] EXCEPT !.attempts = n, !.todo = <<>>] \in Call
      BY <2>3 DEF Call
    <3>2. /\ [call[c] EXCEPT !.attempts = n, !.todo = <<>>].op = call[c].op
          /\ [call[c] EXCEPT !.attempts = n, !.todo = <<>>].order = call[c].order
      BY <2>3 DEF Call
    <3> QED
      BY <2>1, <3>1, <3>2 DEF TypeInv, TypeOK
  <2> QED
    BY <2>1, <2>2, <2>4 DEF TypeInv, TypeOK, ClientsEquipped
<1>2. CASE ~(call[c].attempts + 1 < MaxAttempts)
  BY <1>2, FinishTypes, BrokerOrders DEF FailedAttempt, Results
<1> QED
  BY <1>1, <1>2

LEMMA BeginTypes ==
  ASSUME TypeInv, NEW c \in Clients, NEW started \in Call, Begin(c, started),
         started.op # "reconcile" => started.order \in Orders
  PROVE  TypeInv'
<1>1. /\ pc' = [pc EXCEPT ![c] = "ready"] /\ call' = [call EXCEPT ![c] = started]
      /\ calls' \in 0..MaxCalls
  BY BoundsAssumption DEF Begin, TypeInv, TypeOK
<1>2. TypeOK'
  BY <1>1 DEF Begin, TypeInv, TypeOK
<1>3. StoreShape'
  BY DEF Begin, TypeInv, StoreShape
<1>4. ClientsEquipped'
  BY <1>1 DEF Begin, TypeInv, TypeOK, ClientsEquipped
<1> QED
  BY <1>2, <1>3, <1>4 DEF TypeInv

LEMMA StartedTypes ==
  ASSUME NEW op \in {"submit", "cancel", "reconcile"}, NEW order \in Orders
  PROVE  /\ [NoCall EXCEPT !.op = op, !.order = order, !.result = "pending"] \in Call
         /\ [NoCall EXCEPT !.op = op, !.result = "pending"] \in Call
<1>1. 0 \in 0..(MaxAttempts - 1) /\ <<>> \in Seq(Orders)
  BY BoundsAssumption
<1> QED
  BY <1>1, BrokerOrders DEF NoCall, Call, Results

LEMMA AttemptTypes ==
  ASSUME TypeInv, NEW c \in Clients, Attempt(c)
  PROVE  TypeInv'
<1>1. pc[c] = "ready" /\ call \in [Clients -> Call] /\ known \in Seq(Orders)
      /\ UNCHANGED <<remote, known, stray, cut_off, calls, restarts>>
  BY DEF Attempt, TypeInv, TypeOK
<1>2. StoreShape'
  BY <1>1 DEF TypeInv, StoreShape
<1>3. SUFFICES /\ pc' \in [Clients -> {"idle", "ready", "waiting", "answered"}]
               /\ call' \in [Clients -> Call]
               /\ request' \in [Clients -> Request \cup {NoRequest}]
               /\ reply' \in [Clients -> Reply]
               /\ ClientsEquipped'
  BY <1>1, <1>2 DEF TypeInv, TypeOK
<1>4. {"conflict", "not_found", "ok"} \subseteq Results
  BY DEF Results
<1>5. CASE call[c].op = "submit"
  <2>1. call[c].order \in Orders /\ StartSubmit(c, call[c].order)
    BY <1>1, <1>5 DEF TypeInv, ClientsEquipped, Attempt
  <2> QED
    BY <1>1, <1>4, <2>1, SendTypes, FinishTypes, BrokerOrders DEF StartSubmit
<1>6. CASE call[c].op = "cancel"
  <2>1. call[c].order \in Orders /\ StartCancel(c, call[c].order)
    BY <1>1, <1>6 DEF TypeInv, ClientsEquipped, Attempt
  <2> QED
    BY <1>1, <1>4, <2>1, SendTypes, FinishTypes, BrokerOrders DEF StartCancel
<1>7. CASE call[c].op \notin {"submit", "cancel"}
  <2>1. StartReconcile(c)
    BY <1>7 DEF Attempt
  <2>2. CASE known = <<>>
    BY <1>4, <2>1, <2>2, FinishTypes, BrokerOrders DEF StartReconcile
  <2>3. CASE known # <<>>
    <3>1. Head(known) \in Orders /\ Tail(known) \in Seq(Orders)
      BY <1>1, <2>3
    <3>2. call' = [call EXCEPT ![c] = [call[c] EXCEPT !.todo = Tail(known)]]
          /\ Send(c, "GET", Head(known))
      BY <2>1, <2>3 DEF StartReconcile
    <3>3. /\ call' \in [Clients -> Call]
          /\ \A d \in Clients : call'[d].op = call[d].op /\ call'[d].order = call[d].order
      BY <1>1, <3>1, <3>2 DEF Call
    <3> QED
      BY <1>1, <3>1, <3>2, <3>3, SendTypes
  <2> QED
    BY <2>2, <2>3
<1> QED
  BY <1>5, <1>6, <1>7

LEMMA ReceiveTypes ==
  ASSUME TypeInv, NEW c \in Clients, Receive(c)
  PROVE  TypeInv'
<1>1. /\ pc[c] = "answered" /\ call \in [Clients -> Call] /\ call[c].todo \in Seq(Orders)
      /\ request[c] \in Request /\ request[c].order \in Orders /\ reply[c] \in Reply
      /\ reply[c].code \in Codes
      /\ UNCHANGED <<remote, stray, cut_off, calls, restarts>>
  BY DEF Receive, TypeInv, TypeOK, ClientsEquipped, Call, Request
<1>2. known' \in Seq(Orders)
  BY <1>1 DEF Receive, Remember, TypeInv, TypeOK
<1>3. StoreShape'
  BY <1>1 DEF TypeInv, StoreShape
<1>4. SUFFICES /\ pc' \in [Clients -> {"idle", "ready", "waiting", "answered"}]
               /\ call' \in [Clients -> Call]
               /\ request' \in [Clients -> Request \cup {NoRequest}]
               /\ reply' \in [Clients -> Reply]
               /\ ClientsEquipped'
  BY <1>1, <1>2, <1>3 DEF TypeInv, TypeOK
<1>5. CASE reply[c].code # "ok"
  <2>1. reply[c].code \in Results
    BY <1>1, <1>5 DEF Codes, Results
  <2> QED
    BY <1>5, <2>1, FinishTypes, BrokerOrders DEF Receive
<1>6. CASE reply[c].code = "ok" /\ request[c].method = "DELETE"
  BY <1>1, <1>6, SendTypes DEF Receive
<1>7. CASE reply[c].code = "ok" /\ request[c].method # "DELETE" /\ call[c].todo # <<>>
  <2>1. Head(call[c].todo) \in Orders /\ Tail(call[c].todo) \in Seq(Orders)
    BY <1>1, <1>7
  <2>2. call' = [call EXCEPT ![c] = [call[c] EXCEPT !.todo = Tail(call[c].todo)]]
        /\ Send(c, "GET", Head(call[c].todo))
    BY <1>7 DEF Receive
  <2>3. /\ call' \in [Clients -> Call]
        /\ \A d \in Clients : call'[d].op = call[d].op /\ call'[d].order = call[d].order
    BY <1>1, <2>1, <2>2 DEF Call
  <2> QED
    BY <1>1, <2>1, <2>2, <2>3, SendTypes
<1>8. CASE reply[c].code = "ok" /\ request[c].method # "DELETE" /\ call[c].todo = <<>>
  <2>1. _to_broker_order(reply[c]) \in BrokerOrder /\ "ok" \in Results
    BY <1>1, BrokerOrders DEF Results
  <2> QED
    BY <1>8, <2>1, FinishTypes DEF Receive
<1> QED
  BY <1>5, <1>6, <1>7, <1>8

LEMMA HandleRequestTypes ==
  ASSUME TypeInv, NEW c \in Clients, HandleRequest(c)
  PROVE  TypeInv'
<1>1. request[c] \in Request /\ pc' = [pc EXCEPT ![c] = "answered"]
      /\ UNCHANGED <<known, call, request, stray, cut_off, calls, restarts>>
  BY DEF HandleRequest, TypeInv, ClientsEquipped
<1>2. PICK answer \in Reply :
        Carried(request[c], answer) /\ reply' = [reply EXCEPT ![c] = answer]
  BY AnswersAreReplies DEF HandleRequest, TypeInv, ClientsEquipped, OrphanInv, PlacedInv
<1>3. remote' \in [OrderIds -> Remote] /\ StoreShape' /\ answer.code \in Codes
  BY <1>1, <1>2, StoreKeepsContents
<1>4. TypeOK'
  BY <1>1, <1>2, <1>3 DEF TypeInv, TypeOK
<1>5. ClientsEquipped'
  BY <1>1, <1>2, <1>3 DEF TypeInv, TypeOK, ClientsEquipped, HandleRequest
<1> QED
  BY <1>3, <1>4, <1>5 DEF TypeInv

LEMMA OtherTypes ==
  ASSUME TypeInv,
         \/ \E c \in Clients : GiveUp(c)
         \/ \E req \in stray : HandleStray(req)
         \/ \E id \in OrderIds : MarketMoves(id)
         \/ Restart
  PROVE  TypeInv'
<1>1. CASE \E c \in Clients : GiveUp(c)
  <2>1. PICK c \in Clients : GiveUp(c)
    BY <1>1
  <2>2. /\ pc[c] \in {"waiting", "answered"} /\ request[c] \in Request /\ cut_off' = TRUE
        /\ stray' \subseteq stray \cup {request[c]}
        /\ UNCHANGED <<remote, known, calls, restarts>>
    BY <2>1 DEF GiveUp, TypeInv, ClientsEquipped
  <2>3. /\ pc' \in [Clients -> {"idle", "ready", "waiting", "answered"}]
        /\ call' \in [Clients -> Call]
        /\ request' \in [Clients -> Request \cup {NoRequest}]
        /\ reply' \in [Clients -> Reply]
        /\ ClientsEquipped'
    <3>1. "raised" \in Results
      BY DEF Results
    <3> QED
      BY <2>1, <2>2, <3>1, FailedAttemptTypes, FinishTypes, BrokerOrders DEF GiveUp
  <2>4. StoreShape'
    BY <2>2 DEF TypeInv, StoreShape
  <2> QED
    BY <2>2, <2>3, <2>4 DEF TypeInv, TypeOK
<1>2. CASE \E req \in stray : HandleStray(req)
  <2>1. PICK req \in stray : HandleStray(req)
    BY <1>2
  <2>2. req \in Request /\ stray' \subseteq stray /\ UNCHANGED <<local, reply>>
    BY <2>1 DEF TypeInv, TypeOK, HandleStray
  <2>3. remote' \in [OrderIds -> Remote] /\ StoreShape'
    BY <2>1, <2>2, StoreKeepsContents, AnswersAreReplies DEF HandleStray
  <2> QED
    BY <2>2, <2>3 DEF TypeInv, TypeOK, ClientsEquipped, local
<1>3. CASE \E id \in OrderIds : MarketMoves(id)
  <2>1. PICK id \in OrderIds : MarketMoves(id)
    BY <1>3
  <2>2. remote' \in [OrderIds -> Remote] /\ StoreShape' /\ UNCHANGED <<local, reply, stray>>
    BY <2>1, MarketKeepsContents DEF MarketMoves
  <2> QED
    BY <2>2 DEF TypeInv, TypeOK, ClientsEquipped, local
<1>4. CASE Restart
  <2>1. NoCall \in Call /\ NoReply \in Reply /\ <<>> \in Seq(Orders)
    BY BoundsAssumption, BareReplies, BrokerOrders DEF NoCall, Call, Results, NoReply
  <2>2. stray' \subseteq Request /\ restarts' \in 0..MaxRestarts
    BY <1>4, BoundsAssumption DEF Restart, TypeInv, TypeOK, ClientsEquipped
  <2>3. TypeOK'
    BY <1>4, <2>1, <2>2 DEF Restart, TypeInv, TypeOK
  <2>4. StoreShape' /\ ClientsEquipped'
    BY <1>4 DEF Restart, TypeInv, StoreShape, ClientsEquipped
  <2> QED
    BY <2>3, <2>4 DEF TypeInv
<1> QED
  BY <1>1, <1>2, <1>3, <1>4

LEMMA TypeStep ==
  ASSUME TypeInv, [Next]_vars
  PROVE  TypeInv'
<1>1. CASE UNCHANGED vars
  BY <1>1 DEF vars, TypeInv, TypeOK, StoreShape, ClientsEquipped
<1>2. ASSUME NEW c \in Clients,
             \/ \E order \in Orders : CallSubmit(c, order) \/ CallCancel(c, order)
             \/ CallReconcile(c)
      PROVE  TypeInv'
  <2>1. ASSUME NEW order \in Orders, CallSubmit(c, order) \/ CallCancel(c, order)
        PROVE  TypeInv'
    <3>1. PICK op \in {"submit", "cancel"} :
            Begin(c, [NoCall EXCEPT !.op = op, !.order = order, !.result = "pending"])
      BY <2>1 DEF CallSubmit, CallCancel
    <3>2. [NoCall EXCEPT !.op = op, !.order = order, !.result = "pending"].order = order
      BY DEF NoCall
    <3> QED
      BY <3>1, <3>2, StartedTypes, BeginTypes
  <2>2. CASE CallReconcile(c)
    <3>1. [NoCall EXCEPT !.op = "reconcile", !.result = "pending"] \in Call
      <4>1. 0 \in 0..(MaxAttempts - 1) /\ <<>> \in Seq(Orders)
        BY BoundsAssumption
      <4> QED
        BY <4>1, BrokerOrders DEF NoCall, Call, Results
    <3>2. [NoCall EXCEPT !.op = "reconcile", !.result = "pending"].op = "reconcile"
      BY DEF NoCall
    <3> QED
      BY <2>2, <3>1, <3>2, BeginTypes DEF CallReconcile
  <2> QED
    BY <1>2, <2>1, <2>2
<1> QED
  BY <1>1, <1>2, AttemptTypes, ReceiveTypes, HandleRequestTypes, OtherTypes DEF Next, Proceed

LEMMA TypeInit == Init => TypeInv
<1>1. NoCall \in Call /\ NoReply \in Reply /\ <<>> \in Seq(Orders) /\ Nothing \in Remote
  BY BoundsAssumption, BareReplies, BrokerOrders
  DEF NoCall, Call, Results, NoReply, Nothing, Remote, RemoteStatuses, Fills
<1>2. 0 \in 0..MaxCalls /\ 0 \in 0..MaxRestarts
  BY BoundsAssumption
<1>3. Init => TypeOK
  BY <1>1, <1>2 DEF Init, TypeOK
<1>4. Init => StoreShape /\ ClientsEquipped
  BY DEF Init, StoreShape, ClientsEquipped
<1> QED
  BY <1>3, <1>4 DEF TypeInv

\* The adapter model keeps its types.
THEOREM TypeCorrect == Spec => []TypeOK
<1>1. TypeInv /\ [Next]_vars => TypeInv'
  BY TypeStep
<1>2. TypeInv => TypeOK
  BY DEF TypeInv
<1> QED
  BY <1>1, <1>2, TypeInit, PTL DEF Spec

-----------------------------------------------------------------------------
(* The maps and the store. *)

\* The steps that neither place an order nor take an answer in.
ContentsKept ==
  \A id \in OrderIds : remote[id] # Nothing => remote'[id].order = remote[id].order

NothingPlaced ==
  \A d \in Clients : Placed(d)' => Placed(d) /\ request'[d] = request[d]

LEMMA Quiet ==
  ASSUME PlacedInv, ContentsKept, NothingPlaced, known' = known
  PROVE  KnownIsPlaced' /\ AnsweredPosts'
<1>1. \A order \in Orders : /\ order.order_id \in OrderIds
                            /\ remote[order.order_id].order = order
                                 => remote'[order.order_id].order = order
  BY OrdersAssumption DEF ContentsKept, Nothing
<1>2. KnownIsPlaced'
  <2>1. \A i \in DOMAIN known : known[i] \in Orders
    BY DEF PlacedInv, TypeInv, TypeOK
  <2> QED
    BY <1>1, <2>1 DEF PlacedInv, KnownIsPlaced
<1>3. ASSUME NEW c \in Clients, Placed(c)'
      PROVE  /\ request'[c] = request[c]
             /\ remote'[request[c].order.order_id].order = request[c].order
             /\ ~IsKnown(request[c].order.order_id)
             /\ \A d \in Clients : d # c /\ Placed(d)' =>
                  request'[d].order.order_id # request[c].order.order_id
  <2>1. Placed(c) /\ request'[c] = request[c] /\ request[c].order \in Orders
    BY <1>3 DEF NothingPlaced, PlacedInv, TypeInv, ClientsEquipped, Placed, Request
  <2>2. /\ remote[request[c].order.order_id].order = request[c].order
        /\ ~IsKnown(request[c].order.order_id)
        /\ \A d \in Clients : d # c /\ Placed(d)
             => request[d].order.order_id # request[c].order.order_id
    BY <2>1 DEF PlacedInv, AnsweredPosts
  <2> QED
    BY <1>1, <2>1, <2>2 DEF NothingPlaced
<1> QED
  BY <1>2, <1>3 DEF AnsweredPosts, IsKnown

LEMMA PostTakesFreeId ==
  ASSUME TypeInv, NEW req \in Request, NEW answer \in Reply, Carried(req, answer),
         req.method = "POST", answer.code = "ok"
  PROVE  /\ remote[req.order.order_id] = Nothing
         /\ remote'[req.order.order_id].order = req.order
<1>1. remote \in [OrderIds -> Remote] /\ req.order.order_id \in OrderIds
  BY OrdersAssumption DEF TypeInv, TypeOK, Request
<1>2. \A code \in Codes : Bare(code).code = code
  BY BareReplies
<1> QED
  BY <1>1, <1>2 DEF Carried, Codes

LEMMA HandleRequestPlaced ==
  ASSUME PlacedInv, NEW c \in Clients, HandleRequest(c)
  PROVE  KnownIsPlaced' /\ AnsweredPosts'
<1>1. /\ request[c] \in Request /\ pc' = [pc EXCEPT ![c] = "answered"]
      /\ known' = known /\ request' = request /\ TypeInv
      /\ pc[c] = "waiting"
  BY DEF HandleRequest, PlacedInv, TypeInv, ClientsEquipped
<1>2. PICK answer \in Reply :
        Carried(request[c], answer) /\ reply' = [reply EXCEPT ![c] = answer]
  BY AnswersAreReplies DEF HandleRequest, TypeInv, ClientsEquipped, OrphanInv, PlacedInv
<1>3. ContentsKept
  BY <1>1, <1>2, StoreKeepsContents DEF ContentsKept
<1>4. \A d \in Clients : d # c => (Placed(d)' <=> Placed(d))
  BY <1>1, <1>2 DEF Placed, TypeInv, TypeOK
<1>5. CASE ~(request[c].method = "POST" /\ answer.code = "ok")
  <2>1. NothingPlaced
    BY <1>1, <1>2, <1>4, <1>5 DEF NothingPlaced, Placed, TypeInv, TypeOK
  <2> QED
    BY <1>1, <1>3, <2>1, Quiet
<1>6. CASE request[c].method = "POST" /\ answer.code = "ok"
  <2> DEFINE id == request[c].order.order_id
  <2>1. remote[id] = Nothing /\ remote'[id].order = request[c].order
    BY <1>1, <1>2, <1>6, PostTakesFreeId
  <2>2. \A order \in Orders : remote[order.order_id].order = order => order.order_id # id
    BY <2>1, OrdersAssumption DEF Nothing
  <2>3. ~IsKnown(id)
    BY <2>2 DEF IsKnown, PlacedInv, TypeInv, TypeOK, KnownIsPlaced
  <2>4. \A d \in Clients : Placed(d) => request[d].order.order_id # id
    BY <2>2 DEF PlacedInv, AnsweredPosts, TypeInv, ClientsEquipped, Placed, Request
  <2>5. \A order \in Orders : remote[order.order_id].order = order
                               => remote'[order.order_id].order = order
    BY <1>3, OrdersAssumption DEF ContentsKept, Nothing
  <2>6. KnownIsPlaced'
    BY <1>1, <2>5 DEF PlacedInv, TypeInv, TypeOK, KnownIsPlaced
  <2>7. ASSUME NEW d \in Clients, Placed(d)'
        PROVE  /\ remote'[request[d].order.order_id].order = request[d].order
               /\ ~IsKnown(request[d].order.order_id)
               /\ \A e \in Clients : e # d /\ Placed(e)'
                    => request[e].order.order_id # request[d].order.order_id
    <3>1. CASE d = c
      BY <1>4, <2>1, <2>3, <2>4, <3>1
    <3>2. CASE d # c
      <4>1. Placed(d) /\ request[d].order \in Orders
        BY <1>4, <2>7, <3>2 DEF Placed, PlacedInv, TypeInv, ClientsEquipped, Request
      <4> QED
        BY <1>4, <2>4, <2>5, <3>2, <4>1 DEF PlacedInv, AnsweredPosts
    <3> QED
      BY <3>1, <3>2
  <2> QED
    BY <1>1, <2>6, <2>7 DEF AnsweredPosts, IsKnown
<1> QED
  BY <1>5, <1>6

\* What one client does next leaves the others where they are and is answered later.
LEMMA ClientStep ==
  ASSUME TypeInv, NEW c \in Clients, Receive(c) \/ Attempt(c) \/ GiveUp(c)
  PROVE  /\ pc'[c] # "answered"
         /\ \A d \in Clients \ {c} :
              pc'[d] = pc[d] /\ request'[d] = request[d] /\ reply'[d] = reply[d]
         /\ remote' = remote
<1> DEFINE quiet == /\ pc'[c] # "answered"
                    /\ \A d \in Clients \ {c} :
                         pc'[d] = pc[d] /\ request'[d] = request[d] /\ reply'[d] = reply[d]
<1>1. ASSUME NEW method, NEW order, Send(c, method, order) PROVE quiet
  BY <1>1 DEF Send, TypeInv, TypeOK
<1>2. ASSUME NEW result, NEW status, Finish(c, result, status) PROVE quiet
  BY <1>2 DEF Finish, TypeInv, TypeOK
<1>3. ASSUME FailedAttempt(c) PROVE quiet
  BY <1>2, <1>3 DEF FailedAttempt, TypeInv, TypeOK
<1>4. CASE Receive(c)
  <2>1. (\E method, order : Send(c, method, order)) \/ (\E result, status : Finish(c, result, status))
    BY <1>4 DEF Receive
  <2> QED
    BY <1>1, <1>2, <1>4, <2>1 DEF Receive
<1>5. CASE Attempt(c)
  <2>1. (\E method, order : Send(c, method, order)) \/ (\E result, status : Finish(c, result, status))
    BY <1>5 DEF Attempt, StartSubmit, StartCancel, StartReconcile
  <2> QED
    BY <1>1, <1>2, <1>5, <2>1 DEF Attempt
<1>6. CASE GiveUp(c)
  BY <1>2, <1>3, <1>6 DEF GiveUp
<1> QED
  BY <1>4, <1>5, <1>6

LEMMA ReceivePlaced ==
  ASSUME PlacedInv, NEW c \in Clients, Receive(c)
  PROVE  KnownIsPlaced' /\ AnsweredPosts'
<1>1. TypeInv /\ pc[c] = "answered" /\ remote' = remote
  BY DEF PlacedInv, Receive
<1>2. NothingPlaced /\ ~Placed(c)'
  BY <1>1, ClientStep DEF NothingPlaced, Placed
<1>3. CASE ~Placed(c)
  BY <1>1, <1>2, <1>3, Quiet DEF Receive, Remember, Placed, ContentsKept
<1>4. CASE Placed(c)
  <2> DEFINE o == request[c].order
             id == o.order_id
  <2>1. /\ known \in Seq(Orders) /\ o \in Orders /\ known' = Append(known, o)
        /\ remote[id].order = o /\ ~IsKnown(id)
        /\ \A d \in Clients : d # c /\ Placed(d) => request[d].order.order_id # id
    BY <1>1, <1>4 DEF PlacedInv, TypeInv, TypeOK, ClientsEquipped, Request, Placed,
                      AnsweredPosts, Receive, Remember
  <2>2. /\ DOMAIN known' = DOMAIN known \cup {Len(known) + 1}
        /\ known'[Len(known) + 1] = o
        /\ \A i \in DOMAIN known : known'[i] = known[i] /\ known[i].order_id # id
    BY <2>1 DEF IsKnown
  <2>3. KnownIsPlaced'
    BY <1>1, <2>1, <2>2 DEF PlacedInv, KnownIsPlaced
  <2>4. ASSUME NEW d \in Clients, Placed(d)'
        PROVE  /\ d # c /\ Placed(d) /\ request'[d] = request[d]
               /\ \A i \in DOMAIN known' : known'[i].order_id # request[d].order.order_id
    <3>1. d # c /\ Placed(d) /\ request'[d] = request[d]
      BY <1>2, <2>4 DEF NothingPlaced
    <3>2. request[d].order.order_id # id /\ ~IsKnown(request[d].order.order_id)
      BY <2>1, <3>1 DEF PlacedInv, AnsweredPosts
    <3> QED
      BY <2>2, <3>1, <3>2 DEF IsKnown
  <2>5. AnsweredPosts'
    BY <1>1, <2>4 DEF PlacedInv, AnsweredPosts, IsKnown
  <2> QED
    BY <2>3, <2>5
<1> QED
  BY <1>3, <1>4

LEMMA PlacedStep ==
  ASSUME PlacedInv, [Next]_vars
  PROVE  PlacedInv'
<1>1. TypeInv /\ TypeInv'
  BY TypeStep DEF PlacedInv
<1>2. ASSUME UNCHANGED vars
      PROVE  KnownIsPlaced' /\ AnsweredPosts'
  <2>1. ContentsKept /\ NothingPlaced /\ known' = known
    BY <1>2 DEF vars, ContentsKept, NothingPlaced, Placed
  <2> QED
    BY <2>1, Quiet
<1>3. ASSUME NEW c \in Clients, NEW started, Begin(c, started)
      PROVE  KnownIsPlaced' /\ AnsweredPosts'
  BY <1>1, <1>3, Quiet DEF Begin, ContentsKept, NothingPlaced, Placed, TypeInv, TypeOK
<1>4. ASSUME NEW c \in Clients, Attempt(c) \/ GiveUp(c)
      PROVE  KnownIsPlaced' /\ AnsweredPosts'
  <2>1. known' = known /\ remote' = remote
    BY <1>4 DEF Attempt, GiveUp
  <2>2. NothingPlaced
    BY <1>1, <1>4, ClientStep DEF NothingPlaced, Placed
  <2> QED
    BY <2>1, <2>2, Quiet DEF ContentsKept
<1>5. ASSUME NEW req \in stray, HandleStray(req)
      PROVE  KnownIsPlaced' /\ AnsweredPosts'
  <2>1. req \in Request /\ UNCHANGED <<known, pc, request, reply>>
    BY <1>1, <1>5 DEF HandleStray, local, TypeInv, TypeOK
  <2>2. ContentsKept
    BY <1>1, <1>5, <2>1, StoreKeepsContents, AnswersAreReplies DEF HandleStray, ContentsKept
  <2> QED
    BY <2>1, <2>2, Quiet DEF NothingPlaced, Placed
<1>6. ASSUME NEW id \in OrderIds, MarketMoves(id)
      PROVE  KnownIsPlaced' /\ AnsweredPosts'
  <2>1. ContentsKept
    BY <1>1, <1>6, MarketKeepsContents DEF ContentsKept
  <2> QED
    BY <1>6, <2>1, Quiet DEF MarketMoves, local, NothingPlaced, Placed
<1>7. ASSUME Restart
      PROVE  KnownIsPlaced' /\ AnsweredPosts'
  <2>1. known' = <<>> /\ DOMAIN known' = {} /\ \A c \in Clients : ~Placed(c)'
    BY <1>7 DEF Restart, Placed
  <2> QED
    BY <2>1 DEF KnownIsPlaced, AnsweredPosts
<1>8. ASSUME NEW c \in Clients, NEW order \in Orders, CallSubmit(c, order) \/ CallCancel(c, order)
      PROVE  KnownIsPlaced' /\ AnsweredPosts'
  BY <1>3, <1>8 DEF CallSubmit, CallCancel
<1>9. ASSUME NEW c \in Clients, CallReconcile(c)
      PROVE  KnownIsPlaced' /\ AnsweredPosts'
  BY <1>3, <1>9 DEF CallReconcile
<1>10. KnownIsPlaced' /\ AnsweredPosts'
  BY <1>2, <1>4, <1>5, <1>6, <1>7, <1>8, <1>9, HandleRequestPlaced, ReceivePlaced
  DEF Next, Proceed
<1> QED
  BY <1>1, <1>10 DEF PlacedInv

\* What the session believes it has placed stands in the store with exactly that
\* content, once, whatever is lost, late or refused (submit_order, alpaca.py 163-179).
THEOREM KnownInvariant == Spec => []KnownIsPlaced
<1>1. Init => PlacedInv
  BY TypeInit DEF Init, PlacedInv, KnownIsPlaced, AnsweredPosts, Placed
<1>2. PlacedInv /\ [Next]_vars => PlacedInv'
  BY PlacedStep
<1>3. PlacedInv => KnownIsPlaced
  BY DEF PlacedInv
<1> QED
  BY <1>1, <1>2, <1>3, PTL DEF Spec

-----------------------------------------------------------------------------
(* Orders nobody knows. *)

\* An order of the store is known, or its client has the answer.
Accounted(id) ==
  \/ IsKnown(id)
  \/ \E c \in Clients : /\ pc[c] = "answered"
                        /\ request[c] = [method |-> "POST", order |-> remote[id].order]
                        /\ reply[c].code = "ok"

LEMMA HandleRequestAccounts ==
  ASSUME TypeInv, NEW c \in Clients, HandleRequest(c), NEW id \in OrderIds,
         remote[id] # Nothing => Accounted(id), remote'[id] # Nothing
  PROVE  Accounted(id)'
<1>1. /\ request[c] \in Request /\ pc[c] = "waiting" /\ pc' = [pc EXCEPT ![c] = "answered"]
      /\ UNCHANGED <<known, request>>
  BY DEF HandleRequest, TypeInv, ClientsEquipped
<1>2. PICK answer \in Reply :
        Carried(request[c], answer) /\ reply' = [reply EXCEPT ![c] = answer]
  BY AnswersAreReplies DEF HandleRequest, TypeInv, ClientsEquipped, OrphanInv, PlacedInv
<1>3. \A d \in Clients \ {c} : pc'[d] = pc[d] /\ reply'[d] = reply[d]
  BY <1>1, <1>2 DEF TypeInv, TypeOK
<1>4. CASE remote[id] # Nothing
  <2>1. remote'[id].order = remote[id].order
    BY <1>1, <1>2, <1>4, StoreKeepsContents
  <2> QED
    BY <1>1, <1>3, <1>4, <2>1 DEF Accounted, IsKnown
<1>5. CASE remote[id] = Nothing
  <2>1. request[c].method = "POST" /\ answer.code = "ok" /\ remote'[id].order = request[c].order
    BY <1>1, <1>2, <1>5, StoreKeepsContents
  <2>2. request[c] = [method |-> "POST", order |-> remote'[id].order]
    BY <1>1, <2>1 DEF Request
  <2>3. pc'[c] = "answered" /\ reply'[c].code = "ok" /\ request'[c] = request[c]
    BY <1>1, <1>2, <2>1 DEF TypeInv, TypeOK
  <2> QED
    BY <2>2, <2>3 DEF Accounted
<1> QED
  BY <1>4, <1>5

LEMMA ReceiveAccounts ==
  ASSUME TypeInv, NEW c \in Clients, Receive(c), NEW id \in OrderIds,
         remote[id] # Nothing, Accounted(id)
  PROVE  Accounted(id)'
<1>1. /\ pc[c] = "answered" /\ remote' = remote /\ known \in Seq(Orders)
      /\ request[c].order \in Orders
  BY DEF Receive, TypeInv, TypeOK, ClientsEquipped, Request
<1>2. \A d \in Clients \ {c} :
        pc'[d] = pc[d] /\ request'[d] = request[d] /\ reply'[d] = reply[d]
  BY ClientStep
<1>3. known' = known \/ known' = Append(known, request[c].order)
  BY DEF Receive, Remember
<1>4. CASE IsKnown(id)
  <2>1. PICK i \in DOMAIN known : known[i].order_id = id
    BY <1>4 DEF IsKnown
  <2>2. i \in DOMAIN known' /\ known'[i] = known[i]
    BY <1>1, <1>3, <2>1
  <2> QED
    BY <2>1, <2>2 DEF Accounted, IsKnown
<1>5. CASE request[c] = [method |-> "POST", order |-> remote[id].order] /\ reply[c].code = "ok"
  <2>1. remote[id].order.order_id = id
    BY DEF TypeInv, StoreShape
  <2>2. known' = Append(known, remote[id].order)
    BY <1>5 DEF Receive, Remember
  <2>3. Len(known) + 1 \in DOMAIN known' /\ known'[Len(known) + 1].order_id = id
    BY <1>1, <1>5, <2>1, <2>2
  <2> QED
    BY <2>3 DEF Accounted, IsKnown
<1>6. CASE \E d \in Clients \ {c} :
             /\ pc[d] = "answered" /\ reply[d].code = "ok"
             /\ request[d] = [method |-> "POST", order |-> remote[id].order]
  BY <1>1, <1>2, <1>6 DEF Accounted
<1> QED
  BY <1>4, <1>5, <1>6 DEF Accounted

LEMMA OrphanStep ==
  ASSUME OrphanInv, [Next]_vars
  PROVE  OrphanInv'
<1>1. TypeInv /\ TypeInv'
  BY TypeStep DEF OrphanInv
<1>2. CASE cut_off'
  BY <1>1, <1>2 DEF OrphanInv, NothingStrayYet, NoOrphanWithoutCutOff
<1>3. CASE ~cut_off'
  <2>1. ~cut_off /\ stray = {} /\ stray' = {}
    <3>1. \A req \in stray : HandleStray(req) => UNCHANGED cut_off
      BY DEF HandleStray, local
    <3>2. ~cut_off
      BY <1>3, <3>1 DEF Next, Proceed, CallSubmit, CallCancel, CallReconcile, Begin, Attempt,
                        Receive, GiveUp, HandleRequest, MarketMoves, Restart, local, vars
    <3>3. stray = {}
      BY <3>2 DEF OrphanInv, NothingStrayYet
    <3>4. \A c \in Clients : ~GiveUp(c)
      BY <1>3 DEF GiveUp
    <3>5. ~Restart
      BY <1>3 DEF Restart
    <3>6. stray' = stray
      BY <3>3, <3>4, <3>5 DEF Next, Proceed, CallSubmit, CallCancel, CallReconcile, Begin,
                              Attempt, Receive, HandleRequest, MarketMoves, vars
    <3> QED
      BY <3>2, <3>3, <3>6
  <2>2. \A id \in OrderIds : remote[id] # Nothing => Accounted(id)
    BY <2>1 DEF OrphanInv, NoOrphanWithoutCutOff, Accounted
  <2>3. SUFFICES ASSUME NEW id \in OrderIds, remote'[id] # Nothing
                 PROVE  Accounted(id)'
    BY <1>1, <2>1 DEF OrphanInv, NothingStrayYet, NoOrphanWithoutCutOff, Accounted
  <2>4. CASE UNCHANGED vars
    BY <2>2, <2>3, <2>4 DEF vars, Accounted, IsKnown
  <2>5. ASSUME NEW c \in Clients, NEW started, Begin(c, started)
        PROVE  Accounted(id)'
    BY <1>1, <2>2, <2>3, <2>5 DEF Begin, Accounted, IsKnown, TypeInv, TypeOK
  <2>6. ASSUME NEW c \in Clients,
               \/ \E order \in Orders : CallSubmit(c, order) \/ CallCancel(c, order)
               \/ CallReconcile(c)
        PROVE  Accounted(id)'
    BY <2>5, <2>6 DEF CallSubmit, CallCancel, CallReconcile
  <2>7. ASSUME NEW c \in Clients, Attempt(c)
        PROVE  Accounted(id)'
    BY <1>1, <2>2, <2>3, <2>7, ClientStep DEF Attempt, Accounted, IsKnown
  <2>8. ASSUME NEW c \in Clients, Receive(c)
        PROVE  Accounted(id)'
    BY <1>1, <2>2, <2>3, <2>8, ReceiveAccounts DEF Receive
  <2>9. ASSUME NEW c \in Clients, HandleRequest(c)
        PROVE  Accounted(id)'
    BY <1>1, <2>2, <2>3, <2>9, HandleRequestAccounts
  <2>10. ASSUME NEW m \in OrderIds, MarketMoves(m)
         PROVE  Accounted(id)'
    <3>1. remote[id] # Nothing /\ remote'[id].order = remote[id].order
      BY <1>1, <2>3, <2>10, MarketKeepsContents
    <3> QED
      BY <2>2, <2>10, <3>1 DEF MarketMoves, local, Accounted, IsKnown
  <2>11. (\A c \in Clients : ~GiveUp(c)) /\ ~Restart
    BY <1>3 DEF GiveUp, Restart
  <2> QED
    BY <2>1, <2>4, <2>6, <2>7, <2>8, <2>9, <2>10, <2>11 DEF Next, Proceed
<1> QED
  BY <1>2, <1>3

\* As long as no attempt and no session has been cut off, every order in the store is
\* known here or the answer that makes it known is on its way: only a lost answer, a
\* late request or a restart leaves an order behind (submit_order, alpaca.py 163-179).
THEOREM OrphanInvariant == Spec => []NoOrphanWithoutCutOff
<1>1. Init => OrphanInv
  BY TypeInit DEF Init, OrphanInv, NothingStrayYet, NoOrphanWithoutCutOff
<1>2. OrphanInv /\ [Next]_vars => OrphanInv'
  BY OrphanStep
<1>3. OrphanInv => NoOrphanWithoutCutOff
  BY DEF OrphanInv
<1> QED
  BY <1>1, <1>2, <1>3, PTL DEF Spec

-----------------------------------------------------------------------------
(* What callers are told. *)

\* Only a filled order is filled entirely, and of a rejected one nothing is.
StoreFills ==
  \A id \in OrderIds :
    LET entry == remote[id]
    IN  /\ entry # Nothing => entry.status \in OpenStatuses \cup SettledStatuses
        /\ entry.filled = "all" <=> entry.status = "filled"
        /\ entry.status = "rejected" => entry.filled = "nothing"

\* An order that is being cancelled comes to its end, and never back.
Ending == {"pending_cancel"} \cup SettledStatuses

\* A submission or a cancellation asks for its own order and no other, and what is
\* fetched after a DELETE is at its end or going to it.
CallFits(c) ==
  LET order == call[c].order
  IN  call[c].op \in {"submit", "cancel"} =>
        /\ order \in Orders /\ call[c].todo = <<>>
        /\ pc[c] \in {"waiting", "answered"} =>
             /\ request[c].order = order
             /\ call[c].op = "submit" => request[c].method # "DELETE"
             /\ call[c].op = "cancel" => request[c].method # "POST"
             /\ call[c].op = "submit" /\ request[c].method = "GET"
                  => remote[order.order_id].order = order
             /\ call[c].op = "cancel" /\ request[c].method = "GET"
                  => remote[order.order_id].status \in Ending

\* An answer under way is still true: what it says is settled, and what it cancels.
ReplyTrue(c) ==
  LET entry == remote[request[c].order.order_id]
  IN  pc[c] = "answered" =>
        /\ reply[c].code = "ok" /\ request[c].method = "DELETE" => entry.status \in Ending
        /\ reply[c].code = "ok" /\ reply[c].status \in SettledStatuses =>
             entry.status = reply[c].status /\ entry.filled = reply[c].filled

\* AnswersTrue and OnlyPartialFillsUnreported, of one client.
AnswerTrue(c) ==
  LET order == call[c].order
      entry == remote[order.order_id]
      answer == call[c].answer
      ended(op, result) == pc[c] = "idle" /\ call[c].op = op /\ call[c].result = result
  IN  /\ ended("submit", "ok") => entry.order = order
      /\ ended("submit", "conflict") => entry.order \notin {order, NoOrder}
      /\ ended("cancel", "ok") => entry.status \in Ending
      /\ (ended("submit", "ok") \/ ended("cancel", "ok")) =>
           \/ answer.status = "submitted" /\ answer.execution = "nothing"
           \/ /\ <<answer.status, entry.status>> \in SameFinalStatus
              /\ answer.execution = IF answer.status = "filled" THEN entry.filled ELSE "nothing"

AnswersInv ==
  PlacedInv /\ StoreFills /\ \A c \in Clients : CallFits(c) /\ ReplyTrue(c) /\ AnswerTrue(c)

\* What the store may do to its entries: it keeps contents and what is settled.
StoreAdvances ==
  \A id \in OrderIds :
    /\ remote[id] # Nothing => remote'[id] # Nothing /\ remote'[id].order = remote[id].order
    /\ remote[id].status \in SettledStatuses => remote'[id] = remote[id]
    /\ remote[id].status \in Ending => remote'[id].status \in Ending

\* The ways in which a request leaves the store, with the answer it gets.
LEMMA CarriedCases ==
  ASSUME TypeInv, NEW req \in Request, NEW answer \in Reply, Carried(req, answer)
  PROVE  LET id == req.order.order_id IN
         \/ UNCHANGED remote /\ answer.code \in {"refused", "already"}
         \/ /\ UNCHANGED remote /\ answer.code = "ok" /\ req.method = "DELETE"
            /\ answer.status = "none" /\ remote[id].status \in SettledStatuses
         \/ /\ UNCHANGED remote /\ answer.code = "ok" /\ req.method = "GET" /\ remote[id] # Nothing
            /\ answer.status = remote[id].status /\ answer.filled = remote[id].filled
         \/ /\ req.method = "POST" /\ remote[id] = Nothing /\ answer.code = "ok" /\ answer.status = "new"
            /\ remote' = [remote EXCEPT ![id] = [order |-> req.order, status |-> "new",
                                                filled |-> "nothing"]]
         \/ /\ req.method = "DELETE" /\ remote[id].status \in OpenStatuses
            /\ answer.code = "ok" /\ answer.status = "none"
            /\ remote' = [remote EXCEPT ![id].status = "pending_cancel"]
<1> DEFINE id == req.order.order_id
<1>1. CASE answer.code = "refused" /\ UNCHANGED remote
  BY <1>1
<1>2. CASE /\ req.method = "POST" /\ remote[id] = Nothing
           /\ answer = [Bare("ok") EXCEPT !.status = "new"]
           /\ remote' = [remote EXCEPT ![id] = [order |-> req.order, status |-> "new",
                                               filled |-> "nothing"]]
  BY <1>2 DEF Bare
<1>3. CASE answer.code = "already" /\ UNCHANGED remote
  BY <1>3
<1>5. CASE /\ req.method = "GET" /\ remote[id] # Nothing /\ UNCHANGED remote
           /\ answer = [code |-> "ok", status |-> remote[id].status, filled |-> remote[id].filled]
  BY <1>5
<1>6. CASE /\ req.method = "DELETE" /\ remote[id].status \in OpenStatuses /\ answer = Bare("ok")
           /\ remote' = [remote EXCEPT ![id].status = "pending_cancel"]
  BY <1>6 DEF Bare
<1>7. CASE /\ req.method = "DELETE" /\ remote[id].status \in SettledStatuses
           /\ answer \in {Bare("ok"), Bare("already")} /\ UNCHANGED remote
  BY <1>7 DEF Bare
<1> QED
  BY <1>1, <1>2, <1>3, <1>5, <1>6, <1>7, Zenon DEF Carried

LEMMA CarriedAdvances ==
  ASSUME TypeInv, StoreFills, NEW req \in Request, NEW answer \in Reply, Carried(req, answer)
  PROVE  StoreAdvances /\ StoreFills'
<1> DEFINE id == req.order.order_id
<1>1. id \in OrderIds /\ remote \in [OrderIds -> Remote] /\ req.order \in Orders /\ req.order # NoOrder
  BY OrdersAssumption DEF TypeInv, TypeOK, Request
<1>2. CASE UNCHANGED remote
  BY <1>2 DEF StoreAdvances, StoreFills
<1>3. CASE /\ remote[id] = Nothing
           /\ remote' = [remote EXCEPT ![id] = [order |-> req.order, status |-> "new",
                                               filled |-> "nothing"]]
  BY <1>1, <1>3 DEF StoreAdvances, StoreFills, Nothing, Ending, OpenStatuses, SettledStatuses
<1>4. CASE /\ remote[id].status \in OpenStatuses
           /\ remote' = [remote EXCEPT ![id].status = "pending_cancel"]
  BY <1>1, <1>4 DEF StoreAdvances, StoreFills, Nothing, Remote, Ending, OpenStatuses, SettledStatuses
<1> QED
  BY <1>2, <1>3, <1>4, CarriedCases

LEMMA StoreStep ==
  ASSUME TypeInv, StoreFills, [Next]_vars
  PROVE  StoreAdvances /\ StoreFills'
<1>1. CASE UNCHANGED remote
  BY <1>1 DEF StoreAdvances, StoreFills
<1>2. ASSUME NEW c \in Clients, HandleRequest(c) PROVE StoreAdvances /\ StoreFills'
  BY <1>2, CarriedAdvances, AnswersAreReplies DEF HandleRequest, TypeInv, ClientsEquipped
<1>3. ASSUME NEW req \in stray, HandleStray(req) PROVE StoreAdvances /\ StoreFills'
  BY <1>3, CarriedAdvances, AnswersAreReplies DEF HandleStray, TypeInv, TypeOK
<1>4. ASSUME NEW id \in OrderIds, MarketMoves(id) PROVE StoreAdvances /\ StoreFills'
  <2>1. remote \in [OrderIds -> Remote] /\ remote[id].status \in OpenStatuses
    BY <1>4 DEF MarketMoves, TypeInv, TypeOK
  <2>2. PICK status \in OpenStatuses \cup SettledStatuses, filled \in Fills :
          /\ remote' = [remote EXCEPT ![id] = [order |-> remote[id].order, status |-> status,
                                              filled |-> filled]]
          /\ filled = "all" <=> status = "filled"
          /\ status = "rejected" => filled = "nothing"
          /\ remote[id].status \in Ending => status \in Ending
    <3>1. remote[id].filled \in Fills /\ remote[id].filled # "all"
      BY <2>1 DEF StoreFills, Remote, OpenStatuses
    <3> QED
      BY <1>4, <2>1, <3>1 DEF MarketMoves, Ending, OpenStatuses, SettledStatuses, Fills
  <2>3. remote[id] # Nothing /\ remote[id].order # NoOrder
    <3>1. remote[id] # Nothing
      BY <2>1 DEF Nothing, OpenStatuses
    <3> QED
      BY <3>1, OrdersAssumption DEF TypeInv, StoreShape
  <2> QED
    BY <2>1, <2>2, <2>3 DEF StoreAdvances, StoreFills, Nothing, Ending, OpenStatuses, SettledStatuses
<1>5. ASSUME NEW c \in Clients,
             \/ \E order \in Orders : CallSubmit(c, order) \/ CallCancel(c, order)
             \/ CallReconcile(c) \/ Proceed(c)
      PROVE  UNCHANGED remote
  BY <1>5 DEF CallSubmit, CallCancel, CallReconcile, Begin, Proceed, Attempt, Receive, GiveUp
<1> QED
  BY <1>1, <1>2, <1>3, <1>4, <1>5 DEF Next, Restart, vars

\* Whoever does not act is told the truth as before.
LEMMA ClientStays ==
  ASSUME AnswersInv, StoreAdvances, NEW c \in Clients,
         pc'[c] = pc[c], call'[c] = call[c], request'[c] = request[c], reply'[c] = reply[c]
  PROVE  CallFits(c)' /\ ReplyTrue(c)' /\ AnswerTrue(c)'
<1> TypeInv /\ CallFits(c) /\ ReplyTrue(c) /\ AnswerTrue(c)
  BY DEF AnswersInv, PlacedInv
<1>1. ASSUME NEW order \in Orders
      PROVE  /\ order.order_id \in OrderIds /\ order # NoOrder
             /\ remote[order.order_id].order = order => remote'[order.order_id].order = order
             /\ remote[order.order_id].order \notin {order, NoOrder}
                  => remote'[order.order_id].order \notin {order, NoOrder}
             /\ remote[order.order_id].status \in Ending
                  => remote'[order.order_id].status \in Ending
  BY <1>1, OrdersAssumption DEF StoreAdvances, Nothing
<1>2. CallFits(c)'
  BY <1>1 DEF CallFits
<1>3. ReplyTrue(c)'
  <2>1. pc[c] = "answered" => request[c].order \in Orders
    BY DEF TypeInv, ClientsEquipped, Request
  <2> QED
    BY <1>1, <2>1 DEF ReplyTrue, StoreAdvances
<1>4. AnswerTrue(c)'
  <2>1. SUFFICES ASSUME call[c].op \in {"submit", "cancel"} PROVE AnswerTrue(c)'
    BY DEF AnswerTrue
  <2>2. call[c].order \in Orders
    BY <2>1 DEF CallFits
  <2>3. \A status : <<status, remote[call[c].order.order_id].status>> \in SameFinalStatus
          => remote'[call[c].order.order_id] = remote[call[c].order.order_id]
    BY <1>1, <2>2 DEF SameFinalStatus, StoreAdvances, SettledStatuses
  <2> QED
    BY <1>1, <2>2, <2>3 DEF AnswerTrue, StoreAdvances
<1> QED
  BY <1>2, <1>3, <1>4

ClientTrue(c) == CallFits(c) /\ ReplyTrue(c) /\ AnswerTrue(c)

\* A call that ends leaves a true answer behind, if there is one.
LEMMA FinishTells ==
  ASSUME AnswersInv, UNCHANGED remote, NEW c \in Clients, NEW result, NEW answer,
         Finish(c, result, answer),
         LET order == call[c].order
             entry == remote[order.order_id]
         IN  /\ call[c].op = "submit" =>
                  /\ result = "ok" => entry.order = order
                  /\ result = "conflict" => entry.order \notin {order, NoOrder}
             /\ call[c].op = "cancel" /\ result = "ok" => entry.status \in Ending
             /\ call[c].op \in {"submit", "cancel"} /\ result = "ok" =>
                  \/ answer.status = "submitted" /\ answer.execution = "nothing"
                  \/ /\ <<answer.status, entry.status>> \in SameFinalStatus
                     /\ answer.execution = IF answer.status = "filled" THEN entry.filled ELSE "nothing"
  PROVE  \A d \in Clients : ClientTrue(d)'
<1> TypeOK /\ call \in [Clients -> Call] /\ StoreAdvances /\ CallFits(c)
  BY DEF AnswersInv, PlacedInv, TypeInv, TypeOK, StoreAdvances
<1>1. /\ pc'[c] = "idle" /\ call'[c].op = call[c].op /\ call'[c].order = call[c].order
      /\ call'[c].todo = <<>> /\ call'[c].result = result /\ call'[c].answer = answer
  BY DEF Finish, TypeOK, Call
<1>2. \A d \in Clients \ {c} : /\ pc'[d] = pc[d] /\ call'[d] = call[d]
                              /\ request'[d] = request[d] /\ reply'[d] = reply[d]
  BY DEF Finish, TypeOK
<1>3. CallFits(c)' /\ ReplyTrue(c)' /\ AnswerTrue(c)'
  <2>1. CallFits(c)' /\ ReplyTrue(c)'
    BY <1>1 DEF CallFits, ReplyTrue
  <2>2. AnswerTrue(c)'
    BY <1>1 DEF AnswerTrue
  <2> QED
    BY <2>1, <2>2
<1> QED
  BY <1>2, <1>3, ClientStays DEF ClientTrue

\* A client that sends a request asks for its own order.
LEMMA SendAsks ==
  ASSUME AnswersInv, UNCHANGED remote, NEW c \in Clients, NEW method, NEW order,
         Send(c, method, order),
         \A d \in Clients \ {c} : call'[d] = call[d],
         call'[c].op = call[c].op, call'[c].order = call[c].order,
         call[c].op \in {"submit", "cancel"} =>
           /\ order = call[c].order /\ call'[c].todo = <<>>
           /\ call[c].op = "submit" => method # "DELETE"
           /\ call[c].op = "cancel" => method # "POST"
           /\ call[c].op = "submit" /\ method = "GET" => remote[order.order_id].order = order
           /\ call[c].op = "cancel" /\ method = "GET" => remote[order.order_id].status \in Ending
  PROVE  \A d \in Clients : ClientTrue(d)'
<1> TypeOK /\ StoreAdvances /\ CallFits(c)
  BY DEF AnswersInv, PlacedInv, TypeInv, StoreAdvances
<1>1. pc'[c] = "waiting" /\ request'[c] = [method |-> method, order |-> order]
  BY DEF Send, TypeOK
<1>2. \A d \in Clients \ {c} : /\ pc'[d] = pc[d] /\ call'[d] = call[d]
                              /\ request'[d] = request[d] /\ reply'[d] = reply[d]
  BY DEF Send, TypeOK
<1>3. CallFits(c)' /\ ReplyTrue(c)' /\ AnswerTrue(c)'
  BY <1>1 DEF CallFits, ReplyTrue, AnswerTrue
<1> QED
  BY <1>2, <1>3, ClientStays DEF ClientTrue

LEMMA BeginTells ==
  ASSUME AnswersInv, NEW c \in Clients, NEW started \in Call, Begin(c, started),
         started.op \in {"submit", "cancel"} => started.order \in Orders /\ started.todo = <<>>
  PROVE  \A d \in Clients : ClientTrue(d)'
<1> TypeOK /\ StoreAdvances
  BY DEF AnswersInv, PlacedInv, TypeInv, StoreAdvances, Begin
<1>1. pc'[c] = "ready" /\ call'[c] = started
  BY DEF Begin, TypeOK
<1>2. \A d \in Clients \ {c} : /\ pc'[d] = pc[d] /\ call'[d] = call[d]
                              /\ request'[d] = request[d] /\ reply'[d] = reply[d]
  BY DEF Begin, TypeOK
<1>3. CallFits(c)' /\ ReplyTrue(c)' /\ AnswerTrue(c)'
  BY <1>1 DEF CallFits, ReplyTrue, AnswerTrue
<1> QED
  BY <1>2, <1>3, ClientStays DEF ClientTrue

LEMMA AttemptTells ==
  ASSUME AnswersInv, NEW c \in Clients, Attempt(c)
  PROVE  \A d \in Clients : ClientTrue(d)'
<1>1. /\ pc[c] = "ready" /\ remote' = remote /\ known \in Seq(Orders) /\ CallFits(c)
      /\ call \in [Clients -> Call] /\ TypeInv /\ KnownIsPlaced
  BY DEF Attempt, AnswersInv, PlacedInv, TypeInv, TypeOK
<1>2. CASE call[c].op = "submit"
  <2> DEFINE order == call[c].order
  <2>1. order \in Orders /\ StartSubmit(c, order) /\ call[c].todo = <<>>
    BY <1>1, <1>2 DEF CallFits, Attempt
  <2>2. CASE ~IsKnown(order.order_id)
    <3>1. Send(c, "POST", order) /\ call' = call
      BY <2>1, <2>2 DEF StartSubmit
    <3> QED
      BY <1>1, <1>2, <2>1, <3>1, SendAsks
  <2>3. CASE IsKnown(order.order_id) /\ Contains(known, order)
    <3>1. Send(c, "GET", order) /\ call' = call
      BY <2>1, <2>3 DEF StartSubmit
    <3>2. \E i \in DOMAIN known : known[i] = order
      BY <1>1, <2>3 DEF Contains
    <3>3. remote[order.order_id].order = order
      BY <1>1, <3>2 DEF KnownIsPlaced
    <3> QED
      BY <1>1, <1>2, <2>1, <3>1, <3>3, SendAsks
  <2>4. CASE IsKnown(order.order_id) /\ ~Contains(known, order)
    <3>1. Finish(c, "conflict", NoBrokerOrder)
      BY <2>1, <2>4 DEF StartSubmit
    <3>2. PICK i \in DOMAIN known : known[i].order_id = order.order_id
      BY <2>4 DEF IsKnown
    <3>3. known[i] # order /\ known[i] \in Orders
      BY <1>1, <2>4, <3>2 DEF Contains
    <3>4. remote[order.order_id].order \notin {order, NoOrder}
      BY <1>1, <3>2, <3>3, OrdersAssumption DEF KnownIsPlaced
    <3> QED
      BY <1>1, <1>2, <3>1, <3>4, FinishTells
  <2> QED
    BY <2>2, <2>3, <2>4
<1>3. CASE call[c].op = "cancel"
  <2>1. StartCancel(c, call[c].order) /\ call[c].todo = <<>>
    BY <1>1, <1>3 DEF CallFits, Attempt
  <2>2. CASE IsKnown(call[c].order.order_id)
    <3>1. Send(c, "DELETE", call[c].order) /\ call' = call
      BY <2>1, <2>2 DEF StartCancel
    <3> QED
      BY <1>1, <1>3, <2>1, <3>1, SendAsks
  <2>3. CASE ~IsKnown(call[c].order.order_id)
    <3>1. Finish(c, "not_found", NoBrokerOrder)
      BY <2>1, <2>3 DEF StartCancel
    <3> QED
      BY <1>1, <1>3, <3>1, FinishTells
  <2> QED
    BY <2>2, <2>3
<1>4. CASE call[c].op \notin {"submit", "cancel"}
  <2>1. StartReconcile(c)
    BY <1>4 DEF Attempt
  <2>2. CASE known = <<>>
    <3>1. Finish(c, "ok", NoBrokerOrder)
      BY <2>1, <2>2 DEF StartReconcile
    <3> QED
      BY <1>1, <1>4, <3>1, FinishTells
  <2>3. CASE known # <<>>
    <3>1. Send(c, "GET", Head(known)) /\ call' = [call EXCEPT ![c] = [call[c] EXCEPT !.todo = Tail(known)]]
      BY <2>1, <2>3 DEF StartReconcile
    <3>2. /\ \A d \in Clients \ {c} : call'[d] = call[d]
          /\ call'[c].op = call[c].op /\ call'[c].order = call[c].order
      BY <1>1, <3>1 DEF Call
    <3> QED
      BY <1>1, <1>4, <3>1, <3>2, SendAsks
  <2> QED
    BY <2>2, <2>3
<1> QED
  BY <1>2, <1>3, <1>4

\* What the adapter makes of the answer to a request for one order.
LEMMA MappedTrue ==
  ASSUME AnswersInv, NEW c \in Clients, pc[c] = "answered", reply[c].code = "ok"
  PROVE  LET entry == remote[request[c].order.order_id]
             answer == _to_broker_order(reply[c])
         IN  \/ answer.status = "submitted" /\ answer.execution = "nothing"
             \/ /\ <<answer.status, entry.status>> \in SameFinalStatus
                /\ answer.execution = IF answer.status = "filled" THEN entry.filled ELSE "nothing"
<1>1. reply[c].status \in SettledStatuses =>
        /\ remote[request[c].order.order_id].status = reply[c].status
        /\ remote[request[c].order.order_id].filled = reply[c].filled
  BY DEF AnswersInv, ReplyTrue
<1>2. CASE reply[c].status \notin SettledStatuses
  BY <1>2 DEF _to_broker_order, _map_status, SettledStatuses
<1>3. CASE reply[c].status \in SettledStatuses
  BY <1>1, <1>3 DEF _to_broker_order, _map_status, SettledStatuses, SameFinalStatus
<1> QED
  BY <1>2, <1>3

LEMMA ReceiveTells ==
  ASSUME AnswersInv, NEW c \in Clients, Receive(c)
  PROVE  \A d \in Clients : ClientTrue(d)'
<1>1. /\ pc[c] = "answered" /\ remote' = remote /\ request[c] \in Request
      /\ reply[c].code \in Codes /\ CallFits(c) /\ ReplyTrue(c) /\ call \in [Clients -> Call]
      /\ TypeInv /\ AnsweredPosts
  BY DEF Receive, AnswersInv, PlacedInv, TypeInv, TypeOK, ClientsEquipped
<1>2. CASE reply[c].code # "ok"
  <2>1. Finish(c, reply[c].code, NoBrokerOrder)
    BY <1>2 DEF Receive
  <2>2. PICK result \in {"refused", "already"} : result = reply[c].code
    BY <1>1, <1>2 DEF Codes
  <2> QED
    BY <1>1, <2>1, <2>2, FinishTells
<1>3. CASE reply[c].code = "ok" /\ request[c].method = "DELETE"
  <2>1. Send(c, "GET", request[c].order) /\ call' = call
    BY <1>3 DEF Receive
  <2> QED
    BY <1>1, <1>3, <2>1, SendAsks DEF CallFits, ReplyTrue
<1>4. CASE reply[c].code = "ok" /\ request[c].method # "DELETE" /\ call[c].todo # <<>>
  <2>1. /\ Send(c, "GET", Head(call[c].todo))
        /\ call' = [call EXCEPT ![c] = [call[c] EXCEPT !.todo = Tail(call[c].todo)]]
    BY <1>4 DEF Receive
  <2>2. /\ \A d \in Clients \ {c} : call'[d] = call[d]
        /\ call'[c].op = call[c].op /\ call'[c].order = call[c].order
    BY <1>1, <2>1 DEF Call
  <2>3. call[c].op \notin {"submit", "cancel"}
    BY <1>1, <1>4 DEF CallFits
  <2> QED
    BY <1>1, <2>1, <2>2, <2>3, SendAsks
<1>5. CASE reply[c].code = "ok" /\ request[c].method # "DELETE" /\ call[c].todo = <<>>
  <2>1. Finish(c, "ok", _to_broker_order(reply[c]))
    BY <1>5 DEF Receive
  <2>2. call[c].op = "submit" => remote[call[c].order.order_id].order = call[c].order
    <3>1. CASE request[c].method = "POST"
      BY <1>1, <1>5, <3>1 DEF CallFits, AnsweredPosts, Placed
    <3>2. CASE request[c].method = "GET"
      BY <1>1, <3>2 DEF CallFits
    <3> QED
      BY <1>1, <1>5, <3>1, <3>2 DEF Request
  <2>3. call[c].op \in {"submit", "cancel"} => request[c].order = call[c].order
    BY <1>1 DEF CallFits
  <2>4. call[c].op = "cancel" => remote[call[c].order.order_id].status \in Ending
    BY <1>1, <1>5, <2>3 DEF CallFits, Request
  <2>5. PICK answer : answer = _to_broker_order(reply[c])
    OBVIOUS
  <2> QED
    BY <1>1, <1>5, <2>1, <2>2, <2>3, <2>4, <2>5, MappedTrue, FinishTells
<1> QED
  BY <1>2, <1>3, <1>4, <1>5

LEMMA GiveUpTells ==
  ASSUME AnswersInv, NEW c \in Clients, GiveUp(c)
  PROVE  \A d \in Clients : ClientTrue(d)'
<1>1. /\ FailedAttempt(c) \/ Finish(c, "raised", NoBrokerOrder)
      /\ remote' = remote /\ TypeOK /\ CallFits(c)
  BY DEF GiveUp, AnswersInv, PlacedInv, TypeInv
<1>2. CASE FailedAttempt(c) /\ call[c].attempts + 1 < MaxAttempts
  <2>1. /\ pc'[c] = "ready" /\ call'[c].op = call[c].op /\ call'[c].order = call[c].order
        /\ call'[c].todo = <<>>
    BY <1>1, <1>2 DEF FailedAttempt, TypeOK, Call
  <2>2. \A d \in Clients \ {c} : /\ pc'[d] = pc[d] /\ call'[d] = call[d]
                                /\ request'[d] = request[d] /\ reply'[d] = reply[d]
    BY <1>1, <1>2 DEF FailedAttempt, TypeOK
  <2>3. CallFits(c)' /\ ReplyTrue(c)' /\ AnswerTrue(c)'
    BY <1>1, <2>1 DEF CallFits, ReplyTrue, AnswerTrue
  <2>4. StoreAdvances
    BY <1>1 DEF StoreAdvances
  <2> QED
    BY <2>2, <2>3, <2>4, ClientStays DEF ClientTrue
<1>3. ASSUME NEW result \in {"transient", "raised"}, Finish(c, result, NoBrokerOrder)
      PROVE  \A d \in Clients : ClientTrue(d)'
  BY <1>1, <1>3, FinishTells
<1> QED
  BY <1>1, <1>2, <1>3 DEF FailedAttempt

LEMMA HandleRequestTells ==
  ASSUME AnswersInv, NEW c \in Clients, HandleRequest(c)
  PROVE  \A d \in Clients : ClientTrue(d)'
<1>1. /\ request[c] \in Request /\ pc[c] = "waiting" /\ pc' = [pc EXCEPT ![c] = "answered"]
      /\ UNCHANGED <<call, request>> /\ TypeInv /\ StoreFills /\ CallFits(c)
  BY DEF HandleRequest, AnswersInv, PlacedInv, TypeInv, ClientsEquipped
<1>2. PICK answer \in Reply :
        Carried(request[c], answer) /\ reply' = [reply EXCEPT ![c] = answer]
  BY <1>1, AnswersAreReplies DEF HandleRequest
<1>3. StoreAdvances
  BY <1>1, <1>2, CarriedAdvances
<1>4. /\ pc'[c] = "answered" /\ reply'[c] = answer
      /\ \A d \in Clients \ {c} : pc'[d] = pc[d] /\ reply'[d] = reply[d]
  BY <1>1, <1>2 DEF TypeInv, TypeOK
<1> DEFINE id == request[c].order.order_id
<1>5. id \in OrderIds /\ request[c].order \in Orders
  BY <1>1, OrdersAssumption DEF Request
<1>6. CallFits(c)'
  <2>1. \A order \in Orders :
          /\ remote[order.order_id].order = order => remote'[order.order_id].order = order
          /\ remote[order.order_id].status \in Ending => remote'[order.order_id].status \in Ending
    BY <1>3, OrdersAssumption DEF StoreAdvances, Nothing
  <2> QED
    BY <1>1, <2>1 DEF CallFits
<1>7. AnswerTrue(c)'
  BY <1>4 DEF AnswerTrue
<1>8. ReplyTrue(c)'
  <2>1. answer.code = "ok" /\ request[c].method = "DELETE" => remote'[id].status \in Ending
    <3>1. remote \in [OrderIds -> Remote]
      BY <1>1 DEF TypeInv, TypeOK
    <3>2. CASE UNCHANGED remote /\ remote[id].status \in SettledStatuses
      BY <3>2 DEF Ending
    <3>3. CASE remote' = [remote EXCEPT ![id].status = "pending_cancel"]
      BY <1>5, <3>1, <3>3 DEF Ending, Remote
    <3>4. \/ ~(answer.code = "ok" /\ request[c].method = "DELETE")
          \/ UNCHANGED remote /\ remote[id].status \in SettledStatuses
          \/ remote' = [remote EXCEPT ![id].status = "pending_cancel"]
      BY <1>1, <1>2, CarriedCases
    <3> QED
      BY <3>2, <3>3, <3>4
  <2>2. answer.code = "ok" /\ answer.status \in SettledStatuses =>
          answer.status = remote[id].status /\ answer.filled = remote[id].filled
    BY <1>1, <1>2, CarriedCases DEF SettledStatuses
  <2>3. remote[id].status \in SettledStatuses => remote'[id] = remote[id]
    BY <1>3, <1>5 DEF StoreAdvances
  <2> QED
    BY <1>1, <1>4, <2>1, <2>2, <2>3 DEF ReplyTrue
<1> QED
  BY <1>1, <1>3, <1>4, <1>6, <1>7, <1>8, ClientStays DEF ClientTrue

LEMMA AnswersStep ==
  ASSUME AnswersInv, [Next]_vars
  PROVE  AnswersInv'
<1>1. PlacedInv' /\ TypeInv
  BY PlacedStep DEF AnswersInv, PlacedInv
<1>2. StoreAdvances /\ StoreFills'
  BY <1>1, StoreStep DEF AnswersInv
<1>3. SUFFICES \A c \in Clients : ClientTrue(c)'
  BY <1>1, <1>2 DEF AnswersInv, ClientTrue
<1>4. CASE UNCHANGED <<pc, call, request, reply>>
  BY <1>2, <1>4, ClientStays DEF ClientTrue
<1>5. ASSUME NEW c \in Clients, NEW order \in Orders, CallSubmit(c, order) \/ CallCancel(c, order)
      PROVE  \A d \in Clients : ClientTrue(d)'
  <2>1. PICK op \in {"submit", "cancel"} :
          Begin(c, [NoCall EXCEPT !.op = op, !.order = order, !.result = "pending"])
    BY <1>5 DEF CallSubmit, CallCancel
  <2>2. /\ [NoCall EXCEPT !.op = op, !.order = order, !.result = "pending"].order = order
        /\ [NoCall EXCEPT !.op = op, !.order = order, !.result = "pending"].todo = <<>>
    BY DEF NoCall
  <2> QED
    BY <2>1, <2>2, StartedTypes, BeginTells
<1>6. ASSUME NEW c \in Clients, CallReconcile(c)
      PROVE  \A d \in Clients : ClientTrue(d)'
  <2>1. [NoCall EXCEPT !.op = "reconcile", !.result = "pending"] \in Call
    <3>1. 0 \in 0..(MaxAttempts - 1) /\ <<>> \in Seq(Orders)
      BY BoundsAssumption
    <3> QED
      BY <3>1, BrokerOrders DEF NoCall, Call, Results
  <2>2. [NoCall EXCEPT !.op = "reconcile", !.result = "pending"].op = "reconcile"
    BY DEF NoCall
  <2> QED
    BY <1>6, <2>1, <2>2, BeginTells DEF CallReconcile
<1>7. CASE Restart
  BY <1>7 DEF Restart, NoCall, ClientTrue, CallFits, ReplyTrue, AnswerTrue
<1>8. ASSUME NEW req \in stray, HandleStray(req) PROVE UNCHANGED <<pc, call, request, reply>>
  BY <1>8 DEF HandleStray, local
<1>9. ASSUME NEW id \in OrderIds, MarketMoves(id) PROVE UNCHANGED <<pc, call, request, reply>>
  BY <1>9 DEF MarketMoves, local
<1> QED
  BY <1>4, <1>5, <1>6, <1>7, <1>8, <1>9, AttemptTells, ReceiveTells, GiveUpTells,
     HandleRequestTells DEF Next, Proceed, vars

LEMMA AnswersInit == Init => AnswersInv
<1> SUFFICES ASSUME Init PROVE AnswersInv
  OBVIOUS
<1>1. PlacedInv
  BY TypeInit DEF Init, PlacedInv, KnownIsPlaced, AnsweredPosts, Placed
<1>2. StoreFills
  BY DEF Init, StoreFills, Nothing
<1>3. \A c \in Clients : CallFits(c) /\ ReplyTrue(c) /\ AnswerTrue(c)
  BY DEF Init, NoCall, CallFits, ReplyTrue, AnswerTrue
<1> QED
  BY <1>1, <1>2, <1>3 DEF AnswersInv

LEMMA AnswersInvariant == Spec => []AnswersInv
<1>1. AnswersInv /\ [Next]_vars => AnswersInv'
  BY AnswersStep
<1> QED
  BY <1>1, AnswersInit, PTL DEF Spec

\* What a submission or a cancellation is told is true when it is told and stays
\* true: content, conflict, cancellation and final status (submit_order, cancel_order).
THEOREM AnswersAreTrue == Spec => []AnswersTrue
<1>1. AnswersInv => AnswersTrue
  BY DEF AnswersInv, AnswerTrue, AnswersTrue, Ending
<1> QED
  BY <1>1, AnswersInvariant, PTL

\* Shares that changed hands are told as they are, but for a part of an order that
\* ended without being filled (_to_broker_order).
THEOREM FillsAreTold == Spec => []OnlyPartialFillsUnreported
<1>1. AnswersInv => OnlyPartialFillsUnreported
  <2> SUFFICES ASSUME AnswersInv, NEW c \in Clients,
                      pc[c] = "idle", call[c].op \in {"submit", "cancel"}, call[c].result = "ok"
               PROVE  LET answer == call[c].answer
                          entry == remote[call[c].order.order_id]
                      IN  \/ answer.status = "submitted" /\ answer.execution = "nothing"
                          \/ answer.execution = entry.filled
                          \/ /\ answer = [status |-> "cancelled", execution |-> "nothing"]
                             /\ entry.filled = "part"
    BY DEF OnlyPartialFillsUnreported
  <2> DEFINE answer == call[c].answer
             entry == remote[call[c].order.order_id]
  <2>1. /\ call[c].order \in Orders /\ call[c].order.order_id \in OrderIds
        /\ answer \in BrokerOrder /\ entry \in Remote
    BY OrdersAssumption DEF AnswersInv, CallFits, PlacedInv, TypeInv, TypeOK, Call
  <2>2. \/ answer.status = "submitted" /\ answer.execution = "nothing"
        \/ /\ <<answer.status, entry.status>> \in SameFinalStatus
           /\ answer.execution = IF answer.status = "filled" THEN entry.filled ELSE "nothing"
    BY DEF AnswersInv, AnswerTrue
  <2>3. /\ entry.filled = "all" <=> entry.status = "filled"
        /\ entry.status = "rejected" => entry.filled = "nothing"
    BY <2>1 DEF AnswersInv, StoreFills
  <2>4. entry.filled \in {"nothing", "part", "all"}
    BY <2>1 DEF Remote, Fills
  <2>5. answer.status = "cancelled" /\ answer.execution = "nothing" =>
          answer = [status |-> "cancelled", execution |-> "nothing"]
    BY <2>1 DEF BrokerOrder
  <2> HIDE DEF answer, entry
  <2>6. \/ answer.status = "submitted" /\ answer.execution = "nothing"
        \/ answer.execution = entry.filled
        \/ answer = [status |-> "cancelled", execution |-> "nothing"] /\ entry.filled = "part"
    BY <2>2, <2>3, <2>4, <2>5 DEF SameFinalStatus
  <2> QED
    BY <2>6 DEF answer, entry
<1> QED
  BY <1>1, AnswersInvariant, PTL
=============================================================================
