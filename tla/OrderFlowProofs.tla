-------------------------- MODULE OrderFlowProofs --------------------------
(***************************************************************************)
(* Proofs about OrderFlow, for any number of pairs, orders, quotes and     *)
(* disconnections.                                                         *)
(*                                                                         *)
(* EventInv says of every event under way which orders it is about and     *)
(* what it may say of them; it is inductive together with TypeOK.          *)
(* MatchInv adds how the records of the table match the orders; it needs   *)
(* quotes that tell the orders of a pair apart and POSTs that do not fail. *)
(* LiveKnown and FillKnown follow one order through the storages.          *)
(***************************************************************************)
EXTENDS OrderFlow, SequenceTheorems, TLAPS

(* An empty queue holds nothing.                                           *)
LEMMA RangeOfEmpty == Range(<<>>) = {}
BY DEF Range

(* A queue of one event holds that event.                                  *)
LEMMA RangeOfOne ==
  ASSUME NEW e
  PROVE  Range(<<e>>) = {e}
BY DEF Range

(* Posting an event adds it and nothing else.                              *)
LEMMA RangeOfAppend ==
  ASSUME NEW S, NEW s \in Seq(S), NEW e \in S
  PROVE  /\ s \o <<e>> \in Seq(S)
         /\ Range(s \o <<e>>) = Range(s) \cup {e}
<1>1. <<e>> \in Seq(S) /\ Range(<<e>>) = {e}
  BY RangeOfOne
<1>2. s \o <<e>> \in Seq(S)
  BY <1>1
<1>3. Range(s \o <<e>>) = Range(s) \cup Range(<<e>>)
  BY ZenonT(40), <1>1, RangeConcatenation
<1>4. QED
  BY <1>1, <1>2, <1>3

(* A queue holds its head and what its tail holds.                         *)
LEMMA RangeOfHeadTail ==
  ASSUME NEW S, NEW s \in Seq(S), s # <<>>
  PROVE  /\ Head(s) \in S /\ Tail(s) \in Seq(S)
         /\ Range(s) = {Head(s)} \cup Range(Tail(s))
<1>1. /\ Head(s) \in S /\ Tail(s) \in Seq(S)
      /\ Len(Tail(s)) = Len(s) - 1 /\ Len(s) >= 1
      /\ \A k \in 1 .. Len(Tail(s)) : Tail(s)[k] = s[k + 1]
      /\ Head(s) = s[1]
  OBVIOUS
<1>2. Range(Tail(s)) \subseteq Range(s)
  BY <1>1, RangeEquality DEF Range
<1>3. Head(s) \in Range(s)
  BY <1>1, RangeEquality DEF Range
<1>4. ASSUME NEW e \in Range(s), e # Head(s)
      PROVE  e \in Range(Tail(s))
  <2>1. PICK k \in 1 .. Len(s) : e = s[k]
    BY RangeEquality
  <2>2. k - 1 \in 1 .. Len(Tail(s)) /\ Tail(s)[k - 1] = e
    BY <1>1, <1>4, <2>1
  <2>3. QED
    BY <1>1, <2>2, RangeEquality
<1>5. QED
  BY <1>1, <1>2, <1>3, <1>4

-----------------------------------------------------------------------------
(* What the ways to change the queue do to the events under way.           *)

(* A report of the exchange is posted to the queue, or it is missed when   *)
(* the stream is down.                                                     *)
LEMMA EmitEffect ==
  ASSUME TypeOK, NEW i \in Ids, NEW statuses \in Seq(Statuses),
         Emit(i, statuses)
  PROVE  /\ queue' \in Seq(Event) /\ missed' \subseteq Ids
         /\ missed \subseteq missed' /\ missed' \subseteq missed \cup {i}
         /\ Range(queue) \subseteq Range(queue')
         /\ \A e \in Range(queue') \ Range(queue) :
              \E k \in DOMAIN statuses : e = Report(i, statuses[k])
         /\ \A k \in DOMAIN statuses :
              i \in missed' \/ Report(i, statuses[k]) \in Range(queue')
<1> DEFINE reports == [k \in DOMAIN statuses |-> Report(i, statuses[k])]
<1>1. ASSUME NEW k \in DOMAIN statuses
      PROVE  Report(i, statuses[k]) \in Event
  <2>1. statuses[k] \in Statuses
    OBVIOUS
  <2>2. {i} \in SUBSET Ids
    OBVIOUS
  <2>3. QED
    BY <2>1, <2>2 DEF Report, About, Event, StreamKinds
<1>2. reports \in Seq(Event)
  <2>1. DOMAIN reports = 1 .. Len(statuses) /\ Len(statuses) \in Nat
    OBVIOUS
  <2>2. \A k \in 1 .. Len(statuses) : reports[k] \in Event
    BY <1>1
  <2>3. QED
    BY <2>1, <2>2, IsASeq
<1>3. Range(reports) = {Report(i, statuses[k]) : k \in DOMAIN statuses}
  BY DEF Range
<1>4. CASE connected
  <2>1. queue \in Seq(Event) /\ queue' = queue \o reports /\ missed' = missed
    BY <1>4 DEF Emit, TypeOK
  <2>2. queue' \in Seq(Event)
    BY <2>1, <1>2
  <2>3. Range(queue') = Range(queue) \cup Range(reports)
    BY SMTT(30), <2>1, <1>2, RangeConcatenation
  <2>4. QED
    BY <2>1, <2>2, <2>3, <1>3 DEF TypeOK
<1>5. CASE ~connected
  BY <1>5 DEF Emit, TypeOK
<1>6. QED
  BY <1>4, <1>5

(* Delivering an event takes the head away and appends what its handler    *)
(* posts.                                                                  *)
LEMMA DeliverEffect ==
  ASSUME TypeOK, NEW kind, NEW posted \in Seq(Event), Deliver(kind, posted)
  PROVE  /\ Head(queue) \in Event /\ Head(queue).kind = kind
         /\ Range(queue) = {Head(queue)} \cup Range(Tail(queue))
         /\ queue' \in Seq(Event)
         /\ Range(queue') = Range(Tail(queue)) \cup Range(posted)
         /\ UNCHANGED <<orders, traded, cancels, replies>>
<1>1. queue \in Seq(Event) /\ queue # <<>> /\ queue' = Tail(queue) \o posted
  BY DEF Deliver, TypeOK
<1>2. /\ Head(queue) \in Event /\ Tail(queue) \in Seq(Event)
      /\ Range(queue) = {Head(queue)} \cup Range(Tail(queue))
  BY <1>1, RangeOfHeadTail
<1>3. queue' \in Seq(Event)
  BY <1>1, <1>2
<1>4. Range(queue') = Range(Tail(queue)) \cup Range(posted)
  <2>1. posted \in Seq(Event) /\ Tail(queue) \in Seq(Event)
    BY <1>2
  <2>2. Range(Tail(queue) \o posted) = Range(Tail(queue)) \cup Range(posted)
    BY ONLY ZenonT(40), <2>1, RangeConcatenation
  <2>3. QED
    BY <1>1, <2>2
<1>5. QED
  BY <1>2, <1>3, <1>4 DEF Deliver, exchangeVars

(* Handling an HTTP answer takes it away and appends what its handler      *)
(* posts.                                                                  *)
LEMMA AnswerEffect ==
  ASSUME TypeOK, NEW r, NEW kind, NEW posted \in Seq(Event),
         Answer(r, kind, posted)
  PROVE  /\ r.kind = kind
         /\ replies' = replies \ {r}
         /\ queue' \in Seq(Event)
         /\ Range(queue') = Range(queue) \cup Range(posted)
         /\ UNCHANGED <<orders, traded, cancels>>
<1>1. queue \in Seq(Event) /\ queue' = queue \o posted
  BY DEF Answer, TypeOK
<1>2. queue' \in Seq(Event)
  BY <1>1
<1>3. Range(queue') = Range(queue) \cup Range(posted)
  BY <1>1, RangeConcatenation
<1>4. QED
  BY <1>2, <1>3 DEF Answer, exchangeVars

(* A disconnection takes nothing away but reports, which count as missed,  *)
(* and adds nothing that is about an order.                                *)
LEMMA DisconnectEffect ==
  ASSUME TypeOK, Disconnect
  PROVE  /\ queue' \in Seq(Event) /\ missed' \subseteq Ids
         /\ missed \subseteq missed'
         /\ \A i \in missed' \ missed :
              \E e \in Range(queue) : e.kind = "report" /\ i \in e.ids
         /\ \A e \in Range(queue) :
              e \in Range(queue') \/ (e.kind = "report" /\ e.ids \subseteq missed')
         /\ \A e \in Range(queue') :
              e \in Range(queue) \/ (e.ids = {} /\ e.kind \in LoopKinds)
<1>1. PICK n \in 1 .. Len(queue) + 1 :
        LET lost == {k \in n .. Len(queue) : queue[k].kind = "report"}
            left == [k \in DOMAIN queue |->
                       IF k \in lost THEN About("lost", {}, "live") ELSE queue[k]]
        IN  /\ missed' = missed \cup UNION {queue[k].ids : k \in lost}
            /\ queue' = Append(left, About("disconnected", {}, "live"))
  BY DEF Disconnect
<1> DEFINE lost == {k \in n .. Len(queue) : queue[k].kind = "report"}
           left == [k \in DOMAIN queue |->
                      IF k \in lost THEN About("lost", {}, "live") ELSE queue[k]]
<1>2. /\ queue \in Seq(Event) /\ missed \subseteq Ids
      /\ Len(queue) \in Nat /\ DOMAIN queue = 1 .. Len(queue)
  BY DEF TypeOK
<1>3. lost \subseteq 1 .. Len(queue)
  BY <1>2
<1>4. About("lost", {}, "live") \in Event /\ About("disconnected", {}, "live") \in Event
  BY DEF About, Event, LoopKinds, Statuses
<1>5. \A k \in 1 .. Len(queue) : queue[k] \in Event /\ left[k] \in Event
  BY <1>2, <1>4
<1>6. left \in Seq(Event)
  BY <1>2, <1>5, IsASeq
<1>7. Range(left) = {left[k] : k \in 1 .. Len(queue)}
  BY <1>2 DEF Range
<1>8. /\ queue' \in Seq(Event)
      /\ Range(queue') = Range(left) \cup {About("disconnected", {}, "live")}
  <2>1. queue' = left \o <<About("disconnected", {}, "live")>>
    BY <1>1, <1>4, <1>6, AppendIsConcat
  <2>2. QED
    BY SMTT(30), <2>1, <1>4, <1>6, RangeOfAppend
<1>9. Range(queue) = {queue[k] : k \in 1 .. Len(queue)}
  BY <1>2 DEF Range
<1>10. missed' = missed \cup UNION {queue[k].ids : k \in lost}
  BY <1>1
<1>11. missed' \subseteq Ids
  BY <1>2, <1>3, <1>5, <1>10 DEF Event
<1>12. ASSUME NEW i \in missed' \ missed
       PROVE  \E e \in Range(queue) : e.kind = "report" /\ i \in e.ids
  <2>1. PICK k \in lost : i \in queue[k].ids
    BY <1>10
  <2>2. QED
    BY <2>1, <1>3, <1>9
<1>13. ASSUME NEW e \in Range(queue)
       PROVE  e \in Range(queue') \/ (e.kind = "report" /\ e.ids \subseteq missed')
  <2>1. PICK k \in 1 .. Len(queue) : e = queue[k]
    BY <1>9
  <2>2. CASE k \in lost
    BY <2>1, <2>2, <1>10
  <2>3. CASE k \notin lost
    BY <2>1, <2>3, <1>2, <1>7, <1>8
  <2>4. QED
    BY <2>2, <2>3
<1>14. ASSUME NEW e \in Range(queue')
       PROVE  e \in Range(queue) \/ (e.ids = {} /\ e.kind \in LoopKinds)
  <2>1. CASE e = About("disconnected", {}, "live")
    BY <2>1 DEF About, LoopKinds
  <2>2. CASE e \in Range(left)
    <3>1. PICK k \in 1 .. Len(queue) : e = left[k]
      BY <2>2, <1>7
    <3>2. e = queue[k] \/ e = About("lost", {}, "live")
      BY <3>1, <1>2
    <3>3. QED
      BY <3>2, <1>9 DEF About, LoopKinds
  <2>3. QED
    BY <2>1, <2>2, <1>8
<1>15. QED
  BY <1>8, <1>10, <1>11, <1>12, <1>13, <1>14

-----------------------------------------------------------------------------
(* The inductive invariant of the events.  An event is about orders that   *)
(* the exchange has answered; a report of the end of an order tells the    *)
(* status the order has for good.                                          *)

ClosedStatuses == {"filled", "improved", "canceled"}

EventOK(e) ==
  /\ \A i \in e.ids : i \in DOMAIN orders /\ orders[i].status # "sent"
  /\ e.kind \in {"report", "newOrder", "newOrderError", "cancel"} => Single(e)
  /\ e.kind = "report" /\ e.status # "live" =>
       \A i \in e.ids : orders[i].status = e.status
  /\ e.kind = "cancel" => \A i \in e.ids : orders[i].status = "canceled"

EventInv ==
  /\ \A e \in InFlight : EventOK(e)
  /\ \A i \in traded : i \in DOMAIN orders /\ orders[i].status # "sent"

(* What no step does to the orders of the exchange.                        *)
OrdersKept ==
  \A i \in DOMAIN orders :
    /\ i \in DOMAIN orders'
    /\ orders'[i].market = orders[i].market
    /\ orders'[i].side = orders[i].side
    /\ orders'[i].quote = orders[i].quote
    /\ orders[i].status # "sent" => orders'[i].status # "sent"
    /\ orders[i].status \in ClosedStatuses => orders'[i].status = orders[i].status

(* The subject of an event about one order is that order.                  *)
LEMMA SubjectOfSingle ==
  ASSUME NEW e, Single(e)
  PROVE  Subject(e) \in Ids /\ e.ids = {Subject(e)}
BY DEF Single, Subject

(* The same of a bare set of ids.                                          *)
LEMMA SubjectOfIds ==
  ASSUME NEW ids, Single([ids |-> ids])
  PROVE  \E i \in Ids : i = Subject([ids |-> ids]) /\ ids = {i}
<1>1. [ids |-> ids].ids = ids
  OBVIOUS
<1>2. QED
  BY <1>1 DEF Single, Subject

(* A change of status at the exchange touches one order, keeps its pair,   *)
(* side and quote, and never makes it one that is still to be received.    *)
LEMMA SetStatusEffect ==
  ASSUME TypeOK, NEW i \in DOMAIN orders, NEW status \in Statuses \ {"sent"},
         SetStatus(i, status), orders[i].status \in {"sent", "live"}
  PROVE  /\ orders' \in Seq(Order) /\ Len(orders') = Len(orders)
         /\ DOMAIN orders' = DOMAIN orders
         /\ orders'[i].status = status
         /\ \A j \in DOMAIN orders \ {i} : orders'[j] = orders[j]
         /\ OrdersKept
<1>1. orders \in Seq(Order) /\ orders' = [orders EXCEPT ![i].status = status]
  BY DEF SetStatus, TypeOK
<1>2. orders[i] \in Order
  BY <1>1
<1>3. [orders[i] EXCEPT !.status = status] \in Order
  BY <1>2 DEF Order
<1>4. orders' = [orders EXCEPT ![i] = [orders[i] EXCEPT !.status = status]]
  BY <1>1
<1>5. /\ orders' \in Seq(Order) /\ Len(orders') = Len(orders)
      /\ DOMAIN orders' = DOMAIN orders
  BY <1>1, <1>3, <1>4, ExceptSeq
<1>6. /\ orders'[i] = [orders[i] EXCEPT !.status = status]
      /\ \A j \in DOMAIN orders \ {i} : orders'[j] = orders[j]
  BY <1>1, <1>4
<1>7. /\ orders'[i].market = orders[i].market /\ orders'[i].side = orders[i].side
      /\ orders'[i].quote = orders[i].quote /\ orders'[i].status = status
  BY <1>2, <1>6 DEF Order
<1>8. OrdersKept
  BY <1>5, <1>6, <1>7 DEF OrdersKept, ClosedStatuses
<1>9. QED
  BY <1>5, <1>6, <1>7, <1>8

(* submitOrder appends at most one order, the one it was called for.       *)
LEMMA SubmitEffect ==
  ASSUME TypeOK, NEW m \in Markets, NEW s \in Sides, NEW q \in Quotes,
         SubmitOrder(m, s, q)
  PROVE  /\ orders' \in Seq(Order) /\ Len(orders') <= MaxOrders
         /\ \/ orders' = orders
            \/ /\ Len(orders') = Len(orders) + 1
               /\ DOMAIN orders' = DOMAIN orders \cup {Len(orders')}
               /\ Len(orders') \notin DOMAIN orders
               /\ orders'[Len(orders')] =
                    [market |-> m, side |-> s, quote |-> q, status |-> "sent"]
               /\ \A j \in DOMAIN orders : orders'[j] = orders[j]
         /\ OrdersKept
<1> DEFINE new == [market |-> m, side |-> s, quote |-> q, status |-> "sent"]
<1>1. /\ orders \in Seq(Order) /\ Len(orders) < MaxOrders /\ Len(orders) <= MaxOrders
      /\ orders' = Append(orders, new) \/ orders' = orders
  BY DEF TypeOK, SubmitOrder, SubmitWith
<1>2. new \in Order
  BY DEF Order, Statuses
<1>3. CASE orders' = Append(orders, new)
  <2>1. /\ orders' \in Seq(Order)
        /\ Len(orders') = Len(orders) + 1
        /\ \A j \in 1 .. Len(orders) : orders'[j] = orders[j]
        /\ orders'[Len(orders) + 1] = new
    BY <1>1, <1>2, <1>3, AppendProperties
  <2>2. /\ DOMAIN orders = 1 .. Len(orders) /\ Len(orders) \in Nat
        /\ DOMAIN orders' = 1 .. Len(orders')
    BY <1>1, <2>1
  <2>3. Len(orders') <= MaxOrders
    BY <1>1, <2>1, <2>2, MaxOrdersAssumption
  <2>4. OrdersKept
    BY <2>1, <2>2 DEF OrdersKept
  <2>5. /\ DOMAIN orders' = DOMAIN orders \cup {Len(orders')}
        /\ Len(orders') \notin DOMAIN orders
    BY <2>1, <2>2
  <2>6. QED
    BY <2>1, <2>2, <2>3, <2>4, <2>5
<1>4. CASE orders' = orders
  BY <1>1, <1>4 DEF OrdersKept
<1>5. QED
  BY <1>1, <1>3, <1>4

-----------------------------------------------------------------------------
(* What the operations of the table do to it.                              *)

(* Both updateEraseOrder take away only records that match by id or by     *)
(* quote.                                                                  *)
LEMMA EraseEffect ==
  ASSUME NEW i, NEW sameQuote,
         UpdateEraseOrder(i, sameQuote) \/ UpdateEraseOrderId(i)
  PROVE  /\ tempOrders' \subseteq tempOrders
         /\ \A r \in tempOrders \ tempOrders' : r.id = i \/ SameQuote(r, i)
<1>1. ASSUME NEW found \in SUBSET tempOrders, tempOrders' \in Without(found)
      PROVE  /\ tempOrders' \subseteq tempOrders
             /\ tempOrders \ tempOrders' \subseteq found
  BY <1>1 DEF Without
<1>2. /\ RecordsOf(i) \subseteq tempOrders /\ \A r \in RecordsOf(i) : r.id = i
      /\ RecordsLike(i) \subseteq tempOrders /\ \A r \in RecordsLike(i) : SameQuote(r, i)
  BY DEF RecordsOf, RecordsLike
<1>3. CASE UpdateEraseOrderId(i)
  BY <1>1, <1>2, <1>3 DEF UpdateEraseOrderId
<1>4. CASE UpdateEraseOrder(i, sameQuote)
  <2>1. PICK found \in {RecordsOf(i), RecordsLike(i), {}} : tempOrders' \in Without(found)
    BY <1>4 DEF UpdateEraseOrder
  <2>2. QED
    BY <2>1, <1>1, <1>2
<1>5. QED
  BY <1>3, <1>4

(* updatePlaceOrder changes nothing but the id of one record of the same   *)
(* quote.                                                                  *)
LEMMA PlaceEffect ==
  ASSUME TypeOK, NEW i \in Ids, UpdatePlaceOrder(i)
  PROVE  /\ tempOrders' \subseteq Record
         /\ \/ tempOrders' = tempOrders
            \/ \E r \in tempOrders :
                 /\ SameQuote(r, i)
                 /\ tempOrders' = (tempOrders \ {r}) \cup {[r EXCEPT !.id = i]}
                 /\ [r EXCEPT !.id = i] =
                      [market |-> r.market, side |-> r.side, quote |-> r.quote, id |-> i]
<1>1. tempOrders \subseteq Record
  BY DEF TypeOK
<1>2. CASE RecordsLike(i) = {}
  BY <1>1, <1>2 DEF UpdatePlaceOrder
<1>3. CASE RecordsLike(i) # {}
  <2>1. PICK r \in RecordsLike(i) :
          tempOrders' = (tempOrders \ {r}) \cup {[r EXCEPT !.id = i]}
    BY <1>3 DEF UpdatePlaceOrder
  <2>2. r \in tempOrders /\ r \in Record /\ SameQuote(r, i)
    BY <1>1, <2>1 DEF RecordsLike
  <2>3. /\ [r EXCEPT !.id = i] \in Record
        /\ [r EXCEPT !.id = i] =
             [market |-> r.market, side |-> r.side, quote |-> r.quote, id |-> i]
    BY <2>2 DEF Record
  <2>4. QED
    BY <1>1, <2>1, <2>2, <2>3
<1>4. QED
  BY <1>2, <1>3

-----------------------------------------------------------------------------
(* Type correctness.                                                       *)

(* Whatever is said about orders is an event.                              *)
LEMMA ReplyTypes ==
  ASSUME NEW kind \in ReplyKinds \cup LoopKinds \cup StreamKinds,
         NEW ids \in SUBSET Ids, NEW status \in Statuses
  PROVE  About(kind, ids, status) \in Event
BY DEF About, Event

(* The bound on the orders makes their indices ids.                        *)
LEMMA IdsOfOrders ==
  ASSUME TypeOK
  PROVE  /\ DOMAIN orders \subseteq Ids
         /\ \A i \in DOMAIN orders : orders[i] \in Order
<1>1. orders \in Seq(Order) /\ Len(orders) <= MaxOrders /\ DOMAIN orders = 1 .. Len(orders)
  BY DEF TypeOK
<1>2. QED
  BY <1>1, MaxOrdersAssumption DEF Ids

(* submitOrder and cancelOrder keep the types.                             *)
LEMMA AlgorithmTypes ==
  ASSUME TypeOK, Algorithm
  PROVE  TypeOK'
<1>1. ASSUME NEW m \in Markets, NEW s \in Sides, NEW q \in Quotes, SubmitOrder(m, s, q)
      PROVE  TypeOK'
  <2>1. orders' \in Seq(Order) /\ Len(orders') <= MaxOrders
    BY <1>1, SubmitEffect
  <2>2. [market |-> m, side |-> s, quote |-> q, id |-> NoId] \in Record
    BY DEF Record
  <2>3. tempOrders' \subseteq Record
    BY <1>1, <2>2 DEF SubmitOrder, SubmitWith, TypeOK
  <2>4. QED
    BY <1>1, <2>1, <2>3 DEF SubmitOrder, SubmitWith, TypeOK, storageVars, streamVars
<1>2. ASSUME NEW i \in openOrders, CancelOrder(i)
      PROVE  TypeOK'
  BY <1>2 DEF CancelOrder, TypeOK, storageVars, streamVars
<1>3. QED
  BY <1>1, <1>2 DEF Algorithm

(* The steps of the exchange keep the types.                               *)
LEMMA ExchangeTypes ==
  ASSUME TypeOK, Exchange
  PROVE  TypeOK'
<1>1. PICK i \in DOMAIN orders :
        \/ AcceptResting(i)
        \/ \E status \in FilledStatuses : AcceptFilled(i, status)
        \/ AcceptKilled(i)
        \/ RefusePost(i)
        \/ TradePartly(i)
        \/ TradeFully(i)
        \/ ExecuteCancel(i)
        \/ RefuseCancel(i)
  BY DEF Exchange
<1>2. i \in Ids /\ {i} \in SUBSET Ids /\ DOMAIN orders \subseteq Ids
  BY IdsOfOrders
<1>3. ASSUME NEW status \in Statuses, AnswerPost(i, status)
      PROVE  replies' \subseteq Event
  BY <1>2, <1>3, ReplyTypes DEF AnswerPost, TypeOK, ReplyKinds
<1>4. CASE AcceptResting(i)
  <2>1. "live" \in Statuses /\ <<"live">> \in Seq(Statuses)
    BY DEF Statuses
  <2>2. orders' \in Seq(Order) /\ Len(orders') = Len(orders)
    BY <1>4, <2>1, SetStatusEffect DEF AcceptResting
  <2>3. queue' \in Seq(Event) /\ missed' \subseteq Ids
    BY <1>2, <1>4, <2>1, EmitEffect DEF AcceptResting
  <2>4. replies' \subseteq Event
    BY <1>3, <1>4, <2>1 DEF AcceptResting
  <2>5. QED
    BY <1>4, <2>2, <2>3, <2>4 DEF AcceptResting, BotUnchanged, storageVars, TypeOK
<1>5. ASSUME NEW status \in FilledStatuses, AcceptFilled(i, status)
      PROVE  TypeOK'
  <2>1. status \in Statuses \ {"sent"} /\ <<"live", status>> \in Seq(Statuses)
    BY DEF Statuses, FilledStatuses
  <2>2. orders' \in Seq(Order) /\ Len(orders') = Len(orders)
    BY <1>5, <2>1, SetStatusEffect DEF AcceptFilled
  <2>3. queue' \in Seq(Event) /\ missed' \subseteq Ids
    BY <1>2, <1>5, <2>1, EmitEffect DEF AcceptFilled
  <2>4. replies' \subseteq Event
    BY <1>3, <1>5, <2>1 DEF AcceptFilled
  <2>5. QED
    BY <1>2, <1>5, <2>2, <2>3, <2>4 DEF AcceptFilled, BotUnchanged, storageVars, TypeOK
<1>6. CASE AcceptKilled(i)
  <2>1. "canceled" \in Statuses \ {"sent"} /\ <<"live", "canceled">> \in Seq(Statuses)
    BY DEF Statuses
  <2>2. orders' \in Seq(Order) /\ Len(orders') = Len(orders)
    BY <1>6, <2>1, SetStatusEffect DEF AcceptKilled
  <2>3. queue' \in Seq(Event) /\ missed' \subseteq Ids
    BY <1>2, <1>6, <2>1, EmitEffect DEF AcceptKilled
  <2>4. replies' \subseteq Event
    BY <1>3, <1>6, <2>1 DEF AcceptKilled
  <2>5. QED
    BY <1>6, <2>2, <2>3, <2>4 DEF AcceptKilled, BotUnchanged, storageVars, TypeOK
<1>7. CASE RefusePost(i)
  <2>1. "canceled" \in Statuses \ {"sent"}
    BY DEF Statuses
  <2>2. orders' \in Seq(Order) /\ Len(orders') = Len(orders)
    BY <1>7, <2>1, SetStatusEffect DEF RefusePost
  <2>3. About("newOrderError", {i}, "canceled") \in Event
    BY <1>2, <2>1, ReplyTypes DEF ReplyKinds
  <2>4. QED
    BY <1>7, <2>2, <2>3 DEF RefusePost, BotUnchanged, storageVars, TypeOK
<1>8. CASE TradePartly(i)
  <2>1. <<"live">> \in Seq(Statuses)
    BY DEF Statuses
  <2>2. queue' \in Seq(Event) /\ missed' \subseteq Ids
    BY <1>2, <1>8, <2>1, EmitEffect DEF TradePartly
  <2>3. QED
    BY <1>2, <1>8, <2>2 DEF TradePartly, BotUnchanged, storageVars, TypeOK
<1>9. CASE TradeFully(i)
  <2>1. "filled" \in Statuses \ {"sent"} /\ <<"filled">> \in Seq(Statuses)
    BY DEF Statuses
  <2>2. orders' \in Seq(Order) /\ Len(orders') = Len(orders)
    BY <1>9, <2>1, SetStatusEffect DEF TradeFully
  <2>3. queue' \in Seq(Event) /\ missed' \subseteq Ids
    BY <1>2, <1>9, <2>1, EmitEffect DEF TradeFully
  <2>4. QED
    BY <1>2, <1>9, <2>2, <2>3 DEF TradeFully, BotUnchanged, storageVars, TypeOK
<1>10. CASE ExecuteCancel(i)
  <2>1. "canceled" \in Statuses \ {"sent"} /\ <<"canceled">> \in Seq(Statuses)
    BY DEF Statuses
  <2>2. orders' \in Seq(Order) /\ Len(orders') = Len(orders)
    BY <1>10, <2>1, SetStatusEffect DEF ExecuteCancel
  <2>3. queue' \in Seq(Event) /\ missed' \subseteq Ids
    BY <1>2, <1>10, <2>1, EmitEffect DEF ExecuteCancel
  <2>4. About("cancel", {i}, "canceled") \in Event
    BY <1>2, <2>1, ReplyTypes DEF ReplyKinds
  <2>5. QED
    BY <1>10, <2>2, <2>3, <2>4 DEF ExecuteCancel, BotUnchanged, storageVars, TypeOK
<1>11. CASE RefuseCancel(i)
  BY <1>11 DEF RefuseCancel, BotUnchanged, storageVars, TypeOK
<1>12. QED
  BY <1>1, <1>4, <1>5, <1>6, <1>7, <1>8, <1>9, <1>10, <1>11

(* The handlers of the stream and the merges keep the types.               *)
LEMMA EventTypes ==
  ASSUME TypeOK, EventInv, HandleEvent
  PROVE  TypeOK'
<1> DEFINE e == Head(queue)
<1>1. ASSUME NEW kind, NEW posted \in Seq(Event), Deliver(kind, posted)
      PROVE  /\ queue' \in Seq(Event) /\ UNCHANGED <<orders, traded, cancels, replies>>
             /\ e.ids \in SUBSET Ids /\ e.status \in Statuses
  BY <1>1, DeliverEffect DEF Event
<1>2. queue # <<>>
  BY DEF HandleEvent, ReportLive, ReportFilled, ReportClosed, MergeOpenOrders,
         MergeTradeHistory, SkipLost, ReloadPrivateData, Deliver
<1>3. e.ids \in SUBSET Ids /\ e.status \in Statuses
  <2>1. queue \in Seq(Event)
    BY DEF TypeOK
  <2>2. e \in Event
    BY <1>2, <2>1
  <2>3. QED
    BY <2>2 DEF Event
<1>4. /\ <<About("mergeOpen", e.ids, "live")>> \in Seq(Event)
      /\ <<About("mergeHistory", e.ids, e.status)>> \in Seq(Event)
      /\ <<>> \in Seq(Event)
  <2>1. /\ About("mergeOpen", e.ids, "live") \in Event
        /\ About("mergeHistory", e.ids, e.status) \in Event
    BY <1>3, ReplyTypes DEF LoopKinds, Statuses
  <2>2. QED
    BY <2>1
<1>5. CASE ReportLive
  <2>1. tempOrders' \subseteq tempOrders
    BY <1>5, EraseEffect DEF ReportLive
  <2>2. QED
    BY <1>1, <1>4, <1>5, <2>1 DEF ReportLive, storageVars, streamVars, TypeOK
<1>6. CASE ReportFilled
  <2>1. tempOrders' \subseteq tempOrders
    BY <1>6, EraseEffect DEF ReportFilled
  <2>2. QED
    BY <1>1, <1>4, <1>6, <2>1 DEF ReportFilled, streamVars, TypeOK
<1>7. CASE ReportClosed
  BY <1>1, <1>4, <1>7 DEF ReportClosed, streamVars, TypeOK
<1>8. CASE MergeOpenOrders
  BY <1>1, <1>3, <1>4, <1>8 DEF MergeOpenOrders, streamVars, TypeOK
<1>9. CASE MergeTradeHistory
  BY <1>1, <1>3, <1>4, <1>9 DEF MergeTradeHistory, streamVars, TypeOK
<1>10. CASE SkipLost
  BY <1>1, <1>4, <1>10 DEF SkipLost, storageVars, streamVars, TypeOK
<1>11. CASE ReloadPrivateData
  BY <1>1, <1>4, <1>11 DEF ReloadPrivateData, storageVars, TypeOK
<1>12. QED
  BY <1>5, <1>6, <1>7, <1>8, <1>9, <1>10, <1>11 DEF HandleEvent

(* The handlers of HTTP answers keep the types.                            *)
LEMMA AnswerTypes ==
  ASSUME TypeOK, EventInv, NEW r \in replies, HandleAnswer(r)
  PROVE  TypeOK'
<1>1. ASSUME NEW kind, NEW posted \in Seq(Event), Answer(r, kind, posted)
      PROVE  /\ queue' \in Seq(Event) /\ UNCHANGED <<orders, traded, cancels>>
             /\ replies' \subseteq replies
  BY <1>1, AnswerEffect
<1>2. r.ids \in SUBSET Ids /\ r.status \in Statuses
  BY DEF TypeOK, Event
<1>3. /\ <<About("mergeOpen", r.ids, "live")>> \in Seq(Event)
      /\ <<About("mergeHistory", r.ids, r.status)>> \in Seq(Event)
      /\ <<>> \in Seq(Event)
  <2>1. /\ About("mergeOpen", r.ids, "live") \in Event
        /\ About("mergeHistory", r.ids, r.status) \in Event
    BY <1>2, ReplyTypes DEF LoopKinds, Statuses
  <2>2. QED
    BY <2>1
<1>4. CASE AnswerNewOrder(r)
  <2>1. PICK i \in Ids : i = Subject(r)
    <3>1. Single(r)
      BY <1>4 DEF AnswerNewOrder, Answer, EventInv, EventOK, InFlight
    <3>2. QED
      BY <3>1, SubjectOfSingle
  <2>2. UpdateEraseOrder(i, TRUE) \/ UpdatePlaceOrder(i)
    BY <1>4, <2>1 DEF AnswerNewOrder
  <2>3. tempOrders' \subseteq Record
    BY <2>2, EraseEffect, PlaceEffect DEF TypeOK
  <2>4. QED
    BY <1>1, <1>3, <1>4, <2>3 DEF AnswerNewOrder, storageVars, streamVars, TypeOK
<1>5. CASE AnswerNewOrderError(r)
  <2>1. tempOrders' \subseteq tempOrders
    BY <1>5 DEF AnswerNewOrderError
  <2>2. QED
    BY <1>1, <1>3, <1>5, <2>1 DEF AnswerNewOrderError, storageVars, streamVars, TypeOK
<1>6. CASE AnswerCancel(r)
  <2>1. tempOrders' \subseteq tempOrders
    BY <1>6, EraseEffect DEF AnswerCancel
  <2>2. QED
    BY <1>1, <1>3, <1>6, <2>1 DEF AnswerCancel, streamVars, TypeOK
<1>7. CASE AnswerOpenOrders(r)
  <2>1. tempOrders' \subseteq tempOrders
    BY <1>7, EraseEffect DEF AnswerOpenOrders
  <2>2. QED
    BY <1>1, <1>3, <1>7, <2>1 DEF AnswerOpenOrders, storageVars, streamVars, TypeOK
<1>8. CASE AnswerTradeHistory(r)
  <2>1. tempOrders' \subseteq tempOrders
    BY <1>8, EraseEffect DEF AnswerTradeHistory
  <2>2. QED
    BY <1>1, <1>3, <1>8, <2>1 DEF AnswerTradeHistory, storageVars, streamVars, TypeOK
<1>9. QED
  BY <1>4, <1>5, <1>6, <1>7, <1>8 DEF HandleAnswer

(* Losing the stream and reloading keep the types.                         *)
LEMMA ReloadTypes ==
  ASSUME TypeOK, EventInv, Disconnect \/ Unblock \/ Connect \/ Reload
  PROVE  TypeOK'
<1>1. CASE Disconnect
  <2>1. queue' \in Seq(Event) /\ missed' \subseteq Ids
    BY <1>1, DisconnectEffect
  <2>2. reloads' \in 0 .. MaxReloads
    BY <1>1, MaxReloadsAssumption DEF Disconnect, TypeOK
  <2>3. QED
    BY <1>1, <2>1, <2>2 DEF Disconnect, exchangeVars, storageVars, TypeOK
<1>2. CASE Unblock
  <2>1. reloads' \in 0 .. MaxReloads
    BY <1>2, MaxReloadsAssumption DEF Unblock, TypeOK
  <2>2. QED
    BY <1>2, <2>1 DEF Unblock, exchangeVars, storageVars, TypeOK
<1>3. CASE Connect
  BY <1>3 DEF Connect, exchangeVars, storageVars, TypeOK
<1>4. ASSUME NEW m \in Markets, ReloadHistory(m)
      PROVE  TypeOK'
  <2> DEFINE ids == {i \in traded : orders[i].market = m}
             status == IF Single([ids |-> ids]) THEN orders[Subject([ids |-> ids])].status
                                                ELSE "live"
  <2>1. ids \in SUBSET Ids
    BY DEF TypeOK
  <2>2. status \in Statuses
    <3>1. CASE Single([ids |-> ids])
      <4>1. PICK i \in Ids : i = Subject([ids |-> ids]) /\ ids = {i}
        BY <3>1, SubjectOfIds
      <4>2. i \in DOMAIN orders
        BY <4>1 DEF EventInv
      <4>3. orders[i] \in Order
        BY <4>2, IdsOfOrders
      <4>4. status = orders[i].status
        BY <3>1, <4>1
      <4>5. QED
        BY <4>3, <4>4 DEF Order
    <3>2. CASE ~Single([ids |-> ids])
      BY <3>2 DEF Statuses
    <3>3. QED
      BY <3>1, <3>2
  <2>3. About("historyReply", ids, status) \in Event
    BY <2>1, <2>2, ReplyTypes DEF ReplyKinds
  <2>4. /\ replies' = replies \cup {About("historyReply", ids, status)}
        /\ missed' \subseteq missed /\ todo' \subseteq todo
    BY <1>4 DEF ReloadHistory
  <2>5. UNCHANGED <<orders, traded, cancels, queue, tempOrders, openOrders,
                    history, connected, reloads>>
    BY <1>4 DEF ReloadHistory, exchangeVars, storageVars
  <2>6. QED
    BY <2>3, <2>4, <2>5 DEF TypeOK
<1>5. ASSUME NEW m \in Markets, ReloadOpenOrders(m)
      PROVE  TypeOK'
  <2> DEFINE ids == {i \in DOMAIN orders : orders[i].market = m /\ orders[i].status = "live"}
  <2>1. ids \in SUBSET Ids
    BY IdsOfOrders
  <2>2. About("openReply", ids, "live") \in Event
    BY <2>1, ReplyTypes DEF ReplyKinds, Statuses
  <2>3. /\ replies' = replies \cup {About("openReply", ids, "live")}
        /\ missed' \subseteq missed /\ todo' \subseteq todo
    BY <1>5 DEF ReloadOpenOrders
  <2>4. UNCHANGED <<orders, traded, cancels, queue, tempOrders, openOrders,
                    history, connected, reloads>>
    BY <1>5 DEF ReloadOpenOrders, exchangeVars, storageVars
  <2>5. QED
    BY <2>2, <2>3, <2>4 DEF TypeOK
<1>6. ASSUME NEW c \in todo, SkipCall(c)
      PROVE  TypeOK'
  BY <1>6 DEF SkipCall, exchangeVars, storageVars, TypeOK
<1>7. QED
  BY <1>1, <1>2, <1>3, <1>4, <1>5, <1>6 DEF Reload

-----------------------------------------------------------------------------
(* The invariant of the events is inductive.                               *)

(* A step keeps the invariant of the events when what it adds to the queue *)
(* and the answers satisfies it and the orders only move on.               *)
LEMMA EventInvStep ==
  ASSUME TypeOK, EventInv, OrdersKept,
         \A e \in InFlight' \ InFlight : EventOK(e)',
         \A i \in traded' \ traded : i \in DOMAIN orders' /\ orders'[i].status # "sent"
  PROVE  EventInv'
<1>1. ASSUME NEW e \in InFlight
      PROVE  EventOK(e)'
  <2>1. e.status \in Statuses
    <3>1. queue \in Seq(Event) /\ replies \subseteq Event
      BY DEF TypeOK
    <3>2. Range(queue) \subseteq Event
      BY <3>1, RangeOfSeq
    <3>3. QED
      BY <3>1, <3>2 DEF InFlight, Event
  <2>2. EventOK(e)
    BY DEF EventInv
  <2>3. QED
    BY <2>1, <2>2 DEF EventOK, OrdersKept, Statuses, ClosedStatuses, Single
<1>2. \A i \in traded : i \in DOMAIN orders' /\ orders'[i].status # "sent"
  BY DEF EventInv, OrdersKept
<1>3. QED
  BY <1>1, <1>2 DEF EventInv

(* A report or an answer of the exchange about an order it changed.        *)
LEMMA NewEventOK ==
  ASSUME NEW i \in Ids, i \in DOMAIN orders', orders'[i].status # "sent",
         NEW kind \in StreamKinds \cup ReplyKinds, NEW status \in Statuses,
         kind = "report" => status \in {"live", orders'[i].status},
         kind = "cancel" => orders'[i].status = "canceled"
  PROVE  EventOK(About(kind, {i}, status))'
BY DEF EventOK, About, Single

(* The steps of the exchange keep the invariant of the events.             *)
LEMMA ExchangeKeepsEvents ==
  ASSUME TypeOK, EventInv, Exchange
  PROVE  EventInv' /\ OrdersKept
<1>1. PICK i \in DOMAIN orders :
        \/ AcceptResting(i)
        \/ \E status \in FilledStatuses : AcceptFilled(i, status)
        \/ AcceptKilled(i)
        \/ RefusePost(i)
        \/ TradePartly(i)
        \/ TradeFully(i)
        \/ ExecuteCancel(i)
        \/ RefuseCancel(i)
  BY DEF Exchange
<1>2. i \in Ids
  BY IdsOfOrders
<1>3. ASSUME NEW status \in {"live", "filled", "improved", "canceled"},
             orders[i].status \in {"sent", "live"}, SetStatus(i, status)
      PROVE  i \in DOMAIN orders' /\ orders'[i].status = status /\ OrdersKept
  BY <1>3, SetStatusEffect DEF Statuses
<1>4. ASSUME UNCHANGED orders
      PROVE  OrdersKept
  BY <1>4 DEF OrdersKept
<1>5. ASSUME NEW statuses \in Seq(Statuses), Emit(i, statuses), OrdersKept,
             i \in DOMAIN orders', orders'[i].status # "sent",
             \A k \in DOMAIN statuses : statuses[k] \in {"live", orders'[i].status},
             \A e \in replies' \ replies : EventOK(e)',
             traded' \subseteq traded \cup {i}
      PROVE  EventInv'
  <2>1. \A e \in Range(queue') \ Range(queue) : \E k \in DOMAIN statuses : e = Report(i, statuses[k])
    BY <1>2, <1>5, EmitEffect
  <2>2. ASSUME NEW e \in InFlight' \ InFlight
        PROVE  EventOK(e)'
    <3>1. CASE e \in replies'
      BY <1>5, <3>1, <2>2 DEF InFlight
    <3>2. CASE e \notin replies'
      <4>1. PICK k \in DOMAIN statuses : e = About("report", {i}, statuses[k])
        BY <2>1, <2>2, <3>2 DEF InFlight, Report
      <4>2. statuses[k] \in Statuses
        OBVIOUS
      <4>3. QED
        BY <1>2, <1>5, <4>1, <4>2, NewEventOK DEF StreamKinds
    <3>3. QED
      BY <3>1, <3>2
  <2>3. QED
    BY <1>5, <2>2, EventInvStep
<1>6. ASSUME NEW status \in Statuses, AnswerPost(i, status),
             i \in DOMAIN orders', orders'[i].status # "sent"
      PROVE  \A e \in replies' \ replies : EventOK(e)'
  BY <1>2, <1>6, NewEventOK DEF AnswerPost, ReplyKinds
<1>7. CASE AcceptResting(i)
  <2>1. OrdersKept /\ i \in DOMAIN orders' /\ orders'[i].status = "live"
    BY <1>3, <1>7 DEF AcceptResting
  <2>2. "live" \in Statuses /\ <<"live">> \in Seq(Statuses)
        /\ \A k \in DOMAIN <<"live">> : <<"live">>[k] \in {"live"}
    BY DEF Statuses
  <2>3. \A e \in replies' \ replies : EventOK(e)'
    BY <1>6, <1>7, <2>1, <2>2 DEF AcceptResting
  <2>4. Emit(i, <<"live">>) /\ traded' = traded
    BY <1>7 DEF AcceptResting
  <2>5. QED
    BY <1>5, <2>1, <2>2, <2>3, <2>4
<1>8. ASSUME NEW status \in FilledStatuses, AcceptFilled(i, status)
      PROVE  EventInv' /\ OrdersKept
  <2>1. OrdersKept /\ i \in DOMAIN orders' /\ orders'[i].status = status
        /\ status # "sent"
    BY <1>3, <1>8 DEF AcceptFilled, FilledStatuses
  <2>2. status \in Statuses /\ <<"live", status>> \in Seq(Statuses)
        /\ \A k \in DOMAIN <<"live", status>> : <<"live", status>>[k] \in {"live", status}
    BY DEF Statuses, FilledStatuses
  <2>3. \A e \in replies' \ replies : EventOK(e)'
    BY <1>6, <1>8, <2>1, <2>2 DEF AcceptFilled
  <2>4. Emit(i, <<"live", status>>) /\ traded' = traded \cup {i}
    BY <1>8 DEF AcceptFilled
  <2>5. QED
    BY <1>5, <2>1, <2>2, <2>3, <2>4
<1>9. CASE AcceptKilled(i)
  <2>1. OrdersKept /\ i \in DOMAIN orders' /\ orders'[i].status = "canceled"
    BY <1>3, <1>9 DEF AcceptKilled
  <2>2. "canceled" \in Statuses /\ <<"live", "canceled">> \in Seq(Statuses)
        /\ \A k \in DOMAIN <<"live", "canceled">> :
             <<"live", "canceled">>[k] \in {"live", "canceled"}
    BY DEF Statuses
  <2>3. \A e \in replies' \ replies : EventOK(e)'
    BY <1>6, <1>9, <2>1, <2>2 DEF AcceptKilled
  <2>4. Emit(i, <<"live", "canceled">>) /\ traded' = traded
    BY <1>9 DEF AcceptKilled
  <2>5. QED
    BY <1>5, <2>1, <2>2, <2>3, <2>4
<1>10. CASE RefusePost(i)
  <2>1. OrdersKept /\ i \in DOMAIN orders' /\ orders'[i].status = "canceled"
    BY <1>3, <1>10 DEF RefusePost
  <2>2. replies' = replies \cup {About("newOrderError", {i}, "canceled")}
        /\ queue' = queue /\ traded' = traded
    BY <1>10 DEF RefusePost
  <2>3. EventOK(About("newOrderError", {i}, "canceled"))'
    BY <1>2, <2>1, NewEventOK DEF ReplyKinds, Statuses
  <2>4. QED
    BY <2>1, <2>2, <2>3, EventInvStep DEF InFlight
<1>11. CASE TradePartly(i)
  <2>1. OrdersKept /\ i \in DOMAIN orders' /\ orders'[i].status = "live"
    BY <1>4, <1>11 DEF TradePartly
  <2>2. <<"live">> \in Seq(Statuses) /\ \A k \in DOMAIN <<"live">> : <<"live">>[k] \in {"live"}
    BY DEF Statuses
  <2>3. Emit(i, <<"live">>) /\ traded' = traded \cup {i} /\ replies' = replies
    BY <1>11 DEF TradePartly
  <2>4. QED
    BY <1>5, <2>1, <2>2, <2>3
<1>12. CASE TradeFully(i)
  <2>1. OrdersKept /\ i \in DOMAIN orders' /\ orders'[i].status = "filled"
    BY <1>3, <1>12 DEF TradeFully
  <2>2. <<"filled">> \in Seq(Statuses) /\ \A k \in DOMAIN <<"filled">> : <<"filled">>[k] \in {"filled"}
    BY DEF Statuses
  <2>3. Emit(i, <<"filled">>) /\ traded' = traded \cup {i} /\ replies' = replies
    BY <1>12 DEF TradeFully
  <2>4. QED
    BY <1>5, <2>1, <2>2, <2>3
<1>13. CASE ExecuteCancel(i)
  <2>1. OrdersKept /\ i \in DOMAIN orders' /\ orders'[i].status = "canceled"
    BY <1>3, <1>13 DEF ExecuteCancel
  <2>2. <<"canceled">> \in Seq(Statuses)
        /\ \A k \in DOMAIN <<"canceled">> : <<"canceled">>[k] \in {"canceled"}
    BY DEF Statuses
  <2>3. Emit(i, <<"canceled">>) /\ traded' = traded
        /\ replies' \ replies \subseteq {About("cancel", {i}, "canceled")}
    BY <1>13 DEF ExecuteCancel
  <2>4. EventOK(About("cancel", {i}, "canceled"))'
    BY <1>2, <2>1, NewEventOK DEF ReplyKinds, Statuses
  <2>5. \A e \in replies' \ replies : EventOK(e)'
    BY <2>3, <2>4
  <2>6. QED
    BY <1>5, <2>1, <2>2, <2>3, <2>5
<1>14. CASE RefuseCancel(i)
  <2>1. UNCHANGED <<orders, traded, queue, replies>>
    BY <1>14 DEF RefuseCancel
  <2>2. QED
    BY <1>4, <2>1, EventInvStep DEF InFlight
<1>15. QED
  BY <1>1, <1>7, <1>8, <1>9, <1>10, <1>11, <1>12, <1>13, <1>14

(* submitOrder and cancelOrder keep the invariant of the events.           *)
LEMMA AlgorithmKeepsEvents ==
  ASSUME TypeOK, EventInv, Algorithm
  PROVE  EventInv' /\ OrdersKept
<1>1. ASSUME OrdersKept, UNCHANGED <<traded, replies, queue>>
      PROVE  EventInv'
  BY <1>1, EventInvStep DEF InFlight
<1>2. ASSUME NEW m \in Markets, NEW s \in Sides, NEW q \in Quotes, SubmitOrder(m, s, q)
      PROVE  EventInv' /\ OrdersKept
  <2>1. OrdersKept
    BY <1>2, SubmitEffect
  <2>2. UNCHANGED <<traded, replies, queue>>
    BY <1>2 DEF SubmitOrder, SubmitWith
  <2>3. QED
    BY <1>1, <2>1, <2>2
<1>3. ASSUME NEW i \in openOrders, CancelOrder(i)
      PROVE  EventInv' /\ OrdersKept
  <2>1. UNCHANGED <<orders, traded, replies, queue>>
    BY <1>3 DEF CancelOrder
  <2>2. OrdersKept
    BY <2>1 DEF OrdersKept
  <2>3. QED
    BY <1>1, <2>1, <2>2
<1>4. QED
  BY <1>2, <1>3 DEF Algorithm

(* An event that a handler posts is about orders the event it handles is   *)
(* about.                                                                  *)
LEMMA PostedOK ==
  ASSUME NEW e, EventOK(e), NEW kind \in LoopKinds, NEW status
  PROVE  EventOK(About(kind, e.ids, status))
BY DEF EventOK, About, LoopKinds

(* The handlers keep the invariant of the events.                          *)
LEMMA LoopKeepsEvents ==
  ASSUME TypeOK, EventInv, HandleEvent \/ \E r \in replies : HandleAnswer(r)
  PROVE  EventInv' /\ OrdersKept
<1>1. ASSUME NEW kind, NEW posted \in Seq(Event), Deliver(kind, posted),
             \A p \in Range(posted) : EventOK(p)
      PROVE  EventInv' /\ OrdersKept
  <2>1. /\ Range(queue) = {Head(queue)} \cup Range(Tail(queue))
        /\ Range(queue') = Range(Tail(queue)) \cup Range(posted)
        /\ UNCHANGED <<orders, traded, replies>>
    BY <1>1, DeliverEffect
  <2>2. OrdersKept
    BY <2>1 DEF OrdersKept
  <2>3. \A p \in Range(posted) : EventOK(p)'
    BY <1>1, <2>1 DEF EventOK, Single
  <2>4. QED
    BY <2>1, <2>2, <2>3, EventInvStep DEF InFlight
<1>2. ASSUME NEW r \in replies, NEW kind, NEW posted \in Seq(Event), Answer(r, kind, posted),
             \A p \in Range(posted) : EventOK(p)
      PROVE  EventInv' /\ OrdersKept
  <2>1. /\ replies' = replies \ {r}
        /\ Range(queue') = Range(queue) \cup Range(posted)
        /\ UNCHANGED <<orders, traded>>
    BY <1>2, AnswerEffect
  <2>2. OrdersKept
    BY <2>1 DEF OrdersKept
  <2>3. \A p \in Range(posted) : EventOK(p)'
    BY <1>2, <2>1 DEF EventOK, Single
  <2>4. QED
    BY <2>1, <2>2, <2>3, EventInvStep DEF InFlight
<1>3. <<>> \in Seq(Event) /\ \A p \in Range(<<>>) : EventOK(p)
  BY RangeOfEmpty
<1>4. ASSUME NEW e \in InFlight, NEW kind \in {"mergeOpen", "mergeHistory"},
             NEW status \in Statuses
      PROVE  /\ <<About(kind, e.ids, status)>> \in Seq(Event)
             /\ \A p \in Range(<<About(kind, e.ids, status)>>) : EventOK(p)
  <2>1. e \in Event
    <3>1. queue \in Seq(Event) /\ replies \subseteq Event
      BY DEF TypeOK
    <3>2. QED
      BY <3>1, RangeOfSeq DEF InFlight
  <2>2. About(kind, e.ids, status) \in Event
    BY <2>1, ReplyTypes DEF Event, LoopKinds
  <2>3. EventOK(About(kind, e.ids, status))
    BY PostedOK DEF EventInv, LoopKinds
  <2>4. QED
    BY <2>2, <2>3, RangeOfOne
<1>5. CASE HandleEvent
  <2> DEFINE e == Head(queue)
  <2>1. queue \in Seq(Event) /\ queue # <<>>
    BY <1>5 DEF HandleEvent, ReportLive, ReportFilled, ReportClosed, MergeOpenOrders,
                MergeTradeHistory, SkipLost, ReloadPrivateData, Deliver, TypeOK
  <2>2. e \in InFlight /\ e.status \in Statuses
    <3>1. e \in Event /\ e \in Range(queue)
      BY <2>1, RangeOfHeadTail
    <3>2. QED
      BY <3>1 DEF InFlight, Event
  <2>3. CASE ReportLive
    <3>1. Deliver("report", <<About("mergeOpen", e.ids, "live")>>) /\ "live" \in Statuses
      BY <2>3 DEF ReportLive, Statuses
    <3>2. QED
      BY <1>1, <1>4, <2>2, <3>1
  <2>4. CASE ReportFilled
    <3>1. Deliver("report", <<About("mergeHistory", e.ids, e.status)>>)
      BY <2>4 DEF ReportFilled
    <3>2. QED
      BY <1>1, <1>4, <2>2, <3>1
  <2>5. CASE ReportClosed
    BY <1>1, <1>3, <2>5 DEF ReportClosed
  <2>6. CASE MergeOpenOrders \/ MergeTradeHistory \/ SkipLost \/ ReloadPrivateData
    BY <1>1, <1>3, <2>6 DEF MergeOpenOrders, MergeTradeHistory, SkipLost, ReloadPrivateData
  <2>7. QED
    BY <1>5, <2>3, <2>4, <2>5, <2>6 DEF HandleEvent
<1>6. ASSUME NEW r \in replies, HandleAnswer(r)
      PROVE  EventInv' /\ OrdersKept
  <2>1. r \in InFlight /\ r.status \in Statuses /\ "live" \in Statuses
    BY DEF InFlight, TypeOK, Event, Statuses
  <2>2. CASE AnswerNewOrder(r) \/ AnswerNewOrderError(r) \/ AnswerCancel(r)
    BY <1>2, <1>3, <2>2 DEF AnswerNewOrder, AnswerNewOrderError, AnswerCancel
  <2>3. CASE AnswerOpenOrders(r)
    <3>1. \/ Answer(r, "openReply", <<>>)
          \/ Answer(r, "openReply", <<About("mergeOpen", r.ids, "live")>>)
      BY <2>3 DEF AnswerOpenOrders
    <3>2. QED
      BY <1>2, <1>3, <1>4, <2>1, <3>1
  <2>4. CASE AnswerTradeHistory(r)
    <3>1. \/ Answer(r, "historyReply", <<>>)
          \/ Answer(r, "historyReply", <<About("mergeHistory", r.ids, r.status)>>)
      BY <2>4 DEF AnswerTradeHistory
    <3>2. QED
      BY <1>2, <1>3, <1>4, <2>1, <3>1
  <2>5. QED
    BY <1>6, <2>2, <2>3, <2>4 DEF HandleAnswer
<1>7. QED
  BY <1>5, <1>6

(* Losing the stream and reloading keep the invariant of the events.       *)
LEMMA ReloadKeepsEvents ==
  ASSUME TypeOK, EventInv, Disconnect \/ Unblock \/ Connect \/ Reload
  PROVE  EventInv' /\ OrdersKept
<1>1. UNCHANGED <<orders, traded>>
  BY DEF Disconnect, Unblock, Connect, Reload, ReloadHistory, ReloadOpenOrders, SkipCall,
         exchangeVars
<1>2. OrdersKept
  BY <1>1 DEF OrdersKept
<1>3. CASE Disconnect
  <2>1. \A e \in Range(queue') : e \in Range(queue) \/ (e.ids = {} /\ e.kind \in LoopKinds)
    BY <1>3, DisconnectEffect
  <2>2. replies' = replies
    BY <1>3 DEF Disconnect
  <2>3. \A e \in InFlight' \ InFlight : EventOK(e)'
    BY <2>1, <2>2 DEF InFlight, EventOK, LoopKinds
  <2>4. QED
    BY <1>1, <1>2, <2>3, EventInvStep
<1>4. CASE Unblock \/ Connect \/ \E c \in todo : SkipCall(c)
  <2>1. UNCHANGED <<replies, queue>>
    BY <1>4 DEF Unblock, Connect, SkipCall
  <2>2. QED
    BY <1>1, <1>2, <2>1, EventInvStep DEF InFlight
<1>5. ASSUME NEW kind \in {"historyReply", "openReply"}, NEW ids, NEW status,
             replies' = replies \cup {About(kind, ids, status)}, queue' = queue,
             \A i \in ids : i \in DOMAIN orders /\ orders[i].status # "sent"
      PROVE  EventInv'
  <2>1. EventOK(About(kind, ids, status))'
    BY <1>1, <1>5 DEF EventOK, About
  <2>2. QED
    BY <1>1, <1>2, <1>5, <2>1, EventInvStep DEF InFlight
<1>6. ASSUME NEW m \in Markets, ReloadHistory(m)
      PROVE  EventInv'
  <2> DEFINE ids == {i \in traded : orders[i].market = m}
  <2>1. PICK status : replies' = replies \cup {About("historyReply", ids, status)}
    BY <1>6 DEF ReloadHistory
  <2>2. queue' = queue /\ \A i \in ids : i \in DOMAIN orders /\ orders[i].status # "sent"
    BY <1>6 DEF ReloadHistory, EventInv
  <2>3. QED
    BY <1>5, <2>1, <2>2
<1>7. ASSUME NEW m \in Markets, ReloadOpenOrders(m)
      PROVE  EventInv'
  <2> DEFINE ids == {i \in DOMAIN orders : orders[i].market = m /\ orders[i].status = "live"}
  <2>1. replies' = replies \cup {About("openReply", ids, "live")} /\ queue' = queue
    BY <1>7 DEF ReloadOpenOrders
  <2>2. \A i \in ids : i \in DOMAIN orders /\ orders[i].status # "sent"
    OBVIOUS
  <2>3. QED
    BY <1>5, <2>1, <2>2
<1>8. QED
  BY <1>2, <1>3, <1>4, <1>6, <1>7 DEF Reload

-----------------------------------------------------------------------------
(* Every step keeps the types, the events and the orders.                  *)

(* The bot starts with correct types and no events.                        *)
LEMMA InitInv == Init => TypeOK /\ EventInv
<1>1. SUFFICES ASSUME Init PROVE TypeOK /\ EventInv
  OBVIOUS
<1>2. <<>> \in Seq(Order) /\ <<>> \in Seq(Event) /\ Len(<<>>) = 0
  OBVIOUS
<1>3. TypeOK
  BY <1>1, <1>2, MaxOrdersAssumption, MaxReloadsAssumption DEF Init, TypeOK
<1>4. InFlight = {} /\ traded = {}
  BY <1>1, RangeOfEmpty DEF Init, InFlight
<1>5. QED
  BY <1>3, <1>4 DEF EventInv

(* Every step keeps the types and the events, and moves every order on.    *)
LEMMA NextInv ==
  ASSUME TypeOK, EventInv, [Next]_vars
  PROVE  TypeOK' /\ EventInv' /\ OrdersKept
<1>1. CASE Algorithm
  BY <1>1, AlgorithmTypes, AlgorithmKeepsEvents
<1>2. CASE Exchange
  BY <1>2, ExchangeTypes, ExchangeKeepsEvents
<1>3. CASE Loop
  BY <1>3, EventTypes, AnswerTypes, LoopKeepsEvents DEF Loop
<1>4. CASE Disconnect \/ Unblock \/ Connect \/ Reload
  BY <1>4, ReloadTypes, ReloadKeepsEvents
<1>5. CASE UNCHANGED vars
  <2>1. TypeOK'
    BY <1>5 DEF vars, exchangeVars, storageVars, streamVars, TypeOK
  <2>2. OrdersKept /\ UNCHANGED <<replies, queue, traded>>
    BY <1>5 DEF vars, exchangeVars, OrdersKept
  <2>3. QED
    BY <2>1, <2>2, EventInvStep DEF InFlight
<1>6. QED
  BY <1>1, <1>2, <1>3, <1>4, <1>5 DEF Next

(* The types and the invariant of the events hold always.                  *)
LEMMA EventsCorrect == Spec => [](TypeOK /\ EventInv)
<1>1. TypeOK /\ EventInv /\ [Next]_vars => (TypeOK /\ EventInv)'
  BY NextInv
<1>2. QED
  BY InitInv, <1>1, PTL DEF Spec

(* The values of the state stay in their types: in particular an order id  *)
(* in a record, a storage or an event is that of an order, whatever is     *)
(* lost, refused or answered late.                                         *)
THEOREM TypeCorrect == Spec => []TypeOK
BY EventsCorrect, PTL

-----------------------------------------------------------------------------
(* What a step may do to the table and to the orders on their way.         *)

Submits == \E m \in Markets, s \in Sides, q \in Quotes : SubmitOrder(m, s, q)

(* Records go that an answered order matches, by id or by quote ...        *)
Erases ==
  /\ tempOrders' \subseteq tempOrders
  /\ \A r \in tempOrders \ tempOrders' :
       \E i \in DOMAIN orders :
         orders[i].status # "sent" /\ (r.id = i \/ SameQuote(r, i))

(* ... or one record takes the id of an answered order with its quote ...  *)
Places ==
  \E i \in DOMAIN orders, r \in tempOrders :
    /\ SameQuote(r, i) /\ orders[i].status # "sent"
    /\ tempOrders' = (tempOrders \ {r}) \cup
         {[market |-> r.market, side |-> r.side, quote |-> r.quote, id |-> i]}

(* ... or the error handler erases a record without looking which.         *)
ErasesBlindly ==
  /\ tempOrders' \subseteq tempOrders
  /\ \E r \in replies : r.kind = "newOrderError"

SentKept ==
  /\ DOMAIN orders' = DOMAIN orders
  /\ \A i \in DOMAIN orders : orders'[i].status = "sent" => orders[i].status = "sent"

(* Every step does one of four things to the table: it adds a record for a *)
(* new order, erases a matching one, places an id, or erases blindly (the  *)
(* error handler of submitOrder).                                          *)
LEMMA TableSteps ==
  ASSUME TypeOK, EventInv, [Next]_vars
  PROVE  \/ Submits
         \/ SentKept /\ (Erases \/ Places \/ ErasesBlindly)
<1>1. ASSUME UNCHANGED orders
      PROVE  SentKept
  BY <1>1 DEF SentKept
<1>2. ASSUME UNCHANGED tempOrders
      PROVE  Erases
  BY <1>2 DEF Erases
<1>3. ASSUME NEW i \in DOMAIN orders, orders[i].status # "sent", NEW sameQuote,
             UpdateEraseOrder(i, sameQuote) \/ UpdateEraseOrderId(i)
      PROVE  Erases
  BY <1>3, EraseEffect DEF Erases
<1>4. CASE Algorithm
  <2>1. ASSUME NEW i \in openOrders, CancelOrder(i)
        PROVE  SentKept /\ Erases
    BY <1>1, <1>2, <2>1 DEF CancelOrder
  <2>2. QED
    BY <1>4, <2>1 DEF Algorithm, Submits
<1>5. CASE Exchange
  <2>1. UNCHANGED tempOrders
    BY <1>5 DEF Exchange, AcceptResting, AcceptFilled, AcceptKilled, RefusePost, TradePartly,
                TradeFully, ExecuteCancel, RefuseCancel, BotUnchanged
  <2>2. PICK i \in DOMAIN orders :
          \/ UNCHANGED orders
          \/ \E status \in {"live", "filled", "improved", "canceled"} :
               SetStatus(i, status) /\ orders[i].status \in {"sent", "live"}
    BY <1>5 DEF Exchange, AcceptResting, AcceptFilled, AcceptKilled, RefusePost, TradePartly,
                TradeFully, ExecuteCancel, RefuseCancel, FilledStatuses
  <2>3. ASSUME NEW status \in {"live", "filled", "improved", "canceled"},
               SetStatus(i, status), orders[i].status \in {"sent", "live"}
        PROVE  SentKept
    <3>1. status \in Statuses \ {"sent"}
      BY DEF Statuses
    <3>2. /\ DOMAIN orders' = DOMAIN orders /\ orders'[i].status = status
          /\ \A j \in DOMAIN orders \ {i} : orders'[j] = orders[j]
      BY <2>3, <3>1, SetStatusEffect
    <3>3. QED
      BY <3>1, <3>2 DEF SentKept
  <2>4. QED
    BY <1>1, <1>2, <2>1, <2>2, <2>3
<1>6. CASE HandleEvent
  <2> DEFINE e == Head(queue)
  <2>1. UNCHANGED orders
    BY <1>6 DEF HandleEvent, ReportLive, ReportFilled, ReportClosed, MergeOpenOrders,
                MergeTradeHistory, SkipLost, ReloadPrivateData, Deliver, exchangeVars
  <2>2. CASE ReportLive \/ ReportFilled
    <3>1. queue \in Seq(Event) /\ queue # <<>> /\ e.kind = "report"
      BY <2>2 DEF ReportLive, ReportFilled, Deliver, TypeOK
    <3>2. e \in Range(queue)
      BY <3>1, RangeOfHeadTail
    <3>3. EventOK(e) /\ Single(e)
      BY <3>1, <3>2 DEF EventInv, EventOK, InFlight
    <3>4. PICK i \in Ids : i = Subject(e) /\ e.ids = {i}
      BY <3>3, SubjectOfSingle
    <3>5. i \in DOMAIN orders /\ orders[i].status # "sent"
      BY <3>3, <3>4 DEF EventOK
    <3>6. UpdateEraseOrder(i, TRUE) \/ UpdateEraseOrder(i, e.status = "filled")
      BY <2>2, <3>4 DEF ReportLive, ReportFilled
    <3>7. QED
      BY <1>1, <1>3, <2>1, <3>5, <3>6
  <2>3. CASE ReportClosed \/ MergeOpenOrders \/ MergeTradeHistory \/ SkipLost
             \/ ReloadPrivateData
    BY <1>1, <1>2, <2>1, <2>3 DEF ReportClosed, MergeOpenOrders, MergeTradeHistory, SkipLost,
                                  ReloadPrivateData
  <2>4. QED
    BY <1>6, <2>2, <2>3 DEF HandleEvent
<1>7. ASSUME NEW r \in replies, HandleAnswer(r)
      PROVE  SentKept /\ (Erases \/ Places \/ ErasesBlindly)
  <2>1. UNCHANGED orders
    BY <1>7 DEF HandleAnswer, AnswerNewOrder, AnswerNewOrderError, AnswerCancel,
                AnswerOpenOrders, AnswerTradeHistory, Answer, exchangeVars
  <2>2. ASSUME Single(r)
        PROVE  \E i \in Ids : /\ i = Subject(r) /\ i \in DOMAIN orders
                              /\ orders[i].status # "sent"
    <3>1. PICK i \in Ids : i = Subject(r) /\ r.ids = {i}
      BY <2>2, SubjectOfSingle
    <3>2. EventOK(r)
      BY DEF EventInv, InFlight
    <3>3. QED
      BY <3>1, <3>2 DEF EventOK
  <2>3. r.kind \in {"newOrder", "cancel"} => Single(r)
    BY DEF EventInv, EventOK, InFlight
  <2>4. CASE AnswerNewOrder(r)
    <3>1. PICK i \in Ids : i = Subject(r) /\ i \in DOMAIN orders /\ orders[i].status # "sent"
      BY <2>2, <2>3, <2>4 DEF AnswerNewOrder, Answer
    <3>2. UpdateEraseOrder(i, TRUE) \/ UpdatePlaceOrder(i)
      BY <2>4, <3>1 DEF AnswerNewOrder
    <3>3. CASE UpdatePlaceOrder(i)
      <4>1. \/ tempOrders' = tempOrders
            \/ \E t \in tempOrders :
                 /\ SameQuote(t, i)
                 /\ tempOrders' = (tempOrders \ {t}) \cup
                      {[market |-> t.market, side |-> t.side, quote |-> t.quote, id |-> i]}
        BY <3>3, PlaceEffect
      <4>2. QED
        BY <1>1, <1>2, <2>1, <3>1, <4>1 DEF Places
    <3>4. QED
      BY <1>1, <1>3, <2>1, <3>1, <3>2, <3>3
  <2>5. CASE AnswerNewOrderError(r)
    <3>1. tempOrders' \subseteq tempOrders /\ r.kind = "newOrderError"
      BY <2>5 DEF AnswerNewOrderError, Answer
    <3>2. QED
      BY <1>1, <2>1, <3>1 DEF ErasesBlindly
  <2>6. CASE AnswerCancel(r)
    <3>1. PICK i \in Ids : i = Subject(r) /\ i \in DOMAIN orders /\ orders[i].status # "sent"
      BY <2>2, <2>3, <2>6 DEF AnswerCancel, Answer
    <3>2. UpdateEraseOrderId(i)
      BY <2>6, <3>1 DEF AnswerCancel
    <3>3. QED
      BY <1>1, <1>3, <2>1, <3>1, <3>2
  <2>7. CASE AnswerOpenOrders(r) \/ AnswerTradeHistory(r)
    <3>1. CASE ~Single(r)
      BY <1>1, <1>2, <2>1, <2>7, <3>1 DEF AnswerOpenOrders, AnswerTradeHistory
    <3>2. CASE Single(r)
      <4>1. PICK i \in Ids : i = Subject(r) /\ i \in DOMAIN orders /\ orders[i].status # "sent"
        BY <2>2, <3>2
      <4>2. UpdateEraseOrder(i, TRUE) \/ UpdateEraseOrder(i, r.status = "filled")
        BY <2>7, <3>2, <4>1 DEF AnswerOpenOrders, AnswerTradeHistory
      <4>3. QED
        BY <1>1, <1>3, <2>1, <4>1, <4>2
    <3>3. QED
      BY <3>1, <3>2
  <2>8. QED
    BY <1>7, <2>4, <2>5, <2>6, <2>7 DEF HandleAnswer
<1>8. CASE Disconnect \/ Unblock \/ Connect \/ Reload \/ UNCHANGED vars
  BY <1>1, <1>2, <1>8 DEF Disconnect, Unblock, Connect, Reload, ReloadHistory, ReloadOpenOrders,
                          SkipCall, exchangeVars, vars
<1>9. QED
  BY <1>4, <1>5, <1>6, <1>7, <1>8 DEF Next, Loop

-----------------------------------------------------------------------------
(* One record of a type on a pair.                                         *)

(* Every step leaves at most one record of a type on a pair.               *)
LEMMA OneRecordStep ==
  ASSUME TypeOK, EventInv, OneRecordPerSide, [Next]_vars
  PROVE  OneRecordPerSide'
<1>1. CASE Submits
  <2>1. PICK m \in Markets, s \in Sides, q \in Quotes : SubmitOrder(m, s, q)
    BY <1>1 DEF Submits
  <2>2. /\ \A r \in tempOrders : r.market # m \/ r.side # s
        /\ tempOrders' = tempOrders \cup {[market |-> m, side |-> s, quote |-> q, id |-> NoId]}
    BY <2>1 DEF SubmitOrder, SubmitWith
  <2>3. QED
    BY <2>2 DEF OneRecordPerSide
<1>2. CASE Erases \/ ErasesBlindly
  BY <1>2 DEF Erases, ErasesBlindly, OneRecordPerSide
<1>3. CASE Places
  BY <1>3 DEF Places, OneRecordPerSide
<1>4. QED
  BY <1>1, <1>2, <1>3, TableSteps

(* The table never holds two records of one type on one pair, under every  *)
(* loss, refusal, timeout and late answer (submitOrder, updatePlaceOrder). *)
THEOREM OneRecordPerSideHolds == Spec => []OneRecordPerSide
<1>1. Init => OneRecordPerSide
  BY DEF Init, OneRecordPerSide
<1>2. TypeOK /\ EventInv /\ OneRecordPerSide /\ [Next]_vars => OneRecordPerSide'
  BY OneRecordStep
<1>3. QED
  BY <1>1, <1>2, EventsCorrect, PTL DEF Spec

-----------------------------------------------------------------------------
(* With quotes that tell the orders of a pair apart, and no answer that is *)
(* an error, no record is taken for that of another order.                 *)

TellingQuotes == ~QuoteReuse /\ Faults \cap {"refused", "timeout"} = {}

DistinctQuotes ==
  \A i, j \in DOMAIN orders :
    orders[i].market = orders[j].market /\ orders[i].quote = orders[j].quote => i = j

RecordIds ==
  \A r \in tempOrders : r.id # NoId => r.id \in DOMAIN orders /\ SameQuote(r, r.id)

NoErrors == \A r \in replies : r.kind # "newOrderError"

MatchInv == DistinctQuotes /\ RecordIds /\ NoErrors /\ SentOrderHasRecord

(* Without faults of the POST no error handler of submitOrder ever runs.   *)
LEMMA NoErrorsStep ==
  ASSUME TellingQuotes, TypeOK, NoErrors, [Next]_vars
  PROVE  NoErrors'
<1>1. CASE Algorithm \/ Disconnect \/ Unblock \/ Connect \/ HandleEvent \/ UNCHANGED vars
  <2>1. replies' = replies
    BY <1>1 DEF Algorithm, SubmitOrder, SubmitWith, CancelOrder, Disconnect, Unblock, Connect,
                HandleEvent, ReportLive, ReportFilled, ReportClosed, MergeOpenOrders,
                MergeTradeHistory, SkipLost, ReloadPrivateData, Deliver, vars
  <2>2. QED
    BY <2>1 DEF NoErrors
<1>2. CASE Exchange
  <2>1. "refused" \notin Faults /\ "timeout" \notin Faults
    BY DEF TellingQuotes
  <2>2. PICK i \in DOMAIN orders :
          \/ replies' = replies
          \/ \E status : AnswerPost(i, status)
          \/ replies' = replies \cup {About("cancel", {i}, "canceled")}
    BY <1>2, <2>1 DEF Exchange, AcceptResting, AcceptFilled, AcceptKilled, RefusePost,
                      TradePartly, TradeFully, ExecuteCancel, RefuseCancel, TellingQuotes
  <2>3. PICK kind, status :
          /\ kind \in {"newOrder", "cancel"}
          /\ replies' \subseteq replies \cup {About(kind, {i}, status)}
    BY <2>1, <2>2 DEF AnswerPost
  <2>4. About(kind, {i}, status).kind = kind
    BY DEF About
  <2>5. QED
    BY <2>3, <2>4 DEF NoErrors
<1>3. ASSUME NEW r \in replies, HandleAnswer(r)
      PROVE  NoErrors'
  <2>1. replies' \subseteq replies
    BY <1>3 DEF HandleAnswer, AnswerNewOrder, AnswerNewOrderError, AnswerCancel,
                AnswerOpenOrders, AnswerTradeHistory, Answer
  <2>2. QED
    BY <2>1 DEF NoErrors
<1>4. CASE Reload
  <2>1. PICK ids, status :
          replies' \subseteq replies \cup {About("historyReply", ids, status),
                                          About("openReply", ids, status)}
    <3>1. CASE \E m \in Markets : ReloadHistory(m)
      BY <3>1 DEF ReloadHistory
    <3>2. CASE \E m \in Markets : ReloadOpenOrders(m)
      BY <3>2 DEF ReloadOpenOrders
    <3>3. CASE \E c \in todo : SkipCall(c)
      BY <3>3 DEF SkipCall
    <3>4. QED
      BY <1>4, <3>1, <3>2, <3>3 DEF Reload
  <2>2. /\ About("historyReply", ids, status).kind = "historyReply"
        /\ About("openReply", ids, status).kind = "openReply"
    BY DEF About
  <2>3. QED
    BY <2>1, <2>2 DEF NoErrors
<1>5. QED
  BY <1>1, <1>2, <1>3, <1>4 DEF Next, Loop

(* Submitting keeps the records matched to the orders under way.           *)
LEMMA MatchSubmitStep ==
  ASSUME TellingQuotes, TypeOK, MatchInv, Submits
  PROVE  DistinctQuotes' /\ RecordIds' /\ SentOrderHasRecord'
<1>1. PICK m \in Markets, s \in Sides, q \in Quotes : SubmitOrder(m, s, q)
  BY DEF Submits
<1> DEFINE new == [market |-> m, side |-> s, quote |-> q, id |-> NoId]
<1>2. FreshQuote(m, q) /\ tempOrders' = tempOrders \cup {new}
  BY <1>1 DEF SubmitOrder, SubmitWith, TellingQuotes
<1>3. /\ OrdersKept
      /\ \/ orders' = orders
         \/ /\ DOMAIN orders' = DOMAIN orders \cup {Len(orders')}
            /\ orders'[Len(orders')] =
                 [market |-> m, side |-> s, quote |-> q, status |-> "sent"]
            /\ \A j \in DOMAIN orders : orders'[j] = orders[j]
  BY <1>1, SubmitEffect
<1>4. DistinctQuotes'
  BY <1>2, <1>3 DEF MatchInv, DistinctQuotes, FreshQuote
<1>5. RecordIds'
  <2>1. \A r \in tempOrders : r.id # NoId => r.id \in DOMAIN orders' /\ SameQuote(r, r.id)'
    BY <1>3 DEF MatchInv, RecordIds, SameQuote, OrdersKept
  <2>2. QED
    BY <1>2, <2>1 DEF RecordIds
<1>6. SentOrderHasRecord'
  <2>1. ASSUME NEW i \in DOMAIN orders, orders'[i].status = "sent"
        PROVE  \E r \in tempOrders' : SameQuote(r, i)' /\ r.side = orders'[i].side
    <3>1. orders[i].status = "sent" /\ orders'[i] = orders[i]
      BY <1>3, <2>1
    <3>2. PICK r \in tempOrders : SameQuote(r, i) /\ r.side = orders[i].side
      BY <3>1 DEF MatchInv, SentOrderHasRecord
    <3>3. QED
      BY <1>2, <3>1, <3>2 DEF SameQuote
  <2>2. ASSUME NEW i \in DOMAIN orders' \ DOMAIN orders
        PROVE  \E r \in tempOrders' : SameQuote(r, i)' /\ r.side = orders'[i].side
    <3>1. orders'[i] = [market |-> m, side |-> s, quote |-> q, status |-> "sent"]
      BY <1>3
    <3>2. SameQuote(new, i)' /\ new.side = orders'[i].side
      BY <3>1 DEF SameQuote
    <3>3. QED
      BY <1>2, <3>2
  <2>3. QED
    BY <2>1, <2>2 DEF SentOrderHasRecord
<1>7. QED
  BY <1>4, <1>5, <1>6

(* Erasing and placing keep them matched: the quote tells the orders       *)
(* apart.                                                                  *)
LEMMA MatchOtherStep ==
  ASSUME TypeOK, MatchInv, SentKept, OrdersKept, Erases \/ Places
  PROVE  DistinctQuotes' /\ RecordIds' /\ SentOrderHasRecord'
<1>1. ASSUME NEW r, NEW i \in DOMAIN orders
      PROVE  SameQuote(r, i)' <=> SameQuote(r, i)
  BY DEF SameQuote, OrdersKept
<1>2. DistinctQuotes'
  BY DEF SentKept, OrdersKept, MatchInv, DistinctQuotes
<1>3. CASE Erases
  <2>1. RecordIds'
    BY <1>1, <1>3 DEF Erases, MatchInv, RecordIds, SentKept
  <2>2. ASSUME NEW i \in DOMAIN orders, orders'[i].status = "sent"
        PROVE  \E r \in tempOrders' : SameQuote(r, i)' /\ r.side = orders'[i].side
    <3>1. orders[i].status = "sent" /\ orders'[i].side = orders[i].side
      BY <2>2 DEF SentKept, OrdersKept
    <3>2. PICK r \in tempOrders : SameQuote(r, i) /\ r.side = orders[i].side
      BY <3>1 DEF MatchInv, SentOrderHasRecord
    <3>3. r \in tempOrders'
      <4>1. SUFFICES ASSUME r \notin tempOrders' PROVE FALSE
        OBVIOUS
      <4>2. PICK j \in DOMAIN orders :
              orders[j].status # "sent" /\ (r.id = j \/ SameQuote(r, j))
        BY <1>3, <4>1 DEF Erases
      <4>3. r.id = j => r.id # NoId
        BY IdsOfOrders DEF Ids, NoId
      <4>4. SameQuote(r, j)
        BY <4>2, <4>3 DEF MatchInv, RecordIds
      <4>5. i = j
        BY <3>2, <4>4 DEF MatchInv, DistinctQuotes, SameQuote
      <4>6. QED
        BY <3>1, <4>2, <4>5
    <3>4. QED
      BY <1>1, <3>1, <3>2, <3>3
  <2>3. QED
    BY <1>2, <2>1, <2>2 DEF SentOrderHasRecord, SentKept
<1>4. CASE Places
  <2>1. PICK i \in DOMAIN orders, r \in tempOrders :
          /\ SameQuote(r, i)
          /\ tempOrders' = (tempOrders \ {r}) \cup
               {[market |-> r.market, side |-> r.side, quote |-> r.quote, id |-> i]}
    BY <1>4 DEF Places
  <2> DEFINE new == [market |-> r.market, side |-> r.side, quote |-> r.quote, id |-> i]
  <2>2. \A j \in DOMAIN orders : SameQuote(new, j) <=> SameQuote(r, j)
    BY DEF SameQuote
  <2>3. RecordIds'
    <3>1. \A t \in tempOrders : t.id # NoId => t.id \in DOMAIN orders' /\ SameQuote(t, t.id)'
      BY <1>1 DEF MatchInv, RecordIds, SentKept
    <3>2. new.id \in DOMAIN orders' /\ SameQuote(new, new.id)'
      BY <1>1, <2>1, <2>2 DEF SentKept
    <3>3. QED
      BY <2>1, <3>1, <3>2 DEF RecordIds
  <2>4. ASSUME NEW j \in DOMAIN orders, orders'[j].status = "sent"
        PROVE  \E t \in tempOrders' : SameQuote(t, j)' /\ t.side = orders'[j].side
    <3>1. orders[j].status = "sent" /\ orders'[j].side = orders[j].side
      BY <2>4 DEF SentKept, OrdersKept
    <3>2. PICK t \in tempOrders : SameQuote(t, j) /\ t.side = orders[j].side
      BY <3>1 DEF MatchInv, SentOrderHasRecord
    <3>3. CASE t # r
      BY <1>1, <2>1, <3>1, <3>2, <3>3
    <3>4. CASE t = r
      <4>1. SameQuote(new, j)' /\ new.side = orders'[j].side /\ new \in tempOrders'
        BY <1>1, <2>1, <2>2, <3>1, <3>2, <3>4
      <4>2. QED
        BY <4>1
    <3>5. QED
      BY <3>3, <3>4
  <2>5. QED
    BY <1>2, <2>3, <2>4 DEF SentOrderHasRecord, SentKept
<1>5. QED
  BY <1>3, <1>4

(* The records match the orders under way always.                          *)
LEMMA MatchCorrect ==
  ASSUME TellingQuotes
  PROVE  Spec => []MatchInv
<1>1. Init => MatchInv
  BY DEF Init, MatchInv, DistinctQuotes, RecordIds, NoErrors, SentOrderHasRecord
<1>2. TypeOK /\ EventInv /\ MatchInv /\ [Next]_vars => MatchInv'
  <2>1. SUFFICES ASSUME TypeOK, EventInv, MatchInv, [Next]_vars PROVE MatchInv'
    OBVIOUS
  <2>2. NoErrors'
    BY <2>1, NoErrorsStep DEF MatchInv
  <2>3. CASE Submits
    BY <2>1, <2>2, <2>3, MatchSubmitStep DEF MatchInv
  <2>4. CASE SentKept /\ (Erases \/ Places)
    <3>1. OrdersKept
      BY <2>1, NextInv
    <3>2. DistinctQuotes' /\ RecordIds' /\ SentOrderHasRecord'
      BY <2>1, <2>4, <3>1, MatchOtherStep
    <3>3. QED
      BY <2>2, <3>2 DEF MatchInv
  <2>5. ~ErasesBlindly
    BY <2>1 DEF ErasesBlindly, MatchInv, NoErrors
  <2>6. QED
    BY <2>1, <2>3, <2>4, <2>5, TableSteps
<1>3. QED
  BY <1>1, <1>2, EventsCorrect, PTL DEF Spec

(* An order on its way to the exchange has its record: no late answer and  *)
(* no report about another order has erased it (updateEraseOrder).         *)
THEOREM SentOrderHasRecordHolds ==
  ASSUME TellingQuotes
  PROVE  Spec => []SentOrderHasRecord
<1>1. MatchInv => SentOrderHasRecord
  BY DEF MatchInv
<1>2. QED
  BY <1>1, MatchCorrect, PTL

(* Two orders of one type on one pair are never on their way at once       *)
(* (TemporaryOrdersTable::submitOrder).                                    *)
THEOREM OnePostInFlightHolds ==
  ASSUME TellingQuotes
  PROVE  Spec => []OnePostInFlight
<1>1. OneRecordPerSide /\ MatchInv => OnePostInFlight
  <2>1. SUFFICES ASSUME OneRecordPerSide, MatchInv,
                        NEW i \in DOMAIN orders, NEW j \in DOMAIN orders,
                        orders[i].status = "sent", orders[j].status = "sent",
                        OnPair(i, orders[j].market, orders[j].side)
                 PROVE  i = j
    BY DEF OnePostInFlight
  <2>2. PICK r1 \in tempOrders : SameQuote(r1, i) /\ r1.side = orders[i].side
    BY <2>1 DEF MatchInv, SentOrderHasRecord
  <2>3. PICK r2 \in tempOrders : SameQuote(r2, j) /\ r2.side = orders[j].side
    BY <2>1 DEF MatchInv, SentOrderHasRecord
  <2>4. r1 = r2
    BY <2>1, <2>2, <2>3 DEF OneRecordPerSide, OnPair, SameQuote
  <2>5. QED
    BY <2>1, <2>2, <2>3, <2>4 DEF MatchInv, DistinctQuotes, SameQuote
<1>2. QED
  BY <1>1, MatchCorrect, OneRecordPerSideHolds, PTL

-----------------------------------------------------------------------------
(* What the exchange holds and has executed is known, or on its way.       *)

LiveNews(e) ==
  \/ e.kind = "report" /\ e.status = "live"
  \/ e.kind \in {"openReply", "mergeOpen"}

FillNews(e) ==
  \/ e.kind = "report" /\ e.status \in FilledStatuses
  \/ e.kind \in {"historyReply", "mergeHistory"}

LiveKnown(i) == i \in openOrders \cup missed \/ \E e \in InFlight : i \in e.ids /\ LiveNews(e)
FillKnown(i) == i \in history \cup missed \/ \E e \in InFlight : i \in e.ids /\ FillNews(e)

(* The two properties, order by order.                                     *)
LEMMA KnownDefs ==
  /\ LiveOrderKnown <=> \A i \in DOMAIN orders : orders[i].status = "live" => LiveKnown(i)
  /\ FillRecorded <=>
       \A i \in DOMAIN orders : orders[i].status \in FilledStatuses => FillKnown(i)
BY DEF LiveOrderKnown, FillRecorded, LiveKnown, FillKnown, LiveNews, FillNews

(* A step of the exchange takes no news away and brings those of the order *)
(* it changes.                                                             *)
LEMMA ExchangeTells ==
  ASSUME TypeOK, EventInv, Exchange
  PROVE  /\ InFlight \subseteq InFlight' /\ missed \subseteq missed'
         /\ openOrders' = openOrders /\ history' = history
         /\ \A i \in DOMAIN orders' :
              \/ i \in DOMAIN orders /\ orders'[i] = orders[i]
              \/ orders'[i].status = "live" /\ LiveKnown(i)'
              \/ orders'[i].status \in FilledStatuses /\ FillKnown(i)'
              \/ orders'[i].status = "canceled"
<1>1. PICK i \in DOMAIN orders :
        \/ AcceptResting(i)
        \/ \E status \in FilledStatuses : AcceptFilled(i, status)
        \/ AcceptKilled(i)
        \/ RefusePost(i)
        \/ TradePartly(i)
        \/ TradeFully(i)
        \/ ExecuteCancel(i)
        \/ RefuseCancel(i)
  BY DEF Exchange
<1>2. /\ replies \subseteq replies' /\ openOrders' = openOrders /\ history' = history
  BY <1>1 DEF AcceptResting, AcceptFilled, AcceptKilled, RefusePost, TradePartly, TradeFully,
              ExecuteCancel, RefuseCancel, AnswerPost, BotUnchanged, storageVars
<1>3. i \in Ids
  BY IdsOfOrders
<1>4. ASSUME NEW statuses \in Seq(Statuses), Emit(i, statuses)
      PROVE  /\ Range(queue) \subseteq Range(queue') /\ missed \subseteq missed'
             /\ \A k \in DOMAIN statuses :
                  i \in missed' \/ About("report", {i}, statuses[k]) \in Range(queue')
  BY <1>3, <1>4, EmitEffect DEF Report
<1>5. ASSUME NEW status \in Statuses \ {"sent"}, SetStatus(i, status),
             orders[i].status \in {"sent", "live"}
      PROVE  /\ orders'[i].status = status
             /\ \A j \in DOMAIN orders' : j = i \/ (j \in DOMAIN orders /\ orders'[j] = orders[j])
  BY <1>5, SetStatusEffect
<1>6. ASSUME NEW status \in {"live", "filled", "improved"},
             i \in missed' \/ About("report", {i}, status) \in Range(queue')
      PROVE  /\ status = "live" => LiveKnown(i)'
             /\ status \in FilledStatuses => FillKnown(i)'
  BY <1>6 DEF LiveKnown, FillKnown, LiveNews, FillNews, FilledStatuses, About, InFlight
<1>7. CASE AcceptResting(i)
  <2>1. /\ <<"live">> \in Seq(Statuses) /\ "live" \in Statuses \ {"sent"}
        /\ 1 \in DOMAIN <<"live">> /\ <<"live">>[1] = "live"
    BY DEF Statuses
  <2>2. i \in missed' \/ About("report", {i}, "live") \in Range(queue')
    BY <1>4, <1>7, <2>1 DEF AcceptResting
  <2>3. Range(queue) \subseteq Range(queue') /\ missed \subseteq missed'
    BY <1>4, <1>7, <2>1 DEF AcceptResting
  <2>4. QED
    BY <1>2, <1>5, <1>6, <1>7, <2>1, <2>2, <2>3 DEF AcceptResting, InFlight
<1>8. ASSUME NEW status \in FilledStatuses, AcceptFilled(i, status)
      PROVE  /\ Range(queue) \subseteq Range(queue') /\ missed \subseteq missed'
             /\ orders'[i].status = status /\ FillKnown(i)'
             /\ \A j \in DOMAIN orders' : j = i \/ (j \in DOMAIN orders /\ orders'[j] = orders[j])
  <2>1. /\ <<"live", status>> \in Seq(Statuses) /\ status \in Statuses \ {"sent"}
        /\ 2 \in DOMAIN <<"live", status>> /\ <<"live", status>>[2] = status
    BY DEF Statuses, FilledStatuses
  <2>2. i \in missed' \/ About("report", {i}, status) \in Range(queue')
    BY <1>4, <1>8, <2>1 DEF AcceptFilled
  <2>3. Range(queue) \subseteq Range(queue') /\ missed \subseteq missed'
    BY <1>4, <1>8, <2>1 DEF AcceptFilled
  <2>4. FillKnown(i)'
    BY <1>6, <2>2 DEF FilledStatuses
  <2>5. QED
    BY <1>5, <1>8, <2>1, <2>3, <2>4 DEF AcceptFilled
<1>9. CASE TradeFully(i)
  <2>1. /\ <<"filled">> \in Seq(Statuses) /\ "filled" \in Statuses \ {"sent"}
        /\ 1 \in DOMAIN <<"filled">> /\ <<"filled">>[1] = "filled"
    BY DEF Statuses
  <2>2. i \in missed' \/ About("report", {i}, "filled") \in Range(queue')
    BY <1>4, <1>9, <2>1 DEF TradeFully
  <2>3. Range(queue) \subseteq Range(queue') /\ missed \subseteq missed'
    BY <1>4, <1>9, <2>1 DEF TradeFully
  <2>4. FillKnown(i)'
    BY <1>6, <2>2 DEF FilledStatuses
  <2>5. QED
    BY <1>2, <1>5, <1>9, <2>1, <2>3, <2>4 DEF TradeFully, FilledStatuses, InFlight
<1>10. CASE AcceptKilled(i) \/ ExecuteCancel(i)
  <2>1. /\ <<"live", "canceled">> \in Seq(Statuses) /\ <<"canceled">> \in Seq(Statuses)
        /\ "canceled" \in Statuses \ {"sent"}
    BY DEF Statuses
  <2>2. Range(queue) \subseteq Range(queue') /\ missed \subseteq missed'
    BY <1>4, <1>10, <2>1 DEF AcceptKilled, ExecuteCancel
  <2>3. QED
    BY <1>2, <1>5, <1>10, <2>1, <2>2 DEF AcceptKilled, ExecuteCancel, InFlight
<1>11. CASE RefusePost(i)
  <2>1. "canceled" \in Statuses \ {"sent"}
    BY DEF Statuses
  <2>2. QED
    BY <1>2, <1>5, <1>11, <2>1 DEF RefusePost, InFlight
<1>12. CASE TradePartly(i)
  <2>1. <<"live">> \in Seq(Statuses)
    BY DEF Statuses
  <2>2. Range(queue) \subseteq Range(queue') /\ missed \subseteq missed'
    BY <1>4, <1>12, <2>1 DEF TradePartly
  <2>3. QED
    BY <1>2, <1>12, <2>2 DEF TradePartly, InFlight
<1>13. CASE RefuseCancel(i)
  BY <1>2, <1>13 DEF RefuseCancel, InFlight
<1>14. QED
  BY <1>1, <1>2, <1>7, <1>8, <1>9, <1>10, <1>11, <1>12, <1>13 DEF InFlight

(* A step of the bot or of the channels keeps the news of a live order ... *)
Elsewhere == HandleEvent \/ (\E r \in replies : HandleAnswer(r))
               \/ Disconnect \/ Unblock \/ Connect \/ Reload \/ UNCHANGED vars

(* What happens inside the bot leaves the orders at the exchange alone.    *)
LEMMA LoopOrders ==
  ASSUME Elsewhere
  PROVE  UNCHANGED orders
BY DEF Elsewhere, HandleEvent, ReportLive, ReportFilled, ReportClosed, MergeOpenOrders,
       MergeTradeHistory, SkipLost, ReloadPrivateData, Deliver, HandleAnswer, AnswerNewOrder,
       AnswerNewOrderError, AnswerCancel, AnswerOpenOrders, AnswerTradeHistory, Answer,
       Disconnect, Unblock, Connect, Reload, ReloadHistory, ReloadOpenOrders, SkipCall,
       exchangeVars, vars

(* ... and of an executed one: whoever takes a piece of news out of the    *)
(* queue passes it on, and nothing is removed but orders that are closed.  *)
NewsKept ==
  \A i \in DOMAIN orders :
    /\ orders[i].status = "live" /\ LiveKnown(i) => LiveKnown(i)'
    /\ orders[i].status \in FilledStatuses /\ FillKnown(i) => FillKnown(i)'

(* A step keeps the news of an order when it keeps those in the storages   *)
(* and those under way.                                                    *)
LEMMA NewsKeptIf ==
  ASSUME \A i \in DOMAIN orders : orders[i].status = "live" =>
           /\ i \in openOrders \cup missed => LiveKnown(i)'
           /\ \A x \in InFlight : i \in x.ids /\ LiveNews(x) => LiveKnown(i)',
         \A i \in DOMAIN orders : orders[i].status \in FilledStatuses =>
           /\ i \in history \cup missed => FillKnown(i)'
           /\ \A x \in InFlight : i \in x.ids /\ FillNews(x) => FillKnown(i)'
  PROVE  NewsKept
BY DEF NewsKept, LiveKnown, FillKnown

(* News under way after a step are news the bot has.                       *)
LEMMA NewsIsNews ==
  ASSUME NEW x, NEW i, i \in x.ids, x \in InFlight'
  PROVE  /\ LiveNews(x) => LiveKnown(i)'
         /\ FillNews(x) => FillKnown(i)'
BY DEF LiveKnown, FillKnown, LiveNews, FillNews

(* The handlers of the stream and the merges lose no news.                 *)
LEMMA EventsKeepNews ==
  ASSUME TypeOK, EventInv, HandleEvent
  PROVE  NewsKept
<1> DEFINE e == Head(queue)
<1>1. queue # <<>> /\ queue \in Seq(Event) /\ e \in InFlight
  <2>1. queue # <<>> /\ queue \in Seq(Event)
    BY DEF HandleEvent, ReportLive, ReportFilled, ReportClosed, MergeOpenOrders,
           MergeTradeHistory, SkipLost, ReloadPrivateData, Deliver, TypeOK
  <2>2. e \in Range(queue)
    BY <2>1, RangeOfHeadTail
  <2>3. QED
    BY <2>1, <2>2 DEF InFlight
<1>2. EventOK(e) /\ e.ids \in SUBSET Ids /\ e.status \in Statuses
  <2>1. e \in Event
    BY <1>1
  <2>2. QED
    BY <1>1, <2>1 DEF EventInv, Event
<1>3. ASSUME NEW kind, NEW posted \in Seq(Event), Deliver(kind, posted)
      PROVE  /\ e.kind = kind
             /\ \A x \in InFlight : x = e \/ x \in InFlight'
             /\ Range(posted) \subseteq InFlight'
  <2>1. /\ Range(queue) = {e} \cup Range(Tail(queue))
        /\ Range(queue') = Range(Tail(queue)) \cup Range(posted)
        /\ UNCHANGED replies /\ e.kind = kind
    BY <1>3, DeliverEffect
  <2>2. QED
    BY <2>1 DEF InFlight
<1>4. ASSUME NEW x \in InFlight', NEW i \in x.ids
      PROVE  (LiveNews(x) => LiveKnown(i)') /\ (FillNews(x) => FillKnown(i)')
  BY <1>4, NewsIsNews
<1>5. ASSUME NEW kind \in {"mergeOpen", "mergeHistory"}, NEW status \in Statuses,
             NEW deliver, Deliver(deliver, <<About(kind, e.ids, status)>>)
      PROVE  /\ e.kind = deliver
             /\ \A x \in InFlight : x = e \/ x \in InFlight'
             /\ kind = "mergeOpen" => \A i \in e.ids : LiveKnown(i)'
             /\ kind = "mergeHistory" => \A i \in e.ids : FillKnown(i)'
  <2> DEFINE p == About(kind, e.ids, status)
  <2>1. p \in Event /\ p.kind = kind /\ p.ids = e.ids
    BY <1>2, ReplyTypes DEF About, LoopKinds
  <2>2. <<p>> \in Seq(Event) /\ Range(<<p>>) = {p}
    BY <2>1, RangeOfOne
  <2>3. p \in InFlight' /\ e.kind = deliver /\ \A x \in InFlight : x = e \/ x \in InFlight'
    BY <1>3, <1>5, <2>2
  <2>4. (kind = "mergeOpen" => LiveNews(p)) /\ (kind = "mergeHistory" => FillNews(p))
    BY <2>1 DEF LiveNews, FillNews
  <2>5. QED
    BY <1>4, <2>1, <2>3, <2>4
<1>6. ASSUME NEW kind, Deliver(kind, <<>>)
      PROVE  e.kind = kind /\ \A x \in InFlight : x = e \/ x \in InFlight'
  <2>1. <<>> \in Seq(Event)
    OBVIOUS
  <2>2. QED
    BY <1>3, <1>6, <2>1
<1>7. ASSUME NEW i
      PROVE  /\ i \in (openOrders \cup missed)' => LiveKnown(i)'
             /\ i \in (history \cup missed)' => FillKnown(i)'
  BY DEF LiveKnown, FillKnown
<1>8. CASE ReportLive
  <2>1. /\ Deliver("report", <<About("mergeOpen", e.ids, "live")>>) /\ e.status = "live"
        /\ UNCHANGED <<openOrders, history, missed>> /\ "live" \in Statuses
    BY <1>8 DEF ReportLive, storageVars, streamVars, Statuses
  <2>2. /\ e.kind = "report" /\ \A x \in InFlight : x = e \/ x \in InFlight'
        /\ \A i \in e.ids : LiveKnown(i)'
    BY <1>5, <2>1
  <2>3. ~FillNews(e)
    BY <2>1, <2>2 DEF FillNews, FilledStatuses
  <2>4. QED
    BY <1>4, <1>7, <2>1, <2>2, <2>3, NewsKeptIf
<1>9. CASE ReportFilled
  <2>1. /\ Deliver("report", <<About("mergeHistory", e.ids, e.status)>>)
        /\ e.status \in FilledStatuses /\ openOrders' = openOrders \ e.ids
        /\ UNCHANGED <<history, missed>>
    BY <1>9 DEF ReportFilled, streamVars
  <2>2. /\ e.kind = "report" /\ \A x \in InFlight : x = e \/ x \in InFlight'
        /\ \A i \in e.ids : FillKnown(i)'
    BY <1>2, <1>5, <2>1
  <2>3. \A i \in e.ids : orders[i].status # "live"
    BY <1>2, <2>1, <2>2 DEF EventOK, FilledStatuses
  <2>4. QED
    BY <1>4, <1>7, <2>1, <2>2, <2>3, NewsKeptIf
<1>10. CASE ReportClosed
  <2>1. /\ Deliver("report", <<>>) /\ e.status = "canceled"
        /\ openOrders' = openOrders \ e.ids /\ UNCHANGED <<history, missed>>
    BY <1>10 DEF ReportClosed, streamVars
  <2>2. e.kind = "report" /\ \A x \in InFlight : x = e \/ x \in InFlight'
    BY <1>6, <2>1
  <2>3. \A i \in e.ids : orders[i].status = "canceled"
    BY <1>2, <2>1, <2>2 DEF EventOK
  <2>4. "canceled" # "live" /\ "canceled" \notin FilledStatuses
    BY DEF FilledStatuses
  <2>5. QED
    BY <1>4, <1>7, <2>1, <2>2, <2>3, <2>4, NewsKeptIf
<1>11. CASE MergeOpenOrders
  <2>1. /\ Deliver("mergeOpen", <<>>) /\ openOrders' = openOrders \cup e.ids
        /\ UNCHANGED <<history, missed>>
    BY <1>11 DEF MergeOpenOrders, streamVars
  <2>2. e.kind = "mergeOpen" /\ \A x \in InFlight : x = e \/ x \in InFlight'
    BY <1>6, <2>1
  <2>3. ~FillNews(e)
    BY <2>2 DEF FillNews
  <2>4. QED
    BY <1>4, <1>7, <2>1, <2>2, <2>3, NewsKeptIf
<1>12. CASE MergeTradeHistory
  <2>1. /\ Deliver("mergeHistory", <<>>) /\ history' = history \cup e.ids
        /\ UNCHANGED <<openOrders, missed>>
    BY <1>12 DEF MergeTradeHistory, streamVars
  <2>2. e.kind = "mergeHistory" /\ \A x \in InFlight : x = e \/ x \in InFlight'
    BY <1>6, <2>1
  <2>3. ~LiveNews(e)
    BY <2>2 DEF LiveNews
  <2>4. QED
    BY <1>4, <1>7, <2>1, <2>2, <2>3, NewsKeptIf
<1>13. CASE SkipLost \/ ReloadPrivateData
  <2>1. PICK kind \in {"lost", "disconnected"} :
          Deliver(kind, <<>>) /\ UNCHANGED <<openOrders, history, missed>>
    BY <1>13 DEF SkipLost, ReloadPrivateData, storageVars, streamVars
  <2>2. e.kind = kind /\ \A x \in InFlight : x = e \/ x \in InFlight'
    BY <1>6, <2>1
  <2>3. ~LiveNews(e) /\ ~FillNews(e)
    BY <2>2 DEF LiveNews, FillNews
  <2>4. QED
    BY <1>4, <1>7, <2>1, <2>2, <2>3, NewsKeptIf
<1>14. QED
  BY <1>8, <1>9, <1>10, <1>11, <1>12, <1>13 DEF HandleEvent

(* The handlers of HTTP answers lose no news.                              *)
LEMMA AnswersKeepNews ==
  ASSUME TypeOK, EventInv, NEW r \in replies, HandleAnswer(r)
  PROVE  NewsKept
<1>1. EventOK(r) /\ r.ids \in SUBSET Ids /\ r.status \in Statuses /\ r \in InFlight
  BY DEF EventInv, InFlight, TypeOK, Event
<1>2. ASSUME NEW kind, NEW posted \in Seq(Event), Answer(r, kind, posted)
      PROVE  /\ r.kind = kind
             /\ \A x \in InFlight : x = r \/ x \in InFlight'
             /\ Range(posted) \subseteq InFlight'
  <2>1. /\ replies' = replies \ {r} /\ r.kind = kind
        /\ Range(queue') = Range(queue) \cup Range(posted)
    BY <1>2, AnswerEffect
  <2>2. QED
    BY <2>1 DEF InFlight
<1>3. ASSUME NEW kind, Answer(r, kind, <<>>)
      PROVE  r.kind = kind /\ \A x \in InFlight : x = r \/ x \in InFlight'
  <2>1. <<>> \in Seq(Event)
    OBVIOUS
  <2>2. QED
    BY <1>2, <1>3, <2>1
<1>4. ASSUME NEW x \in InFlight', NEW i \in x.ids
      PROVE  (LiveNews(x) => LiveKnown(i)') /\ (FillNews(x) => FillKnown(i)')
  BY <1>4, NewsIsNews
<1>5. ASSUME NEW i
      PROVE  /\ i \in (openOrders \cup missed)' => LiveKnown(i)'
             /\ i \in (history \cup missed)' => FillKnown(i)'
  BY DEF LiveKnown, FillKnown
<1>6. CASE AnswerNewOrder(r) \/ AnswerNewOrderError(r)
  <2>1. PICK kind \in {"newOrder", "newOrderError"} :
          Answer(r, kind, <<>>) /\ UNCHANGED <<openOrders, history, missed>>
    BY <1>6 DEF AnswerNewOrder, AnswerNewOrderError, storageVars, streamVars
  <2>2. r.kind = kind /\ \A x \in InFlight : x = r \/ x \in InFlight'
    BY <1>3, <2>1
  <2>3. ~LiveNews(r) /\ ~FillNews(r)
    BY <2>2 DEF LiveNews, FillNews
  <2>4. QED
    BY <1>4, <1>5, <2>1, <2>2, <2>3, NewsKeptIf
<1>7. CASE AnswerCancel(r)
  <2>1. /\ Answer(r, "cancel", <<>>) /\ openOrders' = openOrders \ r.ids
        /\ UNCHANGED <<history, missed>>
    BY <1>7 DEF AnswerCancel, streamVars
  <2>2. r.kind = "cancel" /\ \A x \in InFlight : x = r \/ x \in InFlight'
    BY <1>3, <2>1
  <2>3. (\A i \in r.ids : orders[i].status = "canceled") /\ ~LiveNews(r) /\ ~FillNews(r)
    BY <1>1, <2>2 DEF EventOK, LiveNews, FillNews
  <2>4. QED
    BY <1>4, <1>5, <2>1, <2>2, <2>3, NewsKeptIf
<1>8. ASSUME NEW kind \in {"mergeOpen", "mergeHistory"}, NEW status \in Statuses, NEW answer,
             \/ r.ids = {} /\ Answer(r, answer, <<>>)
             \/ Answer(r, answer, <<About(kind, r.ids, status)>>)
      PROVE  /\ r.kind = answer
             /\ \A x \in InFlight : x = r \/ x \in InFlight'
             /\ kind = "mergeOpen" => \A i \in r.ids : LiveKnown(i)'
             /\ kind = "mergeHistory" => \A i \in r.ids : FillKnown(i)'
  <2> DEFINE p == About(kind, r.ids, status)
  <2>1. p \in Event /\ p.kind = kind /\ p.ids = r.ids
    BY <1>1, ReplyTypes DEF About, LoopKinds
  <2>2. <<p>> \in Seq(Event) /\ Range(<<p>>) = {p}
    BY <2>1, RangeOfOne
  <2>3. (kind = "mergeOpen" => LiveNews(p)) /\ (kind = "mergeHistory" => FillNews(p))
    BY <2>1 DEF LiveNews, FillNews
  <2>4. CASE r.ids = {} /\ Answer(r, answer, <<>>)
    BY <1>3, <2>4
  <2>5. CASE Answer(r, answer, <<p>>)
    <3>1. p \in InFlight' /\ r.kind = answer /\ \A x \in InFlight : x = r \/ x \in InFlight'
      BY <1>2, <2>2, <2>5
    <3>2. QED
      BY <1>4, <2>1, <2>3, <3>1
  <2>6. QED
    BY <1>8, <2>4, <2>5
<1>9. CASE AnswerOpenOrders(r)
  <2>1. /\ \/ r.ids = {} /\ Answer(r, "openReply", <<>>)
           \/ Answer(r, "openReply", <<About("mergeOpen", r.ids, "live")>>)
        /\ UNCHANGED <<openOrders, history, missed>> /\ "live" \in Statuses
    BY <1>9 DEF AnswerOpenOrders, storageVars, streamVars, Statuses
  <2>2. /\ r.kind = "openReply" /\ \A x \in InFlight : x = r \/ x \in InFlight'
        /\ \A i \in r.ids : LiveKnown(i)'
    BY <1>8, <2>1
  <2>3. ~FillNews(r)
    BY <2>2 DEF FillNews
  <2>4. QED
    BY <1>4, <1>5, <2>1, <2>2, <2>3, NewsKeptIf
<1>10. CASE AnswerTradeHistory(r)
  <2>1. /\ \/ r.ids = {} /\ Answer(r, "historyReply", <<>>)
           \/ Answer(r, "historyReply", <<About("mergeHistory", r.ids, r.status)>>)
        /\ UNCHANGED <<openOrders, history, missed>>
    BY <1>10 DEF AnswerTradeHistory, storageVars, streamVars
  <2>2. /\ r.kind = "historyReply" /\ \A x \in InFlight : x = r \/ x \in InFlight'
        /\ \A i \in r.ids : FillKnown(i)'
    BY <1>1, <1>8, <2>1
  <2>3. ~LiveNews(r)
    BY <2>2 DEF LiveNews
  <2>4. QED
    BY <1>4, <1>5, <2>1, <2>2, <2>3, NewsKeptIf
<1>11. QED
  BY <1>6, <1>7, <1>9, <1>10 DEF HandleAnswer

(* What a disconnection loses counts as missed; the reload brings it back. *)
LEMMA ReloadKeepsNews ==
  ASSUME TypeOK, EventInv, Disconnect \/ Unblock \/ Connect \/ Reload \/ UNCHANGED vars
  PROVE  NewsKept
<1>1. openOrders' = openOrders /\ history' = history
  BY DEF Disconnect, Unblock, Connect, Reload, ReloadHistory, ReloadOpenOrders, SkipCall,
         storageVars, vars
<1>2. ASSUME NEW x \in InFlight', NEW i \in x.ids
      PROVE  (LiveNews(x) => LiveKnown(i)') /\ (FillNews(x) => FillKnown(i)')
  BY <1>2, NewsIsNews
<1>3. ASSUME NEW i
      PROVE  /\ i \in (openOrders \cup missed)' => LiveKnown(i)'
             /\ i \in (history \cup missed)' => FillKnown(i)'
  BY DEF LiveKnown, FillKnown
<1>4. CASE Disconnect
  <2>1. /\ missed \subseteq missed'
        /\ \A x \in Range(queue) : x \in Range(queue') \/ x.ids \subseteq missed'
    BY <1>4, DisconnectEffect
  <2>2. \A x \in InFlight : x \in InFlight' \/ x.ids \subseteq missed'
    BY <1>4, <2>1 DEF InFlight, Disconnect
  <2>3. QED
    BY <1>1, <1>2, <1>3, <2>1, <2>2, NewsKeptIf
<1>5. CASE Unblock \/ Connect \/ (\E c \in todo : SkipCall(c)) \/ UNCHANGED vars
  <2>1. missed' = missed /\ InFlight' = InFlight
    BY <1>5 DEF Unblock, Connect, SkipCall, streamVars, vars, InFlight
  <2>2. QED
    BY <1>1, <1>2, <1>3, <2>1, NewsKeptIf
<1>6. ASSUME NEW m \in Markets, ReloadHistory(m)
      PROVE  NewsKept
  <2> DEFINE ids == {i \in traded : orders[i].market = m}
             settled == {i \in ids : orders[i].status \in FilledStatuses}
  <2>1. PICK status : replies' = replies \cup {About("historyReply", ids, status)}
    BY <1>6 DEF ReloadHistory
  <2>2. queue' = queue /\ missed' = missed \ settled
    BY <1>6 DEF ReloadHistory
  <2>3. InFlight \subseteq InFlight' /\ About("historyReply", ids, status) \in InFlight'
    BY <2>1, <2>2 DEF InFlight
  <2>4. \A i \in ids : FillKnown(i)'
    <3>1. FillNews(About("historyReply", ids, status)) /\ About("historyReply", ids, status).ids = ids
      BY DEF FillNews, About
    <3>2. QED
      BY <1>2, <2>3, <3>1
  <2>5. "live" \notin FilledStatuses
    BY DEF FilledStatuses
  <2>6. QED
    BY <1>1, <1>2, <1>3, <2>2, <2>3, <2>4, <2>5, NewsKeptIf
<1>7. ASSUME NEW m \in Markets, ReloadOpenOrders(m)
      PROVE  NewsKept
  <2> DEFINE ids == {i \in DOMAIN orders : orders[i].market = m /\ orders[i].status = "live"}
  <2>1. /\ replies' = replies \cup {About("openReply", ids, "live")}
        /\ queue' = queue /\ missed' = missed \ ids
    BY <1>7 DEF ReloadOpenOrders
  <2>2. InFlight \subseteq InFlight' /\ About("openReply", ids, "live") \in InFlight'
    BY <2>1 DEF InFlight
  <2>3. \A i \in ids : LiveKnown(i)'
    <3>1. LiveNews(About("openReply", ids, "live")) /\ About("openReply", ids, "live").ids = ids
      BY DEF LiveNews, About
    <3>2. QED
      BY <1>2, <2>2, <3>1
  <2>4. "live" \notin FilledStatuses
    BY DEF FilledStatuses
  <2>5. QED
    BY <1>1, <1>2, <1>3, <2>1, <2>2, <2>3, <2>4, NewsKeptIf
<1>8. QED
  BY <1>4, <1>5, <1>6, <1>7 DEF Reload

(* Every step keeps the two properties.                                    *)
LEMMA KnownStep ==
  ASSUME TypeOK, EventInv, LiveOrderKnown, FillRecorded, [Next]_vars
  PROVE  LiveOrderKnown' /\ FillRecorded'
<1>1. /\ \A i \in DOMAIN orders : orders[i].status = "live" => LiveKnown(i)
      /\ \A i \in DOMAIN orders : orders[i].status \in FilledStatuses => FillKnown(i)
  BY KnownDefs
<1>2. SUFFICES /\ \A i \in DOMAIN orders' : orders'[i].status = "live" => LiveKnown(i)'
               /\ \A i \in DOMAIN orders' : orders'[i].status \in FilledStatuses => FillKnown(i)'
  BY DEF LiveOrderKnown, FillRecorded, LiveKnown, FillKnown, LiveNews, FillNews
<1>3. ASSUME InFlight \subseteq InFlight', missed \subseteq missed',
             openOrders' = openOrders, history' = history
      PROVE  \A i : (LiveKnown(i) => LiveKnown(i)') /\ (FillKnown(i) => FillKnown(i)')
  BY <1>3 DEF LiveKnown, FillKnown, LiveNews, FillNews
<1>4. "live" \notin FilledStatuses /\ "canceled" \notin FilledStatuses \cup {"live"}
      /\ "sent" \notin FilledStatuses \cup {"live"}
  BY DEF FilledStatuses
<1>5. CASE Exchange
  BY <1>1, <1>3, <1>4, <1>5, ExchangeTells
<1>6. CASE Algorithm
  <2>1. UNCHANGED <<replies, queue, missed, openOrders, history>>
    BY <1>6 DEF Algorithm, SubmitOrder, SubmitWith, CancelOrder, storageVars, streamVars
  <2>2. \A i \in DOMAIN orders' : \/ i \in DOMAIN orders /\ orders'[i] = orders[i]
                                  \/ orders'[i].status = "sent"
    <3>1. ASSUME NEW m \in Markets, NEW s \in Sides, NEW q \in Quotes, SubmitOrder(m, s, q)
          PROVE  \A i \in DOMAIN orders' : \/ i \in DOMAIN orders /\ orders'[i] = orders[i]
                                           \/ orders'[i].status = "sent"
      <4>1. \/ orders' = orders
            \/ /\ DOMAIN orders' = DOMAIN orders \cup {Len(orders')}
               /\ orders'[Len(orders')] =
                    [market |-> m, side |-> s, quote |-> q, status |-> "sent"]
               /\ \A j \in DOMAIN orders : orders'[j] = orders[j]
        BY <3>1, SubmitEffect
      <4>2. [market |-> m, side |-> s, quote |-> q, status |-> "sent"].status = "sent"
        OBVIOUS
      <4>3. QED
        BY <4>1, <4>2
    <3>2. ASSUME NEW i \in openOrders, CancelOrder(i)
          PROVE  orders' = orders
      BY <3>2 DEF CancelOrder
    <3>3. QED
      BY <1>6, <3>1, <3>2 DEF Algorithm
  <2>3. QED
    BY <1>1, <1>3, <1>4, <2>1, <2>2 DEF InFlight
<1>7. CASE Elsewhere
  <2>1. NewsKept
    BY <1>7, EventsKeepNews, AnswersKeepNews, ReloadKeepsNews DEF Elsewhere
  <2>2. orders' = orders
    BY <1>7, LoopOrders
  <2>3. QED
    BY <1>1, <2>1, <2>2 DEF NewsKept
<1>8. QED
  BY <1>5, <1>6, <1>7 DEF Next, Loop, Elsewhere

(* Both hold always.                                                       *)
LEMMA KnownCorrect == Spec => [](LiveOrderKnown /\ FillRecorded)
<1>1. Init => LiveOrderKnown /\ FillRecorded
  BY DEF Init, LiveOrderKnown, FillRecorded
<1>2. /\ TypeOK /\ EventInv
      /\ LiveOrderKnown /\ FillRecorded
      /\ [Next]_vars
      => (LiveOrderKnown /\ FillRecorded)'
  BY KnownStep
<1>3. QED
  BY <1>1, <1>2, EventsCorrect, PTL DEF Spec

(* Whatever is lost, refused, timed out or answered late, the bot never    *)
(* forgets an order that rests in the book unless the stream lost the news *)
(* of it (OpenOrdersStorage::merge, ::remove and their callers).           *)
THEOREM LiveOrderKnownHolds == Spec => []LiveOrderKnown
BY KnownCorrect, PTL

(* An executed order is in the history the steps average over, or on its   *)
(* way there, unless the stream lost it (TradeHistoryStorage::merge).      *)
THEOREM FillRecordedHolds == Spec => []FillRecorded
BY KnownCorrect, PTL

-----------------------------------------------------------------------------
(* While no request fails and the stream is never lost, a record is there  *)
(* for a reason.                                                           *)

(* Besides telling quotes: every request leaves, and nothing disconnects.  *)
Undisturbed == TellingQuotes /\ "unsent" \notin Faults /\ MaxReloads = 0

Listening == connected /\ missed = {}

(* An order that has not been answered, or whose first report has not come.*)
Pending(i) ==
  \/ orders[i].status = "sent"
  \/ \E e \in InFlight : e.kind = "report" /\ i \in e.ids /\ e.status = "live"

(* The order of a record: it has the pair, the side and the quote.         *)
Owns(r, i) == SameQuote(r, i) /\ r.side = orders[i].side /\ Pending(i)

Owned == \A r \in tempOrders : \E i \in DOMAIN orders : Owns(r, i)

(* Nothing under way is lost when the queue and the answers only grow.     *)
LEMMA PendingGrows ==
  ASSUME OrdersKept, InFlight \subseteq InFlight', NEW i \in DOMAIN orders, Pending(i),
         orders[i].status = "sent" => Pending(i)'
  PROVE  Pending(i)'
BY DEF Pending, OrdersKept

(* The exchange reports an order that it accepts to who listens.           *)
LEMMA ExchangeReports ==
  ASSUME Undisturbed, TypeOK, EventInv, Listening, Exchange
  PROVE  /\ Listening' /\ InFlight \subseteq InFlight'
         /\ \A i \in DOMAIN orders : orders[i].status = "sent" => Pending(i)'
<1>1. PICK i \in DOMAIN orders :
        \/ AcceptResting(i)
        \/ \E status \in FilledStatuses : AcceptFilled(i, status)
        \/ AcceptKilled(i)
        \/ TradePartly(i)
        \/ TradeFully(i)
        \/ ExecuteCancel(i)
        \/ RefuseCancel(i)
  BY DEF Exchange, RefusePost, Undisturbed, TellingQuotes
<1>2. InFlight \subseteq InFlight' /\ missed \subseteq missed'
  BY ExchangeTells
<1>3. Listening'
  <2>1. connected' = connected
    BY <1>1 DEF AcceptResting, AcceptFilled, AcceptKilled, TradePartly, TradeFully,
                ExecuteCancel, RefuseCancel, BotUnchanged
  <2>2. missed' = missed
    BY <1>1 DEF AcceptResting, AcceptFilled, AcceptKilled, TradePartly, TradeFully,
                ExecuteCancel, RefuseCancel, Emit, Listening
  <2>3. QED
    BY <2>1, <2>2 DEF Listening
<1>4. i \in Ids
  BY IdsOfOrders
<1>5. ASSUME NEW statuses \in Seq(Statuses), Emit(i, statuses), NEW k \in DOMAIN statuses,
             statuses[k] = "live"
      PROVE  Pending(i)'
  <2>1. Report(i, "live") \in Range(queue')
    BY <1>3, <1>4, <1>5, EmitEffect DEF Listening
  <2>2. /\ Report(i, "live").kind = "report" /\ Report(i, "live").status = "live"
        /\ i \in Report(i, "live").ids
    BY DEF Report, About
  <2>3. QED
    BY <2>1, <2>2 DEF Pending, InFlight
<1>6. ASSUME NEW j \in DOMAIN orders \ {i}, orders[j].status = "sent"
      PROVE  Pending(j)'
  <2>1. orders'[j] = orders[j]
    BY <1>1, <1>6 DEF AcceptResting, AcceptFilled, AcceptKilled, TradePartly, TradeFully,
                      ExecuteCancel, RefuseCancel, SetStatus, TypeOK
  <2>2. QED
    BY <1>6, <2>1 DEF Pending
<1>7. ASSUME orders[i].status = "sent"
      PROVE  Pending(i)'
  <2>1. CASE AcceptResting(i)
    <3>1. <<"live">> \in Seq(Statuses) /\ 1 \in DOMAIN <<"live">> /\ <<"live">>[1] = "live"
      BY DEF Statuses
    <3>2. QED
      BY <1>5, <2>1, <3>1 DEF AcceptResting
  <2>2. ASSUME NEW status \in FilledStatuses \cup {"canceled"}, Emit(i, <<"live", status>>)
        PROVE  Pending(i)'
    <3>1. /\ <<"live", status>> \in Seq(Statuses)
          /\ 1 \in DOMAIN <<"live", status>> /\ <<"live", status>>[1] = "live"
      BY DEF Statuses, FilledStatuses
    <3>2. QED
      BY <1>5, <2>2, <3>1
  <2>3. CASE AcceptKilled(i) \/ \E status \in FilledStatuses : AcceptFilled(i, status)
    BY <2>2, <2>3 DEF AcceptKilled, AcceptFilled
  <2>4. CASE RefuseCancel(i)
    BY <1>7, <2>4 DEF RefuseCancel, Pending
  <2>5. QED
    BY <1>1, <1>7, <2>1, <2>3, <2>4 DEF TradePartly, TradeFully, ExecuteCancel
<1>8. QED
  BY <1>2, <1>3, <1>6, <1>7

(* The loop takes one event or answer; what else is under way stays.       *)
LEMMA LoopLeaves ==
  ASSUME TypeOK, EventInv, Listening, Loop
  PROVE  /\ Listening' /\ UNCHANGED orders
         /\ \/ InFlight \subseteq InFlight'
            \/ \E e \in InFlight :
                 /\ InFlight \ {e} \subseteq InFlight'
                 /\ e.kind = "report" /\ e.status = "live" => ReportLive /\ e = Head(queue)
<1>1. UNCHANGED orders
  BY LoopOrders DEF Loop, Elsewhere
<1>2. Listening'
  BY DEF Loop, HandleEvent, ReportLive, ReportFilled, ReportClosed, MergeOpenOrders,
         MergeTradeHistory, SkipLost, ReloadPrivateData, HandleAnswer, AnswerNewOrder,
         AnswerNewOrderError, AnswerCancel, AnswerOpenOrders, AnswerTradeHistory,
         streamVars, Listening
<1>3. CASE HandleEvent
  <2>1. PICK kind, posted : Deliver(kind, posted)
    BY <1>3 DEF HandleEvent, ReportLive, ReportFilled, ReportClosed, MergeOpenOrders,
                MergeTradeHistory, SkipLost, ReloadPrivateData
  <2>2. queue \in Seq(Event) /\ queue # <<>>
    BY <2>1 DEF Deliver, TypeOK
  <2>3. PICK e \in Event : e = Head(queue)
    BY <2>2, RangeOfHeadTail
  <2>4. e \in InFlight /\ e.ids \in SUBSET Ids /\ e.status \in Statuses
    BY <2>2, <2>3, RangeOfHeadTail DEF InFlight, Event
  <2>5. PICK after \in Seq(Event) : \E k : Deliver(k, after)
    <3>1. <<>> \in Seq(Event)
      OBVIOUS
    <3>2. ASSUME NEW l \in LoopKinds, NEW status \in Statuses
          PROVE  <<About(l, e.ids, status)>> \in Seq(Event)
      BY <2>4, <3>2, ReplyTypes
    <3>3. {"mergeOpen", "mergeHistory"} \subseteq LoopKinds /\ "live" \in Statuses
      BY DEF LoopKinds, Statuses
    <3>4. CASE ReportLive
      <4>1. Deliver("report", <<About("mergeOpen", e.ids, "live")>>)
        BY <2>3, <3>4 DEF ReportLive
      <4>2. QED
        BY <3>2, <3>3, <4>1
    <3>5. CASE ReportFilled
      <4>1. Deliver("report", <<About("mergeHistory", e.ids, e.status)>>)
        BY <2>3, <3>5 DEF ReportFilled
      <4>2. QED
        BY <2>4, <3>2, <3>3, <4>1
    <3>6. CASE ReportClosed \/ MergeOpenOrders \/ MergeTradeHistory \/ SkipLost
               \/ ReloadPrivateData
      BY <3>1, <3>6 DEF ReportClosed, MergeOpenOrders, MergeTradeHistory, SkipLost,
                        ReloadPrivateData
    <3>7. QED
      BY <1>3, <3>4, <3>5, <3>6 DEF HandleEvent
  <2>6. InFlight \ {e} \subseteq InFlight'
    BY <2>3, <2>5, DeliverEffect DEF InFlight
  <2>7. e.kind = "report" /\ e.status = "live" => ReportLive
    BY <1>3, <2>3 DEF HandleEvent, ReportFilled, ReportClosed, MergeOpenOrders,
                      MergeTradeHistory, SkipLost, ReloadPrivateData, Deliver, FilledStatuses
  <2>8. QED
    BY <1>1, <1>2, <2>3, <2>4, <2>6, <2>7
<1>4. ASSUME NEW r \in replies, HandleAnswer(r)
      PROVE  InFlight \ {r} \subseteq InFlight' /\ r.kind # "report" /\ r \in InFlight
  <2>1. r \in Event /\ r.ids \in SUBSET Ids /\ r.status \in Statuses
    BY DEF TypeOK, Event
  <2>2. PICK after \in Seq(Event) : \E k : Answer(r, k, after)
    <3>1. <<>> \in Seq(Event)
      OBVIOUS
    <3>2. ASSUME NEW l \in LoopKinds, NEW status \in Statuses
          PROVE  <<About(l, r.ids, status)>> \in Seq(Event)
      BY <2>1, <3>2, ReplyTypes
    <3>3. {"mergeOpen", "mergeHistory"} \subseteq LoopKinds /\ "live" \in Statuses
      BY DEF LoopKinds, Statuses
    <3>4. CASE AnswerOpenOrders(r)
      <4>1. \/ Answer(r, "openReply", <<>>)
            \/ Answer(r, "openReply", <<About("mergeOpen", r.ids, "live")>>)
        BY <3>4 DEF AnswerOpenOrders
      <4>2. QED
        BY <3>1, <3>2, <3>3, <4>1
    <3>5. CASE AnswerTradeHistory(r)
      <4>1. \/ Answer(r, "historyReply", <<>>)
            \/ Answer(r, "historyReply", <<About("mergeHistory", r.ids, r.status)>>)
        BY <3>5 DEF AnswerTradeHistory
      <4>2. QED
        BY <2>1, <3>1, <3>2, <3>3, <4>1
    <3>6. CASE AnswerNewOrder(r) \/ AnswerNewOrderError(r) \/ AnswerCancel(r)
      BY <3>1, <3>6 DEF AnswerNewOrder, AnswerNewOrderError, AnswerCancel
    <3>7. QED
      BY <1>4, <3>4, <3>5, <3>6 DEF HandleAnswer
  <2>3. InFlight \ {r} \subseteq InFlight'
    BY <2>2, AnswerEffect DEF InFlight
  <2>4. r.kind # "report"
    BY <1>4 DEF HandleAnswer, AnswerNewOrder, AnswerNewOrderError, AnswerCancel,
                AnswerOpenOrders, AnswerTradeHistory, Answer
  <2>5. QED
    BY <2>3, <2>4 DEF InFlight
<1>5. QED
  BY <1>1, <1>2, <1>3, <1>4 DEF Loop

(* What is under way about the order of a record stays, but for the report *)
(* that is delivered.                                                      *)
LEMMA PendingStep ==
  ASSUME Undisturbed, TypeOK, EventInv, Listening, [Next]_vars
  PROVE  /\ Listening'
         /\ \A i \in DOMAIN orders :
              Pending(i) => Pending(i)' \/ (ReportLive /\ i \in Head(queue).ids)
<1>1. OrdersKept
  BY NextInv
<1>2. reloads = 0 /\ ~(reloads < MaxReloads)
  BY DEF TypeOK, Undisturbed
<1>3. CASE Algorithm
  <2>1. UNCHANGED <<replies, queue, connected, missed>>
    BY <1>3 DEF Algorithm, SubmitOrder, SubmitWith, CancelOrder, streamVars
  <2>2. ASSUME NEW i \in DOMAIN orders, orders[i].status = "sent"
        PROVE  orders'[i].status = "sent"
    <3>1. ASSUME NEW m \in Markets, NEW s \in Sides, NEW q \in Quotes, SubmitOrder(m, s, q)
          PROVE  orders'[i] = orders[i]
      BY <3>1, SubmitEffect
    <3>2. ASSUME NEW j \in openOrders, CancelOrder(j)
          PROVE  orders'[i] = orders[i]
      BY <3>2 DEF CancelOrder
    <3>3. QED
      BY <1>3, <2>2, <3>1, <3>2 DEF Algorithm
  <2>3. QED
    BY <2>1, <2>2 DEF Pending, Listening, InFlight
<1>4. CASE Exchange
  BY <1>1, <1>4, ExchangeReports, PendingGrows
<1>5. CASE Loop
  <2>1. Listening' /\ UNCHANGED orders
    BY <1>5, LoopLeaves
  <2>2. CASE InFlight \subseteq InFlight'
    BY <2>1, <2>2 DEF Pending
  <2>3. ASSUME NEW e \in InFlight, InFlight \ {e} \subseteq InFlight',
               e.kind = "report" /\ e.status = "live" => ReportLive /\ e = Head(queue)
        PROVE  \A i \in DOMAIN orders :
                 Pending(i) => Pending(i)' \/ (ReportLive /\ i \in Head(queue).ids)
    BY <2>1, <2>3 DEF Pending
  <2>4. QED
    BY <1>5, <2>1, <2>2, <2>3, LoopLeaves
<1>6. CASE Connect \/ Reload \/ UNCHANGED vars
  <2>1. UNCHANGED <<orders, queue>> /\ replies \subseteq replies' /\ connected'
        /\ missed' \subseteq missed
    BY <1>6 DEF Connect, Reload, ReloadHistory, ReloadOpenOrders, SkipCall, exchangeVars,
                vars, streamVars, Listening
  <2>2. QED
    BY <2>1 DEF Pending, Listening, InFlight
<1>7. ~Disconnect /\ ~Unblock
  BY <1>2 DEF Disconnect, Unblock
<1>8. QED
  BY <1>3, <1>4, <1>5, <1>6, <1>7 DEF Next

(* The record of an order is the only one with its pair and its quote; the *)
(* first report of the order erases it.                                    *)
LEMMA ReportErases ==
  ASSUME TypeOK, EventInv, MatchInv, OneRecordPerSide, Owned, ReportLive,
         NEW r \in tempOrders', NEW i \in DOMAIN orders, SameQuote(r, i)
  PROVE  i \notin Head(queue).ids
<1>1. SUFFICES ASSUME i \in Head(queue).ids
               PROVE  FALSE
  OBVIOUS
<1>2. queue \in Seq(Event) /\ queue # <<>> /\ Head(queue).kind = "report"
  BY DEF ReportLive, Deliver, TypeOK
<1>3. Head(queue) \in InFlight
  BY <1>2, RangeOfHeadTail DEF InFlight
<1>4. Single(Head(queue))
  BY <1>2, <1>3 DEF EventInv, EventOK
<1>5. Subject(Head(queue)) = i
  BY <1>1, <1>4, SubjectOfSingle
<1>6. UpdateEraseOrder(i, TRUE)
  BY <1>5 DEF ReportLive
<1>7. RecordsOf(i) \subseteq RecordsLike(i)
  <2>1. i # NoId
    BY IdsOfOrders DEF Ids, NoId
  <2>2. QED
    BY <2>1 DEF RecordsOf, RecordsLike, MatchInv, RecordIds
<1>8. \A t \in RecordsLike(i) : t.market = orders[i].market /\ t.side = orders[i].side
  <2>1. SUFFICES ASSUME NEW t \in RecordsLike(i)
                 PROVE  t.market = orders[i].market /\ t.side = orders[i].side
    OBVIOUS
  <2>2. t \in tempOrders /\ SameQuote(t, i)
    BY <2>1 DEF RecordsLike
  <2>3. PICK j \in DOMAIN orders : SameQuote(t, j) /\ t.side = orders[j].side
    BY <2>2 DEF Owned, Owns
  <2>4. i = j
    BY <2>2, <2>3 DEF SameQuote, MatchInv, DistinctQuotes
  <2>5. QED
    BY <2>2, <2>3, <2>4 DEF SameQuote
<1>9. \A t1, t2 \in RecordsLike(i) : t1 = t2
  BY <1>8 DEF OneRecordPerSide, RecordsLike
<1>10. PICK found \in {RecordsOf(i), RecordsLike(i)} :
         /\ tempOrders' \in Without(found)
         /\ RecordsLike(i) # {} => found # {}
  BY <1>6 DEF UpdateEraseOrder
<1>11. found \subseteq RecordsLike(i)
  BY <1>7, <1>10
<1>12. r \in RecordsLike(i)
  BY <1>10 DEF RecordsLike, RecordsOf, Without
<1>13. tempOrders' = tempOrders \ {r}
  BY <1>9, <1>10, <1>11, <1>12 DEF Without
<1>14. QED
  BY <1>13

(* A record keeps its order in every step.                                 *)
LEMMA OwnedStep ==
  ASSUME Undisturbed, TypeOK, EventInv, MatchInv, OneRecordPerSide, Listening, Owned,
         [Next]_vars
  PROVE  Owned'
<1>1. OrdersKept
  BY NextInv
<1>2. ASSUME NEW r, NEW i \in DOMAIN orders, SameQuote(r, i), r.side = orders[i].side,
             Pending(i)'
      PROVE  i \in DOMAIN orders' /\ Owns(r, i)'
  BY <1>1, <1>2 DEF OrdersKept, Owns, SameQuote
<1>3. ASSUME ~ReportLive, NEW r \in tempOrders, NEW t, t.market = r.market,
             t.side = r.side, t.quote = r.quote
      PROVE  \E i \in DOMAIN orders' : Owns(t, i)'
  <2>1. PICK i \in DOMAIN orders : Owns(r, i)
    BY DEF Owned
  <2>2. Pending(i)'
    BY <1>3, <2>1, PendingStep DEF Owns
  <2>3. SameQuote(t, i) /\ t.side = orders[i].side
    BY <1>3, <2>1 DEF Owns, SameQuote
  <2>4. QED
    BY <1>2, <2>2, <2>3
<1>4. CASE ReportLive
  <2>1. SUFFICES ASSUME NEW r \in tempOrders'
                 PROVE  \E i \in DOMAIN orders' : Owns(r, i)'
    BY DEF Owned
  <2>2. r \in tempOrders
    BY <1>4, <2>1, EraseEffect DEF ReportLive
  <2>3. PICK i \in DOMAIN orders : Owns(r, i)
    BY <2>2 DEF Owned
  <2>4. i \notin Head(queue).ids
    BY <1>4, <2>1, <2>3, ReportErases DEF Owns
  <2>5. Pending(i)'
    BY <2>3, <2>4, PendingStep DEF Owns
  <2>6. QED
    BY <1>2, <2>3, <2>5 DEF Owns
<1>5. CASE Submits
  <2>1. PICK m \in Markets, s \in Sides, q \in Quotes : SubmitOrder(m, s, q)
    BY <1>5 DEF Submits
  <2> DEFINE new == [market |-> m, side |-> s, quote |-> q, id |-> NoId]
             order == [market |-> m, side |-> s, quote |-> q, status |-> "sent"]
  <2>2. /\ tempOrders' = tempOrders \cup {new} /\ orders' = Append(orders, order)
        /\ orders \in Seq(Order) /\ UNCHANGED queue
    BY <2>1 DEF SubmitOrder, SubmitWith, Undisturbed, TypeOK
  <2>3. PICK k : k \in DOMAIN orders' /\ orders'[k] = order
    <3>1. order \in Order
      BY DEF Order, Statuses
    <3>2. QED
      BY ONLY <2>2, <3>1, AppendProperties, LenProperties
  <2>4. Owns(new, k)'
    BY <2>3 DEF Owns, SameQuote, Pending
  <2>5. ~ReportLive
    <3>1. ReportLive => UNCHANGED orders
      BY DEF ReportLive, Deliver, exchangeVars
    <3>2. Len(Append(orders, order)) # Len(orders)
      BY <2>2
    <3>3. QED
      BY <2>2, <3>1, <3>2
  <2>6. QED
    BY <1>3, <2>2, <2>3, <2>4, <2>5 DEF Owned
<1>6. CASE ~ReportLive /\ tempOrders' \subseteq tempOrders
  BY <1>3, <1>6 DEF Owned
<1>7. CASE ~ReportLive /\ Places
  <2>1. PICK i \in DOMAIN orders, r \in tempOrders :
          tempOrders' = (tempOrders \ {r}) \cup
            {[market |-> r.market, side |-> r.side, quote |-> r.quote, id |-> i]}
    BY <1>7 DEF Places
  <2>2. QED
    BY <1>3, <1>7, <2>1 DEF Owned
<1>8. QED
  BY <1>4, <1>5, <1>6, <1>7, TableSteps DEF Erases, ErasesBlindly

(* No record is left behind, so no type is refused on a pair without an    *)
(* order that is on its way or just accepted, as long as nothing fails     *)
(* (processExecutionReportStream and processNewOrders erase the records).  *)
THEOREM RecordHasOrderHolds ==
  ASSUME Undisturbed
  PROVE  Spec => []RecordHasOrder
<1>1. Init => Listening /\ Owned
  BY DEF Init, Listening, Owned
<1>2. /\ TypeOK /\ EventInv /\ MatchInv /\ OneRecordPerSide
      /\ Listening /\ Owned /\ [Next]_vars
      => Listening' /\ Owned'
  BY PendingStep, OwnedStep
<1>3. Owned => RecordHasOrder
  BY DEF Owned, Owns, SameQuote, Pending, RecordHasOrder, OnPair
<1>4. TellingQuotes
  BY DEF Undisturbed
<1>5. Spec => []MatchInv
  BY <1>4, MatchCorrect
<1>6. QED
  BY <1>1, <1>2, <1>3, <1>5, OneRecordPerSideHolds, EventsCorrect, PTL DEF Spec
=============================================================================
