----------------------------- MODULE OrderFlow -----------------------------
(***************************************************************************)
(* The life of a limit order inside CryptoShloma: BinanceAPI::submitOrder  *)
(* and the handlers that follow it, the TemporaryOrdersTable that refuses  *)
(* duplicates, the three storages the trading algorithm reads, and the     *)
(* event loop of the main thread that carries everything between them.     *)
(*                                                                         *)
(* The exchange is external.  It talks to the bot over two channels that   *)
(* are not ordered with respect to each other: the user data websocket     *)
(* (FIFO, lost on a disconnection) and the HTTP answers (in any order).    *)
(*                                                                         *)
(* The merges into the storages are queued connections, OpenOrdersStorage  *)
(* ::remove is a direct one (i_exchange_api.cpp:27-39).  The messages of   *)
(* the stream cross a thread and are posted events too: one queue holds    *)
(* both, what a handler posts goes to its end, and between two deliveries  *)
(* a timer may fire or an HTTP answer be handled.  A report counts as      *)
(* posted when the exchange emits it; until it is delivered it may still   *)
(* be under way, which shows only when a disconnection loses it.           *)
(*                                                                         *)
(* Abstractions: a quote stands for the triple (price, baseVolume, volume) *)
(* by which records are matched; the prices, balances and history that the *)
(* steps look at before they call submitOrder are a free choice.  The      *)
(* balances travel the same channels: see Hanukkah.                        *)
(***************************************************************************)
EXTENDS Integers, Sequences, Functions

CONSTANTS
  Markets,      (* trading pairs, all of them being traded                *)
  Sides,        (* the types of order that are placed                     *)
  Quotes,       (* (price, base volume, volume) triples of an order       *)
  MaxOrders,    (* bound: orders that reach the wire                      *)
  QuoteReuse,   (* may two orders of a run have the same quote?           *)
  MaxReloads,   (* bound: disconnections and blocks of the requests        *)
  Turns,        (* what may become of a resting sell, see TurnKinds       *)
  Faults        (* the faults the environment may show, see FaultKinds    *)

(* "partly" - trade in part before it is filled; "cancel" - be canceled by *)
(* the step that placed it.                                                *)
TurnKinds == {"partly", "cancel"}

(* "unsent"  - no request leaves: requests blocked or network session down *)
(* "refused" - the exchange answers a POST with an HTTP error              *)
(* "timeout" - the answer of a request is an error although it was obeyed  *)
FaultKinds == {"unsent", "refused", "timeout"}

ASSUME SidesAssumption == Sides \subseteq {"buy", "sell"}
ASSUME MaxOrdersAssumption == MaxOrders \in Nat \ {0}
ASSUME MaxReloadsAssumption == MaxReloads \in Nat
ASSUME QuoteReuseAssumption == QuoteReuse \in BOOLEAN
ASSUME TurnsAssumption == Turns \subseteq TurnKinds
ASSUME FaultsAssumption == Faults \subseteq FaultKinds

VARIABLES
  orders,        (* exchange: the requests that left the bot, in order    *)
  traded,        (* exchange: the orders that have at least one trade     *)
  cancels,       (* exchange: DELETE requests on their way                *)
  replies,       (* HTTP answers on their way                             *)
  queue,         (* reports of the stream and queued calls, in order      *)
  tempOrders,    (* TemporaryOrdersTable::m_data                          *)
  openOrders,    (* OpenOrdersStorage::m_Data, by order id                *)
  history,       (* TradeHistoryStorage::m_Data, by order id              *)
  connected,     (* m_webSocketUserDataClient->isOpen()                   *)
  todo,          (* requests left of the reload after a disconnection     *)
  reloads,       (* how many disconnections and blocks there were         *)
  missed         (* auxiliary: orders with a report the stream lost       *)

exchangeVars == <<orders, traded, cancels>>
storageVars == <<openOrders, history>>
streamVars == <<connected, todo, reloads, missed>>
vars == <<exchangeVars, replies, queue, tempOrders, storageVars,
          streamVars>>

-----------------------------------------------------------------------------
(* Values.                                                                 *)

Ids == 1 .. MaxOrders
NoId == 0

(* "sent": the POST is on its way.  "improved": executed at a price other  *)
(* than that of the limit, so the reports of the fill carry another quote. *)
Statuses == {"sent", "live", "filled", "improved", "canceled"}
FilledStatuses == {"filled", "improved"}

Order == [market : Markets, side : Sides, quote : Quotes, status : Statuses]

(* TemporaryOrdersTable::OrderRecord; id is NoId until updatePlaceOrder.   *)
Record == [market : Markets, side : Sides, quote : Quotes, id : Ids \cup {NoId}]

(* What travels: execution reports of the stream, HTTP answers, queued     *)
(* calls of the storages' merge slots, the signal of the socket; "lost" is *)
(* the place of a report that a disconnection kept from arriving.          *)
StreamKinds == {"report"}
ReplyKinds == {"newOrder", "newOrderError", "cancel", "historyReply", "openReply"}
LoopKinds == {"mergeOpen", "mergeHistory", "disconnected", "lost"}
Event == [kind : StreamKinds \cup ReplyKinds \cup LoopKinds,
          ids : SUBSET Ids,
          status : Statuses]

About(kind, ids, status) == [kind |-> kind, ids |-> ids, status |-> status]

Report(i, status) == About("report", {i}, status)

(* The requests of the handler of disconnectedPrivateApi.                  *)
Calls == [call : {"history", "open"}, market : Markets]

TypeOK ==
  /\ orders \in Seq(Order) /\ Len(orders) <= MaxOrders
  /\ traded \subseteq Ids
  /\ cancels \subseteq Ids
  /\ replies \subseteq Event
  /\ queue \in Seq(Event)
  /\ tempOrders \subseteq Record
  /\ openOrders \subseteq Ids
  /\ history \subseteq Ids
  /\ connected \in BOOLEAN
  /\ todo \subseteq Calls
  /\ reloads \in 0 .. MaxReloads
  /\ missed \subseteq Ids

Init ==
  /\ orders = <<>>
  /\ traded = {}
  /\ cancels = {}
  /\ replies = {}
  /\ queue = <<>>
  /\ tempOrders = {}
  /\ openOrders = {}
  /\ history = {}
  /\ connected = TRUE
  /\ todo = {}
  /\ reloads = 0
  /\ missed = {}

-----------------------------------------------------------------------------
(* TemporaryOrdersTable.  find_if takes the first record that matches; the *)
(* table is a set here, so any one of them.                                *)

SameQuotePairOnly(r, i) ==           (* mutant: the quote is not compared  *)
  r.market = orders[i].market

SameQuote(r, i) ==
  /\ r.market = orders[i].market
  /\ r.quote = orders[i].quote

(* Without the first record that matches, if there is one.                 *)
Without(found) ==
  IF found = {} THEN {tempOrders} ELSE {tempOrders \ {r} : r \in found}

RecordsOf(i) == {r \in tempOrders : r.id = i}
RecordsLike(i) == {r \in tempOrders : SameQuote(r, i)}

(* updateEraseOrder(OrderRecord): by the order id, failing that by the     *)
(* quote; sameQuote says whether the caller's record carries the price and *)
(* the volumes the order was submitted with.                               *)
UpdateEraseOrder(i, sameQuote) ==
  tempOrders' \in
    Without(IF RecordsOf(i) # {} THEN RecordsOf(i)
            ELSE IF sameQuote THEN RecordsLike(i) ELSE {})

(* updateEraseOrder(OrderId).                                              *)
UpdateEraseOrderId(i) == tempOrders' \in Without(RecordsOf(i))

(* updatePlaceOrder: the side of the record is not compared.               *)
UpdatePlaceOrder(i) ==
  IF RecordsLike(i) = {}
  THEN UNCHANGED tempOrders
  ELSE \E r \in RecordsLike(i) :
         tempOrders' = (tempOrders \ {r}) \cup {[r EXCEPT !.id = i]}

-----------------------------------------------------------------------------
(* What the trading algorithm calls, from its timer.                       *)

OpenOf(m, s) == {i \in openOrders : orders[i].market = m /\ orders[i].side = s}

FreshQuote(m, q) ==
  \A i \in DOMAIN orders : orders[i].market = m => orders[i].quote # q

(* BinanceAPI::submitOrder, called by a step only when the open orders     *)
(* storage holds no order of that side.  A refused duplicate changes       *)
(* nothing and is left out.                                                *)
SubmitWith(m, s, q, id) ==
  /\ OpenOf(m, s) = {}
  /\ connected
  /\ Len(orders) < MaxOrders
  /\ QuoteReuse \/ FreshQuote(m, q)
  /\ tempOrders' = tempOrders \cup {[market |-> m, side |-> s, quote |-> q, id |-> id]}
  /\ \/ orders' = Append(orders, [market |-> m, side |-> s, quote |-> q, status |-> "sent"])
     \/ /\ "unsent" \in Faults
        /\ UNCHANGED orders
  /\ UNCHANGED <<traded, cancels, replies, queue, storageVars, streamVars>>

SubmitDuplicate(m, s, q) ==          (* mutant: duplicates are not refused *)
  SubmitWith(m, s, q, NoId)

SubmitUninitialised(m, s, q) ==      (* mutant: the id has no valid value  *)
  /\ \A r \in tempOrders : r.market # m \/ r.side # s
  /\ SubmitWith(m, s, q, -1)

SubmitOrder(m, s, q) ==
  /\ \A r \in tempOrders : r.market # m \/ r.side # s
  /\ SubmitWith(m, s, q, NoId)

(* BinanceAPI::cancelOrder, called by a step for its first open sell order.*)
CancelOrder(i) ==
  /\ "cancel" \in Turns
  /\ i \in openOrders
  /\ orders[i].side = "sell"
  /\ connected
  /\ cancels' = cancels \cup {i}
  /\ UNCHANGED <<orders, traded, replies, queue,
                 tempOrders, storageVars, streamVars>>

-----------------------------------------------------------------------------
(* The exchange.  A change of an order is reported on the stream; without  *)
(* a listener the report is lost.                                          *)

Emit(i, statuses) ==
  LET reports == [k \in DOMAIN statuses |-> Report(i, statuses[k])]
  IN  IF connected
      THEN queue' = queue \o reports /\ UNCHANGED missed
      ELSE missed' = missed \cup {i} /\ UNCHANGED queue

SetStatus(i, status) == orders' = [orders EXCEPT ![i].status = status]

(* The answer to the POST of order i: its status, or an error although the *)
(* order was accepted.                                                     *)
AnswerPost(i, status) ==
  \/ replies' = replies \cup {About("newOrder", {i}, status)}
  \/ /\ "timeout" \in Faults
     /\ replies' = replies \cup {About("newOrderError", {i}, status)}

BotUnchanged == UNCHANGED <<tempOrders, storageVars, connected, todo, reloads>>

(* A sell is good till cancelled and may rest in the book.                 *)
AcceptResting(i) ==
  /\ orders[i].status = "sent" /\ orders[i].side = "sell"
  /\ SetStatus(i, "live")
  /\ Emit(i, <<"live">>)
  /\ AnswerPost(i, "live")
  /\ UNCHANGED <<traded, cancels>>
  /\ BotUnchanged

(* Either side may be executed at once, at the limit or at a better price. *)
AcceptFilled(i, status) ==
  /\ orders[i].status = "sent"
  /\ SetStatus(i, status)
  /\ traded' = traded \cup {i}
  /\ Emit(i, <<"live", status>>)
  /\ AnswerPost(i, status)
  /\ UNCHANGED cancels
  /\ BotUnchanged

(* A buy is fill or kill.                                                  *)
AcceptKilled(i) ==
  /\ orders[i].status = "sent" /\ orders[i].side = "buy"
  /\ SetStatus(i, "canceled")
  /\ Emit(i, <<"live", "canceled">>)
  /\ AnswerPost(i, "canceled")
  /\ UNCHANGED <<traded, cancels>>
  /\ BotUnchanged

(* The POST is answered with an error and no order exists.                 *)
RefusePost(i) ==
  /\ Faults \cap {"refused", "timeout"} # {}
  /\ orders[i].status = "sent"
  /\ SetStatus(i, "canceled")
  /\ replies' = replies \cup {About("newOrderError", {i}, "canceled")}
  /\ UNCHANGED <<traded, cancels, queue, missed>>
  /\ BotUnchanged

(* A resting sell trades: partly (PARTIALLY_FILLED is handled as NEW is)   *)
(* or to its end, at its own price.                                        *)
TradePartly(i) ==
  /\ "partly" \in Turns
  /\ orders[i].status = "live" /\ i \notin traded
  /\ traded' = traded \cup {i}
  /\ Emit(i, <<"live">>)
  /\ UNCHANGED <<orders, cancels, replies>>
  /\ BotUnchanged

TradeFully(i) ==
  /\ orders[i].status = "live"
  /\ SetStatus(i, "filled")
  /\ traded' = traded \cup {i}
  /\ Emit(i, <<"filled">>)
  /\ UNCHANGED <<cancels, replies>>
  /\ BotUnchanged

(* A DELETE cancels a live order; of any other the answer is an error, of  *)
(* which the bot takes no notice.                                          *)
ExecuteCancel(i) ==
  /\ i \in cancels
  /\ orders[i].status = "live"
  /\ cancels' = cancels \ {i}
  /\ SetStatus(i, "canceled")
  /\ Emit(i, <<"canceled">>)
  /\ \/ replies' = replies \cup {About("cancel", {i}, "canceled")}
     \/ "timeout" \in Faults /\ UNCHANGED replies
  /\ UNCHANGED traded
  /\ BotUnchanged

RefuseCancel(i) ==
  /\ i \in cancels
  /\ orders[i].status # "live" \/ "timeout" \in Faults
  /\ cancels' = cancels \ {i}
  /\ UNCHANGED <<orders, traded, queue, replies, missed>>
  /\ BotUnchanged

Exchange ==
  \E i \in DOMAIN orders :
    \/ AcceptResting(i)
    \/ \E status \in FilledStatuses : AcceptFilled(i, status)
    \/ AcceptKilled(i)
    \/ RefusePost(i)
    \/ TradePartly(i)
    \/ TradeFully(i)
    \/ ExecuteCancel(i)
    \/ RefuseCancel(i)

-----------------------------------------------------------------------------
(* The event loop of the main thread.                                      *)

(* Deliver the first posted event; what its handler posts goes to the end. *)
Deliver(kind, posted) ==
  /\ queue # <<>>
  /\ Head(queue).kind = kind
  /\ queue' = Tail(queue) \o posted
  /\ UNCHANGED <<exchangeVars, replies>>

(* Handle an HTTP answer.                                                  *)
Answer(r, kind, posted) ==
  /\ r.kind = kind
  /\ replies' = replies \ {r}
  /\ queue' = queue \o posted
  /\ UNCHANGED exchangeVars

Single(e) == \E i \in Ids : e.ids = {i}
Subject(e) == CHOOSE i \in Ids : e.ids = {i}

(* processExecutionReportStream: NEW and PARTIALLY_FILLED.                 *)
ReportLiveKeeping ==                 (* mutant: the record is not erased   *)
  /\ Deliver("report", <<About("mergeOpen", Head(queue).ids, "live")>>)
  /\ Head(queue).status = "live"
  /\ UNCHANGED <<tempOrders, storageVars, streamVars>>

ReportLive ==
  /\ Deliver("report", <<About("mergeOpen", Head(queue).ids, "live")>>)
  /\ Head(queue).status = "live"
  /\ UpdateEraseOrder(Subject(Head(queue)), TRUE)
  /\ UNCHANGED <<storageVars, streamVars>>

(* processExecutionReportStream: FILLED.  The trade is merged later, the   *)
(* order leaves the open orders now.                                       *)
ReportFilled ==
  /\ Deliver("report", <<About("mergeHistory", Head(queue).ids, Head(queue).status)>>)
  /\ Head(queue).status \in FilledStatuses
  /\ UpdateEraseOrder(Subject(Head(queue)), Head(queue).status = "filled")
  /\ openOrders' = openOrders \ Head(queue).ids
  /\ UNCHANGED <<history, streamVars>>

(* processExecutionReportStream: any other status; the table of temporary  *)
(* orders is not told.                                                     *)
ReportClosed ==
  /\ Deliver("report", <<>>)
  /\ Head(queue).status = "canceled"
  /\ openOrders' = openOrders \ Head(queue).ids
  /\ UNCHANGED <<tempOrders, history, streamVars>>

(* processNewOrders.                                                       *)
AnswerNewOrder(r) ==
  /\ Answer(r, "newOrder", <<>>)
  /\ IF r.status = "canceled"
     THEN UpdateEraseOrder(Subject(r), TRUE)
     ELSE UpdatePlaceOrder(Subject(r))
  /\ UNCHANGED <<storageVars, streamVars>>

(* The error handler of submitOrder captured its locals by reference and   *)
(* they are gone: the record it erases is any one, or none.                *)
AnswerNewOrderError(r) ==
  /\ Answer(r, "newOrderError", <<>>)
  /\ tempOrders' \in {tempOrders} \cup {tempOrders \ {t} : t \in tempOrders}
  /\ UNCHANGED <<storageVars, streamVars>>

(* processCancelOrders.                                                    *)
AnswerCancel(r) ==
  /\ Answer(r, "cancel", <<>>)
  /\ UpdateEraseOrderId(Subject(r))
  /\ openOrders' = openOrders \ r.ids
  /\ UNCHANGED <<history, streamVars>>

(* processUserOpenOrders: one open order is taken for the order that was   *)
(* just submitted.                                                         *)
AnswerOpenOrders(r) ==
  /\ Answer(r, "openReply", IF r.ids = {} THEN <<>>
                            ELSE <<About("mergeOpen", r.ids, "live")>>)
  /\ IF Single(r)
     THEN UpdateEraseOrder(Subject(r), TRUE)
     ELSE UNCHANGED tempOrders
  /\ UNCHANGED <<storageVars, streamVars>>

(* processUserTradeHistory, likewise; the volume glued from the trades is  *)
(* that of the order only when it is executed in full at its price.        *)
AnswerTradeHistory(r) ==
  /\ Answer(r, "historyReply", IF r.ids = {} THEN <<>>
                               ELSE <<About("mergeHistory", r.ids, r.status)>>)
  /\ IF Single(r)
     THEN UpdateEraseOrder(Subject(r), r.status = "filled")
     ELSE UNCHANGED tempOrders
  /\ UNCHANGED <<storageVars, streamVars>>

(* OpenOrdersStorage::merge: of the stored orders of the pair those that   *)
(* are in the data are dropped and created anew; the others stay, closed   *)
(* as they may be.                                                         *)
MergeOpenOrdersReplacing ==          (* mutant: the others are dropped     *)
  /\ Deliver("mergeOpen", <<>>)
  /\ openOrders' = {i \in openOrders : \A j \in Head(queue).ids :
                                         orders[i].market # orders[j].market}
                     \cup Head(queue).ids
  /\ UNCHANGED <<tempOrders, history, streamVars>>

MergeOpenOrdersOnly ==               (* mutant: of the data only           *)
  /\ Deliver("mergeOpen", <<>>)
  /\ openOrders' = Head(queue).ids
  /\ UNCHANGED <<tempOrders, history, streamVars>>

MergeOpenOrders ==
  /\ Deliver("mergeOpen", <<>>)
  /\ openOrders' = openOrders \cup Head(queue).ids
  /\ UNCHANGED <<tempOrders, history, streamVars>>

(* TradeHistoryStorage::merge: an order it has is left as it is.           *)
MergeTradeHistoryReplacing ==        (* mutant: of the data only           *)
  /\ Deliver("mergeHistory", <<>>)
  /\ history' = Head(queue).ids
  /\ UNCHANGED <<tempOrders, openOrders, streamVars>>

MergeTradeHistory ==
  /\ Deliver("mergeHistory", <<>>)
  /\ history' = history \cup Head(queue).ids
  /\ UNCHANGED <<tempOrders, openOrders, streamVars>>

-----------------------------------------------------------------------------
(* Losing the user data stream and catching up.                            *)

(* The reports that have not arrived, from the n-th event on, are lost;    *)
(* the signal of the socket is posted.                                     *)
Disconnect ==
  /\ reloads < MaxReloads /\ reloads' = reloads + 1
  /\ connected /\ todo = {}
  /\ connected' = FALSE
  /\ \E n \in 1 .. Len(queue) + 1 :
       LET lost == {k \in n .. Len(queue) : queue[k].kind = "report"}
           left == [k \in DOMAIN queue |->
                      IF k \in lost THEN About("lost", {}, "live") ELSE queue[k]]
       IN  /\ missed' = missed \cup UNION {queue[k].ids : k \in lost}
           /\ queue' = Append(left, About("disconnected", {}, "live"))
  /\ UNCHANGED <<exchangeVars, replies, tempOrders, storageVars, todo>>

SkipLost ==
  /\ Deliver("lost", <<>>)
  /\ UNCHANGED <<tempOrders, storageVars, streamVars>>

(* The handler of disconnectedPrivateApi: authorise, then reload every     *)
(* pair.  It runs nested event loops, hence the list of what is left.      *)
ReloadPrivateData ==
  /\ Deliver("disconnected", <<>>)
  /\ todo' = Calls
  /\ UNCHANGED <<tempOrders, storageVars, connected, reloads, missed>>

(* The break timer ends the block of the requests and asks for the same    *)
(* reload.                                                                 *)
Unblock ==
  /\ "unsent" \in Faults
  /\ reloads < MaxReloads /\ reloads' = reloads + 1
  /\ todo = {}
  /\ todo' = Calls
  /\ UNCHANGED <<exchangeVars, replies, queue, tempOrders,
                 storageVars, connected, missed>>

(* The socket opens on its own thread once processUserAuth asked for it.   *)
Connect ==
  /\ ~connected
  /\ \A e \in Range(queue) : e.kind # "disconnected"
  /\ connected' = TRUE
  /\ UNCHANGED <<exchangeVars, replies, queue, tempOrders,
                 storageVars, todo, reloads, missed>>

Answering == \E r \in replies : r.kind \in {"historyReply", "openReply"}

(* Each call waits in a nested loop for its answer.  History first, then   *)
(* the open orders of the same pair.                                       *)
MayCall(c) ==
  /\ c \in todo
  /\ ~Answering
  /\ IF c.call = "open"
     THEN [c EXCEPT !.call = "history"] \notin todo
     ELSE \A d \in todo : [d EXCEPT !.call = "history"] \in todo

ReloadHistory(m) ==
  LET c == [call |-> "history", market |-> m]
      ids == {i \in traded : orders[i].market = m}
      settled == {i \in ids : orders[i].status \in FilledStatuses}
      status == IF Single([ids |-> ids]) THEN orders[Subject([ids |-> ids])].status
                                         ELSE "live"
  IN  /\ MayCall(c)
      /\ todo' = todo \ {c}
      /\ replies' = replies \cup {About("historyReply", ids, status)}
      /\ missed' = missed \ settled
      /\ UNCHANGED <<exchangeVars, queue, tempOrders, storageVars,
                     connected, reloads>>

ReloadOpenOrders(m) ==
  LET c == [call |-> "open", market |-> m]
      ids == {i \in DOMAIN orders : orders[i].market = m /\ orders[i].status = "live"}
  IN  /\ MayCall(c)
      /\ todo' = todo \ {c}
      /\ replies' = replies \cup {About("openReply", ids, "live")}
      /\ missed' = missed \ ids
      /\ UNCHANGED <<exchangeVars, queue, tempOrders, storageVars,
                     connected, reloads>>

(* A blocked request is skipped.                                           *)
SkipCall(c) ==
  /\ "unsent" \in Faults
  /\ MayCall(c)
  /\ todo' = todo \ {c}
  /\ UNCHANGED <<exchangeVars, replies, queue, tempOrders,
                 storageVars, connected, reloads, missed>>

Reload ==
  \/ \E m \in Markets : ReloadHistory(m) \/ ReloadOpenOrders(m)
  \/ \E c \in todo : SkipCall(c)

-----------------------------------------------------------------------------

Algorithm ==
  \/ \E m \in Markets, s \in Sides, q \in Quotes : SubmitOrder(m, s, q)
  \/ \E i \in openOrders : CancelOrder(i)

HandleEvent ==
  \/ ReportLive \/ ReportFilled \/ ReportClosed
  \/ MergeOpenOrders \/ MergeTradeHistory
  \/ SkipLost \/ ReloadPrivateData

HandleAnswer(r) ==
  \/ AnswerNewOrder(r) \/ AnswerNewOrderError(r) \/ AnswerCancel(r)
  \/ AnswerOpenOrders(r) \/ AnswerTradeHistory(r)

Loop == HandleEvent \/ \E r \in replies : HandleAnswer(r)

Next == Algorithm \/ Exchange \/ Loop \/ Disconnect \/ Unblock \/ Connect \/ Reload

Spec == Init /\ [][Next]_vars

(* The scheduling that can be relied on: the loop delivers what is posted  *)
(* and handles what arrives, and the exchange acts on a POST it got.       *)
FairSpec ==
  /\ Spec
  /\ WF_vars(HandleEvent)
  /\ WF_vars(\E r \in replies : HandleAnswer(r))
  /\ \A k \in Ids : WF_vars(k \in DOMAIN orders /\
                            (AcceptResting(k) \/ AcceptKilled(k) \/
                             \E status \in FilledStatuses : AcceptFilled(k, status)))

-----------------------------------------------------------------------------
(* Properties.                                                             *)

InFlight == replies \cup Range(queue)

OnPair(i, m, s) == orders[i].market = m /\ orders[i].side = s

(* The table never holds two orders of one type on one pair, whatever      *)
(* answers and reports were matched to its records                         *)
(* (TemporaryOrdersTable::submitOrder, updatePlaceOrder).                  *)
OneRecordPerSide ==
  \A r1, r2 \in tempOrders :
    r1.market = r2.market /\ r1.side = r2.side => r1 = r2

(* An order whose POST has not reached the exchange is in the table: no    *)
(* late answer about another order has removed its record, so a second     *)
(* order of that type is still refused (updateEraseOrder's matching).      *)
SentOrderHasRecord ==
  \A i \in DOMAIN orders : orders[i].status = "sent" =>
    \E r \in tempOrders : SameQuote(r, i) /\ r.side = orders[i].side

(* Two requests for an order of one type on one pair are never on their    *)
(* way at the same time.                                                   *)
OnePostInFlight ==
  \A i, j \in DOMAIN orders :
    (/\ orders[i].status = "sent" /\ orders[j].status = "sent"
     /\ OnPair(i, orders[j].market, orders[j].side)) => i = j

(* A record is there for a reason: its order is on its way, or the first   *)
(* report about it is.  Otherwise it would refuse the orders of its type   *)
(* for ever (who erases it: processExecutionReportStream, processNewOrders)*)
RecordHasOrder ==
  \A r \in tempOrders : \E i \in DOMAIN orders :
    /\ OnPair(i, r.market, r.side)
    /\ \/ orders[i].status = "sent"
       \/ \E e \in InFlight : e.kind = "report" /\ i \in e.ids /\ e.status = "live"

(* An order that rests in the book is in the open orders storage, or the   *)
(* news of it are on their way, or the stream lost them: no merge and no   *)
(* removal makes the bot forget an order the exchange holds                *)
(* (OpenOrdersStorage::merge, ::remove and whoever calls them).            *)
LiveOrderKnown ==
  \A i \in DOMAIN orders : orders[i].status = "live" =>
    \/ i \in openOrders \cup missed
    \/ \E e \in InFlight :
         /\ i \in e.ids
         /\ \/ e.kind = "report" /\ e.status = "live"
            \/ e.kind \in {"openReply", "mergeOpen"}

(* An executed order is in the trade history the steps average over, or    *)
(* on its way there, or the stream lost it (TradeHistoryStorage::merge).   *)
FillRecorded ==
  \A i \in DOMAIN orders : orders[i].status \in FilledStatuses =>
    \/ i \in history \cup missed
    \/ \E e \in InFlight :
         /\ i \in e.ids
         /\ \/ e.kind = "report" /\ e.status \in FilledStatuses
            \/ e.kind \in {"historyReply", "mergeHistory"}

(* A pair and side that an order blocks in the table is freed again.       *)
SideFreed ==
  \A m \in Markets, s \in Sides :
    (\E r \in tempOrders : r.market = m /\ r.side = s)
      ~> (\A r \in tempOrders : r.market # m \/ r.side # s)

(* temporary_orders_table.cpp:97 says a record is there when "the pair has *)
(* such a type of order already": when nothing is on its way any more, an  *)
(* order of that type is at the exchange.                                  *)
Quiet == replies = {} /\ queue = <<>> /\ todo = {} /\ cancels = {}

RefusalJustified ==
  Quiet => \A r \in tempOrders : \E i \in DOMAIN orders :
             OnPair(i, r.market, r.side) /\ orders[i].status \in {"sent", "live"}

(* temporary_orders_table.cpp:98: "we do not allow to place a duplicate or *)
(* a second order of that type" on a pair.                                 *)
NoSecondOrder ==
  \A i, j \in DOMAIN orders :
    (/\ {orders[i].status, orders[j].status} \subseteq {"sent", "live"}
     /\ OnPair(i, orders[j].market, orders[j].side)) => i = j

(* zero_step.cpp:200 "check whether there is an open order": once nothing  *)
(* is on its way, an order the storage holds is open at the exchange.      *)
StoredOrderOpen ==
  Quiet => \A i \in openOrders : orders[i].status = "live"
=============================================================================
