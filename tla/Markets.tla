------------------------------- MODULE Markets -------------------------------
(***************************************************************************)
(* The life of the trading pairs: what the exchange lists, the two copies  *)
(* of every Market the bot keeps (MarketsStorage for the algorithms,       *)
(* MarketsModel for the windows), the order books and the history of the   *)
(* pairs that are traded, the sessions of the Hanukkah algorithm, and the  *)
(* rows of the database a restart begins with.                             *)
(*                                                                         *)
(* Everything runs in the main thread.  The connections to MarketsModel    *)
(* and to the two lists of filters are direct, those to the storages are   *)
(* queued: an answer, a click or a timer changes the model at once and the *)
(* storage when the loop delivers its event.  A UserConfig travels whole;  *)
(* that of a step of Hanukkah is queued twice (invokeMethod first).        *)
(*                                                                         *)
(* Abstractions: of a UserConfig, the trade mark, the pause, the trend and *)
(* how many sides of the table of steps are closed, which also says that   *)
(* the cycle has a start; of a Market's own values, its status; of an      *)
(* order book, that there is one; of a history, the side of its newest     *)
(* trade.  The currencies of a pair come with its own description and are  *)
(* always found.  The list of markets is kept in the order of the pairs.   *)
(***************************************************************************)
EXTENDS Integers, Sequences, FiniteSets, Functions, SequencesExt

CONSTANTS
  Pairs,      (* pairs of the exchange, numbers in the order of lists      *)
  Others,     (* whether it always lists some more, which nobody trades    *)
  Rates,      (* trends, in percent                                        *)
  MaxSteps,   (* bound: sides of steps closed in a cycle                   *)
  MaxQueue,   (* bound: posted events, beyond it nobody posts              *)
  MaxLoads,   (* bound: loads of the rows inside each other                *)
  Inputs,     (* what comes besides data and clicks, see InputKinds        *)
  Races,      (* what may happen in between, see RaceKinds                 *)
  Faults      (* what the environment may do, see FaultKinds               *)

(* The books of the streams, the trades of the user, clicks on the pause.  *)
InputKinds == {"book", "trade", "pause"}

(* While an update of a configuration is posted: "trend" - the timer of    *)
(* TrendSearcher fires, "tick" - that of Hanukkah, "user" - a click (also  *)
(* during a load), "quit" - the bot is closed.  "reload" - data arrive in  *)
(* the loop of a load; "early" - the bot is closed before the load; "row"  *)
(* - the bot dies while a row is there that removeMarket has left.         *)
RaceKinds == {"trend", "tick", "user", "quit", "reload", "early", "row"}

(* "stop" - the bot is closed and started; "crash" - it dies; "upgrade" -  *)
(* the next version has another scheme; "listing" - the exchange lists,    *)
(* unlists, closes and opens pairs.                                        *)
FaultKinds == {"stop", "crash", "upgrade", "listing"}

ASSUME PairsAssumption == Pairs \subseteq Nat /\ IsFiniteSet(Pairs)
ASSUME OthersAssumption == Others \in BOOLEAN
ASSUME RatesAssumption == Rates \subseteq Int /\ 0 \in Rates
ASSUME BoundsAssumption == {MaxSteps, MaxQueue, MaxLoads} \subseteq Nat \ {0}
ASSUME InputsAssumption == Inputs \subseteq InputKinds
ASSUME RacesAssumption == Races \subseteq RaceKinds
ASSUME FaultsAssumption == Faults \subseteq FaultKinds

VARIABLES
  listing,      (* exchange: the status of the pairs it lists             *)
  storage,      (* MarketsStorage::m_Data                                 *)
  model,        (* MarketsModel::m_Data                                   *)
  filters,      (* m_Filters of the books and histories                   *)
  books,        (* MarketOrdersStorage: pairs with a book                 *)
  booksModel,   (* MarketOrdersModel: the same                            *)
  history,      (* TradeHistoryStorage: the side of the newest trade      *)
  historyModel, (* TradeHistoryModel: the same                            *)
  session,      (* Hanukkah::m_sessionContainer, see Sessions             *)
  streams,      (* books among m_streamTemplates, each a set of pairs     *)
  queue,        (* posted events                                          *)
  informed,     (* the description of the markets has arrived             *)
  loaded,       (* IExchangeAPI::m_isLoaded                               *)
  loads,        (* loadState under way, the innermost last                *)
  rows,         (* markets_cache                                          *)
  leftover,     (* auxiliary: the rows of pairs removed since             *)
  wanted,       (* auxiliary: the pairs the user wants traded             *)
  progress      (* auxiliary: sides of steps closed in the cycle          *)

copyVars == <<storage, model>>
dataVars == <<books, booksModel, history, historyModel>>
loadVars == <<loaded, loads>>
rowVars == <<rows, leftover>>
userVars == <<wanted, progress>>
vars == <<listing, copyVars, filters, dataVars, session, streams, queue,
          informed, loadVars, rowVars, userVars>>

-----------------------------------------------------------------------------
(* Values.                                                                 *)

Statuses == {"Ok", "Closed"}
Sides == {"buy", "sell"}

UserConfig == [tradable : BOOLEAN, pause : BOOLEAN, rate : Rates, steps : 0 .. MaxSteps]
NewConfig == [tradable |-> FALSE, pause |-> FALSE, rate |-> 0, steps |-> 0]
Market == [config : UserConfig, status : Statuses]

(* Functions of some of the pairs.                                         *)
OfSome(S) == UNION {[P -> S] : P \in SUBSET Pairs}
Nothing == <<>>
Without(f, p) == Restrict(f, DOMAIN f \ {p})
With(f, p, v) == [q \in DOMAIN f \cup {p} |-> IF q = p THEN v ELSE f[q]]

(* A session keeps the Market it was made with: {} if the storage still    *)
(* has it, else the configuration with which that object was left.         *)
Sessions == {{}} \cup {{c} : c \in UserConfig}

Infos == [kind : {"info"}, markets : OfSome(Statuses)]
Datas == [kind : {"data"}, pairs : SUBSET Pairs]
Updates == [kind : {"update", "forward"}, pair : Pairs, config : UserConfig]
Orders == [kind : {"books"}, pair : Pairs]
          \cup [kind : {"history"}, pair : Pairs, side : Sides]
Event == Infos \cup Datas \cup Updates \cup Orders

(* A load: what the SELECT gave, and the pairs it has still to append.     *)
Load == [group : OfSome(UserConfig), left : SUBSET Pairs]

TypeOK ==
  /\ listing \in OfSome(Statuses)
  /\ storage \in OfSome(Market)
  /\ model \in OfSome(Market)
  /\ filters \subseteq Pairs
  /\ books \subseteq Pairs
  /\ booksModel \subseteq Pairs
  /\ history \in OfSome(Sides)
  /\ historyModel \in OfSome(Sides)
  /\ session \in OfSome(Sessions)
  /\ streams \subseteq SUBSET Pairs
  /\ queue \in Seq(Event)
  /\ informed \in BOOLEAN
  /\ loaded \in BOOLEAN
  /\ loads \in Seq(Load)
  /\ rows \in OfSome(UserConfig)
  /\ leftover \subseteq DOMAIN rows
  /\ wanted \subseteq Pairs
  /\ progress \in [Pairs -> 0 .. MaxSteps]

(* A new BinanceAPI with its storages, models and algorithms.              *)
Init ==
  /\ storage = Nothing
  /\ model = Nothing
  /\ filters = {}
  /\ books = {}
  /\ booksModel = {}
  /\ history = Nothing
  /\ historyModel = Nothing
  /\ session = Nothing
  /\ streams = {}
  /\ queue = <<>>
  /\ informed = FALSE
  /\ loaded = FALSE
  /\ loads = <<>>
  /\ listing = [p \in Pairs |-> "Ok"]
  /\ rows = Nothing
  /\ leftover = {}
  /\ wanted = {}
  /\ progress = [p \in Pairs |-> 0]

-----------------------------------------------------------------------------
(* The merges, the same in the storage and in the model.                   *)

MergeInfoAnew(markets, info) ==      (* mutant: the configuration is reset *)
  [p \in DOMAIN info |-> [config |-> NewConfig, status |-> info[p]]]

(* mergeMarketInfo: pairs no longer listed are erased, new ones appended   *)
(* with a default UserConfig.                                              *)
MergeInfo(markets, info) ==
  [p \in DOMAIN info |->
     [config |-> IF p \in DOMAIN markets THEN markets[p].config ELSE NewConfig,
      status |-> info[p]]]

(* Market::setConfig: the setters of the numbers leave out a zero, which   *)
(* is what an entry has where it says nothing; that of the status does     *)
(* not, so an entry of the data, which has no status, sets the default.    *)
SetConfig(market) == [market EXCEPT !.status = "Ok"]

(* mergeMarketData.                                                        *)
MergeData(markets, pairs) ==
  [p \in DOMAIN markets |->
     IF p \in pairs THEN SetConfig(markets[p]) ELSE markets[p]]

(* updateMarketUserConfig and updateMarketConfig.                          *)
SetUserConfig(markets, p, c) ==
  IF p \in DOMAIN markets THEN [markets EXCEPT ![p].config = c] ELSE markets

MergeTradeOfAny(trades, markets, p, side) ==    (* mutant: no filter       *)
  IF p \in DOMAIN markets THEN With(trades, p, side) ELSE trades

(* The merge of a book and of a trade, in a storage and in its model: the  *)
(* pair must be in the filters and among the markets.                      *)
MergeBook(pairs, markets, p) ==
  IF p \in filters \cap DOMAIN markets THEN pairs \cup {p} ELSE pairs \ {p}
MergeTrade(trades, markets, p, side) ==
  IF p \in filters \cap DOMAIN markets THEN With(trades, p, side) ELSE trades

(* filterTradingPairs.                                                     *)
TradingPairs(markets) == {p \in DOMAIN markets : markets[p].config.tradable}

(* insert and remove of the two lists of a pair, and the template of its   *)
(* stream.                                                                 *)
Insert(p) == filters' = filters \cup {p}
RemoveBook(p) == books' = books \ {p} /\ booksModel' = booksModel \ {p}
RemoveHistory(p) ==
  history' = Without(history, p) /\ historyModel' = Without(historyModel, p)
Subscribe(S) == streams' = streams \cup {S}
Unsubscribe(p) == streams' = streams \ {{p}}

Update(p, c) == [kind |-> "update", pair |-> p, config |-> c]
Updated == {e \in ToSet(queue) : e.kind \in {"update", "forward"}}
Quiet(race) == race \in Races \/ Updated = {}
Patient == Quiet("user") /\ ("user" \in Races \/ loads = <<>>)
Room(n) == Len(queue) + n <= MaxQueue

-----------------------------------------------------------------------------
(* The answers of the exchange and the market streams.                     *)

(* processExchangeInfo: receiveMarketInfo goes to the model at once and to *)
(* the storage through the loop, unless the list is empty.                 *)
InfoArrives ==
  /\ listing # Nothing \/ Others
  /\ Room(1)
  /\ model' = MergeInfo(model, listing)
  /\ queue' = Append(queue, [kind |-> "info", markets |-> listing])
  /\ informed' = TRUE
  /\ UNCHANGED <<listing, storage, filters, dataVars, session, streams, loadVars,
                 rowVars, userVars>>

(* appendMarketsGroup, the part for one pair; its requests for the trades  *)
(* and orders of the pair then wait in a nested event loop.                *)
AppendLoaded(markets, events, load, p) ==
  /\ Insert(p)
  /\ model' = SetUserConfig(markets, p, load.group[p])
  /\ queue' = Append(events, Update(p, load.group[p]))

(* The data of all pairs, by the answer or by the stream of all tickers.   *)
Ticker == [kind |-> "data", pairs |-> DOMAIN listing]

(* processMarketData: the storage's copy is posted, the model's is merged, *)
(* and mergeCompleted calls loadState, which reads the rows unless a load  *)
(* has come to its end before.                                             *)
DataArrives ==
  /\ informed
  /\ "reload" \in Races \/ loads = <<>>
  /\ LET merged == MergeData(model, Ticker.pairs)
         posted == Append(queue, Ticker)
     IN \/ /\ loaded \/ rows = Nothing
           /\ Room(1)
           /\ model' = merged
           /\ queue' = posted
           /\ loaded' = TRUE
           /\ UNCHANGED <<filters, loads>>
        \/ /\ ~loaded /\ rows # Nothing
           /\ Room(2)
           /\ Len(loads) < MaxLoads
           /\ \E p \in DOMAIN rows :
                LET load == [group |-> rows, left |-> DOMAIN rows \ {p}]
                IN /\ AppendLoaded(merged, posted, load, p)
                   /\ loads' = Append(loads, load)
           /\ UNCHANGED loaded
  /\ UNCHANGED <<listing, storage, dataVars, session, streams, informed, rowVars,
                 userVars>>

(* The innermost nested loop ends: the next pair of the group ...          *)
LoadNext ==
  /\ loads # <<>>
  /\ Room(1)
  /\ LET load == Last(loads)
     IN \E p \in load.left :
          /\ AppendLoaded(model, queue, load, p)
          /\ loads' = Append(Front(loads), [load EXCEPT !.left = @ \ {p}])
  /\ UNCHANGED <<listing, storage, dataVars, session, streams, informed, loaded, rowVars,
                 userVars>>

LoadEndLate ==                       (* mutant: those that now have a row   *)
  /\ loads # <<>>
  /\ Last(loads).left = {}
  /\ Subscribe(DOMAIN rows)
  /\ loaded' = TRUE
  /\ loads' = Front(loads)
  /\ UNCHANGED <<listing, copyVars, filters, dataVars, session, queue, informed, rowVars,
                 userVars>>

(* ... or the streams of the whole group as one template, and the end.     *)
LoadEnd ==
  /\ loads # <<>>
  /\ Last(loads).left = {}
  /\ Subscribe(DOMAIN Last(loads).group)
  /\ loaded' = TRUE
  /\ loads' = Front(loads)
  /\ UNCHANGED <<listing, copyVars, filters, dataVars, session, queue, informed, rowVars,
                 userVars>>

(* processPartialBookDepthStream.                                          *)
BookArrives(p) ==
  /\ "book" \in Inputs
  /\ p \in UNION streams
  /\ Room(1)
  /\ booksModel' = MergeBook(booksModel, model, p)
  /\ queue' = Append(queue, [kind |-> "books", pair |-> p])
  /\ UNCHANGED <<listing, copyVars, filters, books, history, historyModel, session,
                 streams, informed, loadVars, rowVars, userVars>>

(* A trade of the user, by the history or by a report.                     *)
TradeArrives(p, side) ==
  /\ "trade" \in Inputs
  /\ informed
  /\ Room(1)
  /\ historyModel' = MergeTrade(historyModel, model, p, side)
  /\ queue' = Append(queue, [kind |-> "history", pair |-> p, side |-> side])
  /\ UNCHANGED <<listing, copyVars, filters, books, booksModel, history, session,
                 streams, informed, loadVars, rowVars, userVars>>

-----------------------------------------------------------------------------
(* Deliveries to the storages.                                             *)

(* A Market that mergeMarketInfo erases lives on in the session.           *)
DeliverInfo ==
  /\ queue # <<>> /\ Head(queue).kind = "info"
  /\ LET info == Head(queue).markets
     IN /\ storage' = MergeInfo(storage, info)
        /\ session' = [p \in DOMAIN session |->
                         IF session[p] = {} /\ p \notin DOMAIN info
                         THEN {storage[p].config} ELSE session[p]]
  /\ queue' = Tail(queue)
  /\ UNCHANGED <<listing, model, filters, dataVars, streams, informed, loadVars, rowVars,
                 userVars>>

DeliverData ==
  /\ queue # <<>> /\ Head(queue).kind = "data"
  /\ storage' = MergeData(storage, Head(queue).pairs)
  /\ queue' = Tail(queue)
  /\ UNCHANGED <<listing, model, filters, dataVars, session, streams, informed,
                 loadVars, rowVars, userVars>>

DeliverUpdate ==
  /\ queue # <<>> /\ Head(queue).kind = "update"
  /\ storage' = SetUserConfig(storage, Head(queue).pair, Head(queue).config)
  /\ queue' = Tail(queue)
  /\ UNCHANGED <<listing, model, filters, dataVars, session, streams, informed,
                 loadVars, rowVars, userVars>>

DeliverForwardToStorage ==           (* mutant: the model is not connected  *)
  /\ queue # <<>> /\ Head(queue).kind = "forward"
  /\ queue' = Append(Tail(queue), Update(Head(queue).pair, Head(queue).config))
  /\ UNCHANGED <<listing, copyVars, filters, dataVars, session, streams, informed,
                 loadVars, rowVars, userVars>>

(* The signal of the controller that a step has posted: the model at once, *)
(* the storage after what is posted by now.                                *)
DeliverForward ==
  /\ queue # <<>> /\ Head(queue).kind = "forward"
  /\ LET e == Head(queue)
     IN /\ model' = SetUserConfig(model, e.pair, e.config)
        /\ queue' = Append(Tail(queue), Update(e.pair, e.config))
  /\ UNCHANGED <<listing, storage, filters, dataVars, session, streams, informed,
                 loadVars, rowVars, userVars>>

DeliverBook ==
  /\ queue # <<>> /\ Head(queue).kind = "books"
  /\ books' = MergeBook(books, storage, Head(queue).pair)
  /\ queue' = Tail(queue)
  /\ UNCHANGED <<listing, copyVars, filters, booksModel, history, historyModel,
                 session, streams, informed, loadVars, rowVars, userVars>>

DeliverTrade ==
  /\ queue # <<>> /\ Head(queue).kind = "history"
  /\ history' = MergeTrade(history, storage, Head(queue).pair, Head(queue).side)
  /\ queue' = Tail(queue)
  /\ UNCHANGED <<listing, copyVars, filters, books, booksModel, historyModel,
                 session, streams, informed, loadVars, rowVars, userVars>>

Deliver == DeliverInfo \/ DeliverData \/ DeliverUpdate \/ DeliverForward
           \/ DeliverBook \/ DeliverTrade

-----------------------------------------------------------------------------
(* The user.                                                               *)

(* The windows offer the pairs that are open and not traded, once volume   *)
(* and price have come with the data, and show those that are traded.      *)
Offered ==
  {p \in DOMAIN model : model[p].status = "Ok" /\ ~model[p].config.tradable}
Shown == TradingPairs(model)

(* MarketsModel::setData: the window marks the model's market itself.      *)
Marked(p, tradable) == [model EXCEPT ![p].config.tradable = tradable]

(* The window writes a new table into the market and marks it as traded,   *)
(* then calls appendMarket.                                                *)
AppendMarket(p) ==
  /\ Patient
  /\ loaded \/ loads # <<>>
  /\ p \in Offered
  /\ Room(1)
  /\ LET c == [Marked(p, TRUE)[p].config EXCEPT !.steps = 0]
     IN /\ model' = SetUserConfig(model, p, c)
        /\ queue' = Append(queue, Update(p, c))
  /\ Insert(p)
  /\ Subscribe({p})
  /\ wanted' = wanted \cup {p}
  /\ progress' = [progress EXCEPT ![p] = 0]
  /\ UNCHANGED <<listing, storage, dataVars, session, informed, loadVars, rowVars>>

PauseMarket(p) ==
  /\ "pause" \in Inputs
  /\ Patient
  /\ p \in Shown
  /\ Room(1)
  /\ LET c == [model[p].config EXCEPT !.pause = ~@]
     IN /\ model' = SetUserConfig(model, p, c)
        /\ queue' = Append(queue, Update(p, c))
  /\ UNCHANGED <<listing, storage, filters, dataVars, session, streams, informed,
                 loadVars, rowVars, userVars>>

(* The window marks the model's market, then removeMarket drops the book,  *)
(* the history and the session of the pair at once and posts what the      *)
(* storage has, marked.  The row stays; its orders stay: cancelOrder       *)
(* refuses a call without a market.                                        *)
RemoveMarket(p) ==
  /\ Patient
  /\ p \in Shown
  /\ Room(1)
  /\ Unsubscribe(p)
  /\ filters' = filters \ {p}
  /\ RemoveBook(p)
  /\ RemoveHistory(p)
  /\ session' = Without(session, p)
  /\ IF p \in DOMAIN storage
     THEN LET c == [storage[p].config EXCEPT !.tradable = FALSE, !.rate = 0]
          IN /\ model' = SetUserConfig(model, p, c)
             /\ queue' = Append(queue, Update(p, c))
     ELSE /\ model' = Marked(p, FALSE)
          /\ UNCHANGED queue
  /\ wanted' = wanted \ {p}
  /\ leftover' = leftover \cup ({p} \cap DOMAIN rows)
  /\ UNCHANGED <<listing, storage, informed, loadVars, rows, progress>>

-----------------------------------------------------------------------------
(* The timers.                                                             *)

(* TrendSearcher looks at the pairs in turn and gives up at the first it   *)
(* can say nothing of: no trade yet, or a purchase without a start of the  *)
(* cycle or without a sell to compare it with.                             *)
Judged(p) ==
  /\ p \in DOMAIN history
  /\ history[p] = "buy" => storage[p].config.steps > 0 /\ p \in books

Reached == {p \in TradingPairs(storage) :
              \A q \in TradingPairs(storage) : q <= p => Judged(q)}

(* How far the book is from the first purchase, by findFirstSellPrice and  *)
(* calcPerc: anything.                                                     *)
RatesFound == [Reached -> Rates]

TrendTimer ==
  /\ Quiet("trend")
  /\ \E rate \in RatesFound :
       LET moved == {p \in Reached : rate[p] # storage[p].config.rate}
           config == [p \in moved |-> [storage[p].config EXCEPT !.rate = rate[p]]]
       IN /\ \A p \in Reached : history[p] = "sell" => rate[p] = 0
          /\ moved # {}
          /\ Room(Cardinality(moved))
          /\ \E pass \in [1 .. Cardinality(moved) -> moved] :
               /\ \A i, j \in DOMAIN pass : i < j => pass[i] < pass[j]
               /\ queue' = queue \o [i \in DOMAIN pass |->
                                      Update(pass[i], config[pass[i]])]
          /\ model' = [p \in DOMAIN model |->
               IF p \in moved THEN [model[p] EXCEPT !.config = config[p]] ELSE model[p]]
  /\ UNCHANGED <<listing, storage, filters, dataVars, session, streams, informed,
                 loadVars, rowVars, userVars>>

(* execLogic: every pair marked in the storage gets a session; the steps   *)
(* work with the market of their session.                                  *)
WithSessions ==
  [p \in DOMAIN session \cup TradingPairs(storage) |->
     IF p \in DOMAIN session THEN session[p] ELSE {}]
ConfigOf(p) ==
  IF WithSessions[p] = {} THEN storage[p].config
  ELSE CHOOSE c \in WithSessions[p] : TRUE

PostForward(p, c) ==
  /\ Room(1)
  /\ queue' = Append(queue, [kind |-> "forward", pair |-> p, config |-> c])

(* updateMarketMetaConfig: a side of a step closes; the row of the pair is *)
(* written at once, the configuration posted.                              *)
CloseWith(p, c, saved) ==
  /\ PostForward(p, c)
  /\ rows' = saved
  /\ leftover' = leftover \ {p}
  /\ progress' = [progress EXCEPT ![p] = IF @ < MaxSteps THEN @ + 1 ELSE @]
NextStep(p) == [ConfigOf(p) EXCEPT !.steps = @ + 1]
Row(c) == [c EXCEPT !.tradable = TRUE]

CloseStepBeyond(p) ==                (* mutant: one step too many           *)
  /\ ConfigOf(p).steps <= MaxSteps
  /\ CloseWith(p, NextStep(p), With(rows, p, Row(NextStep(p))))

CloseStepOnce(p) ==                  (* mutant: only the first step saved   *)
  /\ ConfigOf(p).steps < MaxSteps
  /\ CloseWith(p, NextStep(p),
               IF p \in DOMAIN rows THEN rows ELSE With(rows, p, Row(NextStep(p))))

CloseStep(p) ==
  /\ ConfigOf(p).steps < MaxSteps
  /\ CloseWith(p, NextStep(p), With(rows, p, Row(NextStep(p))))

(* unlockAllSteps: the cycle is over and the row is deleted.               *)
EndCycle(p) ==
  /\ ConfigOf(p).steps > 0
  /\ PostForward(p, [ConfigOf(p) EXCEPT !.steps = 0])
  /\ rows' = Without(rows, p)
  /\ leftover' = leftover \ {p}
  /\ progress' = [progress EXCEPT ![p] = 0]

HanukkahTimer ==
  /\ Quiet("tick")
  /\ session' = WithSessions
  /\ \/ /\ session' # session
        /\ UNCHANGED <<queue, rowVars, progress>>
     \/ \E p \in TradingPairs(storage) : CloseStep(p) \/ EndCycle(p)
  /\ UNCHANGED <<listing, copyVars, filters, dataVars, streams, informed, loadVars,
                 wanted>>

-----------------------------------------------------------------------------
(* The end of the bot and the next start.                                  *)

Restarted ==
  /\ storage' = Nothing
  /\ model' = Nothing
  /\ filters' = {}
  /\ books' = {}
  /\ booksModel' = {}
  /\ history' = Nothing
  /\ historyModel' = Nothing
  /\ session' = Nothing
  /\ streams' = {}
  /\ queue' = <<>>
  /\ informed' = FALSE
  /\ loaded' = FALSE
  /\ loads' = <<>>

(* ~ExchangePool: saveState deletes every row and writes those of the      *)
(* pairs marked in the storage, whatever has been loaded.                  *)
Saved == [p \in TradingPairs(storage) |-> storage[p].config]

StopWith(saved) ==
  /\ "stop" \in Faults
  /\ Quiet("quit")
  /\ loads = <<>>
  /\ loaded \/ "early" \in Races
  /\ rows' = saved
  /\ leftover' = {}
  /\ Restarted
  /\ UNCHANGED <<listing, userVars>>

StopAdding ==                        (* mutant: no row is deleted           *)
  StopWith([p \in DOMAIN rows \cup DOMAIN Saved |->
              IF p \in DOMAIN Saved THEN Saved[p] ELSE rows[p]])

Stop == StopWith(Saved)

(* What has no row is forgotten.                                           *)
Crash ==
  /\ "crash" \in Faults
  /\ leftover = {} \/ "row" \in Races
  /\ Restarted
  /\ wanted' = wanted \cap DOMAIN rows
  /\ progress' = [p \in Pairs |-> IF p \in wanted' THEN progress[p] ELSE 0]
  /\ UNCHANGED <<listing, rowVars>>

(* openDatabase: another scheme_version, and the file is replaced by an    *)
(* empty one.                                                              *)
Upgrade ==
  /\ "upgrade" \in Faults
  /\ loads = <<>>
  /\ Restarted
  /\ rows' = Nothing
  /\ leftover' = {}
  /\ wanted' = {}
  /\ progress' = [p \in Pairs |-> 0]
  /\ UNCHANGED listing

ListingChanges ==
  /\ "listing" \in Faults
  /\ \E p \in Pairs :
       listing' \in {Without(listing, p)} \cup {With(listing, p, s) : s \in Statuses}
  /\ listing' # listing
  /\ UNCHANGED <<copyVars, filters, dataVars, session, streams, queue, informed,
                 loadVars, rowVars, userVars>>

Next ==
  \/ InfoArrives \/ DataArrives \/ LoadNext \/ LoadEnd
  \/ \E p \in Pairs : BookArrives(p)
  \/ \E p \in Pairs, side \in Sides : TradeArrives(p, side)
  \/ Deliver
  \/ \E p \in Pairs : AppendMarket(p) \/ PauseMarket(p) \/ RemoveMarket(p)
  \/ TrendTimer \/ HanukkahTimer
  \/ Stop \/ Crash \/ Upgrade \/ ListingChanges

Spec == Init /\ [][Next]_vars

-----------------------------------------------------------------------------
(* Properties.                                                             *)

(* Nothing is posted and no load is under way.                             *)
Settled == queue = <<>> /\ loads = <<>>

(* Once every posted event is delivered the windows show the markets as    *)
(* the algorithms have them: the direct and the queued connections of      *)
(* every change bring both copies to the same end.                         *)
ModelAgrees == queue = <<>> => model = storage

(* A pair that is not traded leaves no book and no history behind, in the  *)
(* storages and in the windows, even when a merge of it was posted before  *)
(* removeMarket.                                                           *)
NothingOfRemoved ==
  books \cup booksModel \cup DOMAIN history \cup DOMAIN historyModel \subseteq filters

(* The book of every pair that is traded is subscribed to, by its own      *)
(* template or by that of the group it was loaded with.                    *)
StreamsCover == loads = <<>> => filters \subseteq UNION streams

(* What the user has put into trade stays there, through updates of the    *)
(* steps and of TrendSearcher, closings and starts.                        *)
WantedTraded ==
  Settled /\ loaded => wanted \subseteq TradingPairs(storage)

(* What the user has stopped stays out: "Stop %1" (TradingPairsView.qml).  *)
RemovedStaysOut ==
  Settled /\ loaded => TradingPairs(storage) \subseteq wanted

(* No update loses a step of the cycle, and a restart takes the cycle up   *)
(* where it was: the row is written when a side closes and when the bot is *)
(* closed.                                                                 *)
StepsKept ==
  Settled /\ loaded =>
    \A p \in wanted \cap DOMAIN storage : storage[p].config.steps = progress[p]
=============================================================================
