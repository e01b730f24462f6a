# A TLA+ model of CryptoShloma

CryptoShloma is a desktop trading bot (C++, Qt) for the Binance spot market. It
averages a position down along a table of steps ("Hanukkah"): it buys, rests a sell
above the average price, and when the price falls to the next drop of the table it
waits for a rebound, buys as much again and offers the whole position at the new
average. This directory holds TLA+ modules translated from the code under `src/src`,
the TLC configurations that check them on small instances, and proofs for TLAPS.
`PROJECT.json` lists components, runs, mutants, hazards and theorems, and maps every
definition to the lines it stands for.

## 1. The system

Everything that trades runs in one thread, the Qt main thread, in event handlers. What
is hard is that a change is spread over several of them: an HTTP answer, a message of a
web socket, a posted call, a timer. Their order is not fixed, a timer may fire between
any two, and some handlers wait in an event loop of their own, inside which all others
run.

| Component | State it keeps | Operations | Hard behaviour |
|---|---|---|---|
| `BinanceAPI` (`api/binance_api.cpp`) | block of the requests, timers, listen key, clock offset | `submitOrder`, `cancelOrder`, the answers of POST, DELETE and GET, `processExecutionReportStream`, `processOutboundAccountInfo`, `userAuth`, `logOut`, `httpError` | stream and answers in any order; requests that never leave; nested event loops; handlers that outlive their locals |
| `TemporaryOrdersTable` | records of orders sent and not yet confirmed | `submitOrder`, `updatePlaceOrder`, two `updateEraseOrder` | records are matched by price and volumes |
| `OpenOrdersStorage`, `TradeHistoryStorage`, `BalancesStorage`, `MarketOrdersStorage` | what the bot believes the exchange holds | `merge`, `remove`, `filter`, `insert` | `merge` is queued, `insert` and `remove` are direct |
| `MarketsStorage`, `MarketsModel`, `Market` | two copies of every market with its `UserConfig`: table of steps with flags, `execSteps`, `cycleTimeStart`, rate | `mergeMarketInfo`, `mergeMarketData`, `updateMarketUserConfig` | a whole configuration is copied, changed, posted and merged later; one copy is changed at once, the other by a posted call |
| `Hanukkah`, `ZeroStep`, `Step` | a session per pair: blocked flags in memory | a timer every second, `executeBuyLogic`, `executeSellLogic`, `unlockAllSteps`, `updateMarketMetaConfig` | reads five places that are not updated together |
| `TrendSearcher` | nothing of its own | a timer: posts the configurations of the pairs with new rates | overwrites what others posted |
| `ExchangePool`, `Crud` | table `markets_cache` | `loadState`, `saveState`; the steps write and delete rows too | crash and stop between a row and its configuration; a load waits in event loops |
| `BinanceAPIController` | none | starts and reloads, adds and removes pairs | signals that are two deliveries long |
| `WebSocketClient`, `WebClient` | connection, stream list, timers, a thread per socket | open, close, ping, reconnect | the state is read in one thread and changed in another; half-open connections |
| `Emulator` | balances of the test data, through the storages | answers orders in emulation mode | copies a balance across a posted call |
| `Utils`, `Market` getters | none | rounding to steps of price and volume | floors on the wrong side |
| models, windows, `SettingsManager`, `encrypt`, `Spreder` | presentation, settings, dead code | | |

What makes them correct:

* the table lets at most one order of a type be on its way on a pair, and forgets its
  record when, and only when, the order is known otherwise;
* an order the exchange holds is known to the bot, an execution reaches the history;
* the flags in memory, in the configuration and in the row are one cycle: steps are
  passed in order, a step buys once, the cycle restarts exactly when all is sold;
* a sell of everything is priced over all the purchases of the position;
* after a restart the bot continues where it was, with the pairs the user wants;
* both copies of a market meet, and a pair that is stopped leaves nothing behind;
* both streams come back after any loss, subscribed to what is wanted, and what was missed
  is asked for again;
* the emulator keeps the account as an exchange would.

## 2. The modules

| Module | What it is |
|---|---|
| `OrderFlow` | the life of an order: submission, table of records, HTTP answers, stream, event queue, storages, disconnection and reload |
| `MCOrderFlow` | its symmetry for TLC |
| `OrderFlowProofs` | its theorems |
| `TradingCycle` | abstract: what the algorithm promises of one pair |
| `Hanukkah` | detailed: the steps, the session, the configuration, the row, the storages and the exchange of one pair |
| `MCHanukkah` | tables of steps for TLC |
| `HanukkahProofs` | its theorems about types, rows, the order of the steps and the end of a cycle |
| `HanukkahCycleProofs` | that `Hanukkah` implements `TradingCycle`, and what it counts, buys and offers in a cycle |
| `Markets` | the life of the pairs: listings, the two copies of the markets, books and histories, sessions, `TrendSearcher`, streams, rows, load, stop, crash, upgrade |
| `MCMarkets` | its pairs and rates for TLC |
| `MarketsProofs` | its theorems that hold under every race and fault, or all but one |
| `MarketsCalmProofs` | its theorems about a calm environment |
| `Connection` | the two sockets with their threads, the listen key, the timers, the network, the nested event loops of the requests |
| `MCConnection` | the instance for TLC |
| `ConnectionProofs` | its theorems |
| `Rounding` | how prices and volumes are fitted to the filters of a pair |
| `Account` | abstract: what an exchange promises of the money of an account |
| `Emulator` | detailed, on `Rounding`: the emulation mode with its posted merges |
| `MCEmulator` | its pairs and prices for TLC |
| `EmulatorProofs` | facts about sums over finite sets, and the theorems of `Emulator` |
| `AccountProofs` | that `Emulator` implements `Account` |

The modules meet at interfaces that the code has. `OrderFlow` proves what the table and
the storages guarantee whatever an algorithm asks; `Hanukkah` is an algorithm that sees the
orders through them. `Connection` says that the stream of the user returns and that the
reload follows (`DataReloaded`); `OrderFlow` begins at that loss and says what the reload
recovers. `Markets` moves the configurations of all pairs and takes of a step only that it
closes a side; `Hanukkah` says when it does.

### OrderFlow

`orders`, `traded`, `cancels` are the exchange; `replies` the HTTP answers (a set: any
order); `queue` the one event queue of the main thread (reports that crossed from the
socket's thread, and queued calls); `tempOrders`, `openOrders`, `history` the bot's
containers. `SubmitOrder` is `BinanceAPI::submitOrder` with the table's refusal;
`ReportLive`, `ReportFilled`, `ReportClosed` the three branches of
`processExecutionReportStream`; `AnswerNewOrder`, `AnswerNewOrderError`,
`AnswerCancel`, `AnswerOpenOrders`, `AnswerTradeHistory` the slots of the replies;
`MergeOpenOrders`, `MergeTradeHistory` the queued slots of the storages;
`Disconnect`, `ReloadPrivateData`, `ReloadHistory`, `ReloadOpenOrders`, `SkipCall`,
`Unblock`, `Connect` the loss of the stream and what follows. The steps' reasons to
submit are a free choice here, so everything shown holds for any algorithm.

Abstractions: a *quote* stands for the triple (price, base volume, volume) by which
records are matched. `Faults` selects what may go wrong with requests, `QuoteReuse`
whether two orders may have the same quote, `Turns` what becomes of a sell that rests.
The lambda of `submitOrder` that captures locals by reference is undefined behaviour:
it erases any record or none.

### Hanukkah and TradingCycle

`Hanukkah` sees the orders from afar (an order blocks its side from submission to its
first report) and models what the steps read and write. `session` is the
`StepGenerator`: the table it was built from and the flags in memory. `config` is the
`UserConfig` in `MarketsStorage`. `row` is the row in the database. `loop` holds the
posted events; an update posted by a step is first a `"forward"` (the controller's
signal is invoked by a queued call) and then an `"update"` (its connection to
`MarketsStorage` is queued again), one posted by `TrendSearcher` is an `"update"` at
once. `CloseZero`, `BuyZero` are `ZeroStep::executeBuyLogic`; `SkipStep`, `CloseBuy`,
`Buy` are `Step::executeBuyLogic`; `Unlock`, `Sell`, `CancelSmall`, `CancelFallen` the
selling logic of both; `UpdateMarketMetaConfig` and `UnlockAllSteps` the two ways the
configuration changes. Each includes the flags, the posted configuration and the row,
in one action, as the handler does.

The history is sorted by the creation of the orders and not by their execution, as
`TradeHistoryStorage::filter` does; `born` keeps that order.

`Races` says what may happen while a timer fires. With `Races = {}` a timer finds all
news of the pair handled. Each member lets one thing be late, lost or different:

* `"open"`, `"filled"`, `"account"`, `"history"`, `"update"`: that news or call is under
  way when a timer fires;
* `"zombie"`: a sell closes while the merge of its report is queued;
* `"sold"`: a sell is executed before its DELETE arrives;
* `"ignored"`: a DELETE is not sent or not obeyed;
* `"partly"`: a sell trades in part and rests on;
* `"crash"`, `"stop"`: the bot dies, or is stopped in order, and starts again.

The split is on purpose, here and in `Markets`, `Connection` and `Emulator`: the code is
right in the calm case and wrong in several races, so each run names the races under
which its properties hold, and a violation run names the one race or fault that breaks a
property.

Abstractions: volumes count halves of the trade sum; prices are trend rates, of which
`TrendSearcher` may post any at any tick; the price moves less than the 5% that the
steps allow between a purchase and its closing; the book is deep enough or not at any
tick; percents of different steps may be equal (`RowOf` finds the first, as the code
does); at most one sell rests (`RacesAssumption`: a bot that knew neither the order nor
the locked balance could place two); what a canceled sell traded is in no FILLED report
and so in no history. The pause mode is off (in `Markets` it is
kept and saved; in a step it only keeps step 0 from buying).

`TradingCycle` has the step the bot works with, the number of purchases and the step of
the latest. `Cycle` in `Hanukkah` maps: `working` is the first step that is not closed
in the flags the next tick will use, `bought` counts the executed purchases since the
last executed sale. `CycleRefined` is `Cycle!CycleSpec`.

### Markets

`listing` is what the exchange lists; `storage` and `model` are the copies of
`MarketsStorage` and `MarketsModel`; `queue` holds what is posted to the storages; `loads`
is the stack of loads of rows under way, each waiting in an event loop inside the one
before. `InfoArrives` is `processExchangeInfo`, `DataArrives` is `processMarketData` with
the `loadState` that follows it, `LoadNext` and `LoadEnd` are `appendMarketsGroup`;
`BookArrives`, `TradeArrives` the other answers; `DeliverInfo`, `DeliverData`,
`DeliverUpdate`, `DeliverForward`, `DeliverBook`, `DeliverTrade` the posted merges.
`AppendMarket`, `PauseMarket`, `RemoveMarket` are the clicks of the user, with what the
windows do before they call the controller; `TrendTimer` is the pass of `TrendSearcher`
over all pairs; `HanukkahTimer`, `CloseStep`, `EndCycle` the timer of the algorithm with
the sessions it makes and the rows it writes. `Stop`, `Crash`, `Upgrade`,
`ListingChanges` are the end of a process, in order or not, with the start of the next,
a start of a version with another scheme, and the exchange's changes of its list.

`wanted` (what the user has put into trade) and `progress` (the closed sides of the cycle)
are auxiliary: no action of the bot reads them, and what a crash or an upgrade leaves
without a row is no longer wanted. A `UserConfig` keeps the trade mark, the pause, the
trend and how many sides of steps are closed.

`Races` says what may happen while an update is posted or a load waits: `"trend"`, `"tick"`
(the two timers), `"user"` (a click), `"quit"`, `"reload"` (data arrive inside a load),
`"early"` (the bot is closed before the load), `"row"` (it dies while `removeMarket` has
left a row). `Others` says that the exchange always lists some more pairs, which nobody
trades: an answer is never empty then.

### Connection

The main thread is a stack of calls (`calls`): a call runs down its list of requests, and
waits for each answer in an event loop inside which other handlers run; an answer lets only
the topmost call go on (`Continue`). The thread of a socket executes what is posted to it
(`commands`, `Execute`), connects, and posts back what happens (`events`, `Deliver`).
`Start` is `BinanceAPI::start`, `AnswerInfo`, `AnswerTime`, `AnswerAuth`, `AnswerOrders`,
`AnswerTimestamp`, `AnswerError` are the slots of the replies and `httpError`; `PingFire`,
`PongFire`, `PutFire`, `Unblock` the four timers; `AnswerPut` the refusal of the listen key with `logOut`
and `userAuth`; `AddBook`, `RemoveBook` the streams of a pair. The environment closes or
silences a socket, forgets the key, blocks or refuses a request, takes the network away
and brings it back, in any state, at most `MaxFaults` times.

`stale` says that reports may have been missed and not asked for again, `refused` which
requests have failed and are not repeated by anything.

Abstractions: requests for one purpose are one; a key is a number; there are the tickers and one book.
Answers come in the order of their requests. `OnlyStack` is a partial-order reduction: a
step that touches nothing but the stack is taken first.

### Rounding, Emulator and Account

`Rounding` has `rounding`, `roundingCeil`, the fitting of price and volume in `submitOrder`
and `calculateStopLoss`, over integers: prices count the least unit of the base
currency, shares count parts of `Unit`. `Emulator` is `submitOrder`, `cancelOrder` and
`sellOrder` with the merges they post, over several pairs. It finds the currencies of an order by
cutting its pair's name after three letters (`CoinSlice`, `BaseSlice`). When a
handler runs, and what it asks for, is a free choice; `"pass"` lets
several handlers run before the loop delivers, `"slip"` lets a real error lose a step.

`Account` is the account an exchange would keep: free and locked money, and offers.
`AccountKept` is the refinement: the storages with everything posted merged into them
implement it, for the pairs whose names are cut rightly.

## 3. What the runs check

Deadlock checking is off: the bounds stop a run, and a bot without a pair, or whose
streams are up, has no step to take.

| Run | Instance | Shows |
|---|---|---|
| OrderFlowCalm | 1 pair, both sides, 2 orders, partial trades and cancellations, fairness | in every order of answers and reports `OneRecordPerSide`, `SentOrderHasRecord`, `OnePostInFlight`, `RecordHasOrder`, `LiveOrderKnown`, `FillRecorded`; and `SideFreed`, a blocked type is free again |
| OrderFlowFaults | 1 pair, sells with partial trades, 2 orders, one disconnection or block, requests unsent, refused or timed out | `OneRecordPerSide`, `LiveOrderKnown`, `FillRecorded`: what the stream did not lose is learned, whatever the dangling lambda erases |
| OrderFlowSecondOrder | as Calm | violation of `NoSecondOrder`: the record is erased before the queued merge stores the order |
| HanukkahCrash | 2 steps after step 0, 3 purchases, partial trades and crashes, fairness | `CycleRefined` (the cycle of `TradingCycle`), `NeverBack`, `OnePurchasePerStep`, `SellCoversCycle`, `ExecMatches`, `UnlockedWhenSold`, `OnlyFirstForgotten`, `RowMatches`; and `SellOffered`, `SoldRestarts` |
| HanukkahRaces | 2 steps, 2 purchases, account, filled, zombie, sold, ignored, partly, stop | `StepsInOrder`, `RowMatches` |
| HanukkahLostUpdate | update | violation of `NeverBack`: two whole configurations overwrite each other and a closed step opens again |
| MarketsCalm | 2 pairs, 2 sides of steps, pause; stop, crash, upgrade; no race | `WantedTraded`, `RemovedStaysOut`, `StepsKept`, `StreamsCover` |
| MarketsRaces | 1 pair, trends, books and trades; trend, tick, reload, row; other pairs listed; crash, upgrade, listing; loads inside loads | `ModelAgrees`, `NothingOfRemoved` |
| ConnectionFaults | any two faults of all kinds, fairness | `UrlCurrent`, `UserStreamReturns`, `MarketStreamReturns`, `DataReloaded` |
| UserStreamRefused | one refused request, fairness | violation of `UserStreamKept`: the POST for the listen key is never repeated |
| EmulatorKept | 3 pairs, 4 orders, one handler at a time | `PositionInHistory`, `AccountKept` |
| SoldAtLoss | 1 pair, 4 orders | violation of `OfferedAboveCost`: the price of a sale is cut down below the average |

The first run of each module checks its `TypeOK` too.

### Bounds

* `OrderFlow`: two orders are enough for a record to be taken for another's, and quotes
  number as many as orders. The interesting events (a report before its answer, a reload
  between them) concern one or two orders; the theorems cover the other sizes.
* `Hanukkah`: two steps after step 0 are the fewest for which a step has a next one and
  another behind it. Three purchases allow a second cycle and reach the limit
  `execSteps <= maxSteps` with `MaxSteps = 2`. One update of the rate is under way at a
  time (`MaxUpdates`); the rates are: no drop, at or below the drops and rebounds of the table.
* `Markets`: two pairs let one update, load or stop concern another pair; two closed sides
  tell a lost one from none. `MaxQueue` is the number of merges posted at once: an update
  from each of two timers and one from a load or a click. `MaxLoads = 2` is a load
  inside a load. With one pair, two posted events give every overtaking of two; `NothingOfRemoved`
  and `StreamsCover` are proved for every bound.
* `Connection`: two faults give every fault inside the recovery from every other. `"ping"`
  and `"streams"` are counted as faults, so a recovery is also met by a
  reconnection that the user causes. Three faults were out of TLC's reach in minutes.
* `Emulator`: two pairs with one base currency and one with a name cut wrongly; four orders are
  two purchases and two sales. Prices and volumes are chosen so that both floors of a price
  and the raise to the least notional happen.

### Further disagreements

The models show these too; none has a run of its own, each is seen by a change of a
configuration (the property and the constant are named).

Orders and steps:

* `StoredOrderOpen` in OrderFlowCalm: an order that is closed stays in
  `OpenOrdersStorage`, because its queued merge comes after the direct removal
  (`i_exchange_api.cpp:27-39`).
* `RefusalJustified` with `Faults = {"unsent"}`: the record of an order that never left blocks its
  type (`binance_api.cpp:944`); with `{"refused"}`: the lambda at `binance_api.cpp:949` uses
  locals of a function that has returned, the record of a refused order may stay.
* `OnePostInFlight` with `QuoteReuse = TRUE`, one quote and three orders: the late answer of a
  killed buy erases the record of the next one (`temporary_orders_table.cpp:51`).
* `OnePurchasePerStep`, which a run checks without it, with the race `"history"`: the history of a purchase lags behind its
  report, and the step buys again (`step.cpp:210`).
* `NeverBack` with the race `"stop"`: `saveState` replaces the row a step has just written by
  the older configuration in memory (`exchange_pool.cpp:131`).
* `SellOffered` leaves out a cycle in which a canceled sell had traded in part: there the
  balance never reaches twice the counted volume, and the step does not close (`step.cpp:211`).
* `UnlockedWhenSold` with the race `"open"`: an available balance of 0, all of it locked in
  the sell, is taken for a sale (`zero_step.cpp:71`).
* `SoldRestarts` with the race `"sold"`: a sell is executed before its DELETE arrives, and
  the bot waits for ever at a step with nothing to double (`step.cpp:199`).
* `StepsInOrder` with no race, if two rows of the table have the same percents (`Decline`
  3, 3, 5, 6 with `Growth` 2, 2, 3, 3, four purchases): a step finds its row by its percents,
  the flags of the second are written to the first, and a session built anew from
  that table goes back to the second (`i_step.cpp:79-93`).
* `DropReached` with no race: a later step is left at the rebound of the next, before its own
  drop was reached (`step.cpp:102`; `README.md:40` has the pairs of numbers used in turn).

Pairs:

* `RemovedStaysOut` with `"tick"`, `"user"` or `"quit"` and a stop, `"row"` and a
  crash, or `"reload"`: a pair the user stopped is traded again. The shortest: the click on
  Stop comes while a step's configuration is posted, which carries the trade mark
  (`binance_api_controller.cpp:106`, `i_step.cpp:96`; the button says "Stop %1",
  `TradingPairsView.qml:239`).
* `WantedTraded` with `"early"` (the bot is closed before it has loaded: `saveState`
  deletes all rows and writes no pair) or with the fault `"listing"` (an unlisted pair
  loses its configuration). A crash forgets a pair that has no step closed yet, for it
  has no row, and a version with another scheme forgets all pairs; the property does
  not count these as wanted any more.
* `ModelAgrees` with `"user"`: the user adds and stops a pair while the storage does not know
  it yet, its description and the configuration still posted. The controller finds no market
  to stop (`binance_api_controller.cpp:98`), the window has marked its own copy, and what is
  delivered then makes the storage trade a pair that the window shows as stopped.
* `StepsKept` with `"trend"`, with `"reload"`, or when a row that was left is loaded for a pair that
  was added anew.
* Seen in the model, without a property: a session keeps a `Market` that `mergeMarketInfo` has
  erased (`hanukkah.cpp:107`); a ticker sets the status of every market to Ok; the streams
  of a loaded group are one template, which removing one pair does not take out;
  `TrendSearcher` returns at the first pair it cannot judge, and the pairs behind it keep
  their rates; the cancellation of `removeMarket` names no market and is refused.

Connection:

* All three liveness properties with the race `"unpinged"`: `logOut` kills the timer of the pings
  (`binance_api.cpp:1284-1295`), only `start()` makes it again, so a peer that falls
  silent after the listen key expired is never found out.
* The listen key is removed as `listenKey=<value>` and was added as a bare value
  (`:602`, `:1294`): the URL of the user's stream keeps every key it ever had. A
  wrong time is asked for again, but the request it names is not repeated
  (`:1252-1253`). The reload may be answered before the new stream is open, so what happens in between is
  missed (`binance_api_controller.cpp:21-32`).

Emulator and rounding:

* `AccountKept` with the race `"pass"`: two handlers of one pass copy one balance, and one
  order's change of it is lost (`emulator.cpp:62`); two traded pairs with one coin do the
  same. With `"slip"` a volume loses a step to the error of a real.
* The currencies are the letters 1-3 and 4-6 of the name (`emulator.cpp:86-87`): with
  DOGEBTC no balance ever changes, and `cancelOrder` follows a null pointer (`CancelCrashes`).
* A purchase that is raised to the least notional is then rounded down and may stay below
  it (`binance_api.cpp:895-897`); a volume that is rounded up may cost more than the
  balance that was checked (`zero_step.cpp:192`). Ids drawn from 1..9999999 may collide.

### Fairness

* `OrderFlow!FairSpec` is weak fairness of the delivery of events and answers (Qt's loop
  delivers what is posted; a request ends in an answer or an error) and of the
  exchange acting on a POST. Nothing is assumed of the algorithm or of the connection.
* `Hanukkah!FairSpec` is weak fairness of the handlers of the stream, of the posted calls, of the answer to a POST and of
  the execution of a DELETE, and strong fairness of the steps' closings and sells: the
  timer fires every second for ever, so an action that is enabled again and again (the
  rate may leave and return) is met by a tick. A purchase is not fair, the book may stay
  too thin; nor is the execution of a sell, the price may never come; nor the rate.
* `Connection!FairSpec` is weak fairness of the threads of the sockets, of the event loop,
  of the timers that are running, of an answer or an error to every request, and of the network coming back.
  The faults are not fair; that they are finitely many is the bound.

## 4. What is proved

`OrderFlowProofs`, for any sets of pairs and quotes and any bounds:

| Theorem | Assumes | Says |
|---|---|---|
| `TypeCorrect` | | `TypeOK` |
| `OneRecordPerSideHolds` | | one record of a type per pair under every fault |
| `SentOrderHasRecordHolds` | `TellingQuotes` | an order whose POST is on its way has a record |
| `OnePostInFlightHolds` | `TellingQuotes` | two orders of a type are never on their way at once |
| `LiveOrderKnownHolds` | | an order that rests is stored, or announced, or lost by the stream |
| `FillRecordedHolds` | | an executed order is in the history, or announced, or lost by the stream |
| `RecordHasOrderHolds` | `Undisturbed` | each record has an order that is on its way or whose first report is |

`TellingQuotes` is `~QuoteReuse` and no `"refused"` or `"timeout"` among the faults. It is
needed: repeated quotes break `OnePostInFlight` (section 3), and a
failed POST runs the lambda that may erase the record of another order.

The arguments. `TypeOK` alone is not inductive: a handler indexes `orders` by the ids an
event carries. `EventInv` says that those ids are of orders sent and that a report says
of its order only what its status allows; together they are inductive (`NextInv`).
`OneRecordPerSide` is then kept by every step because the table only grows in
`SubmitOrder`, whose guard excludes a record of that type, and `updatePlaceOrder` changes
an id and no type (`TableSteps`, `OneRecordStep`). For `SentOrderHasRecord` the danger is a
record erased on behalf of another order; `MatchInv` says that quotes differ on a pair,
that a record with an id is of that order, and that no error answer is under way.
`OnePostInFlight` follows from the two. `LiveOrderKnown` and `FillRecorded` are inductive
relative to `EventInv`: each step either keeps the news of an order, replaces them by
others or stores them (`KnownStep`, with `EventsKeepNews`, `AnswersKeepNews`,
`ReloadKeepsNews` for the three kinds of handlers).

`Undisturbed` is `TellingQuotes`, no `"unsent"` among the faults and no disconnection
(`MaxReloads = 0`); each of them breaks `RecordHasOrder`, for no report then erases the
record. Here the danger is a record that outlives its order: `Owned` says that each record
has an order of its pair, side and quote that is `Pending`, sent but not at the exchange yet or
with its first report in the queue. The report that ends this state is the one that
erases the record (`ReportErases`), and no other order has the quote.

`HanukkahProofs`, for any table of steps, any rates and bounds:

| Theorem | Assumes | Says |
|---|---|---|
| `TypeCorrect` | | `TypeOK`, under every race |
| `RowMatchesHolds` | `UpdatesFirst` | when nothing is under way the row is the configuration, but for the rate |
| `StepsInOrderHolds` | `UpdatesFirst`, `DistinctPercents` | no step is closed for selling before one above it |
| `UnlockedWhenSoldHolds` | `NewsFirst` | the row of a pair is deleted, and its cycle begun anew, only when nothing is held |

`UpdatesFirst` is `"update" \notin Races`: without it two updates overwrite each other
(finding `HanukkahLostUpdate`). `DistinctPercents` says that the rows of the table differ; without it
`StepsInOrder` is violated (section 3).

`TypeOK` needs three things more (`TypeInv`). `history <= Len(fills)` holds because each
execution is in the history or in exactly one report or merge on its way (`HistoryCounted`,
with the lemmas that count the events of a kind in a queue). Balances are not negative
because a sell that rests locks no more than is held (`SellHeld`). `Newest` is a choice, which
exists because no two orders were created at once (`BornInOrder`: purchases at even
times, sells at odd ones, in order). The other two theorems look only at the
configuration, its copies and the updates under way: a step of the bot closes and posts one
configuration when none is under way (`Closes`), posts a rate, merges, starts, or leaves
all of it alone (`ClosingCloses`, `OtherSteps`). `RowFollows` says whose row it is: that of the update
under way, or of the configuration. `TableFollows` says that every copy of the table has
its steps in order, and that the session has the flags its table will have. Its part
`Fits` is the subtle one: when `maxSteps` is reached a step that never bought is looked at
for selling, and must not be closed; step 0 alone could be, and it has bought when any
step has.

`NewsFirst` says that no timer fires while a report that a sell rests, or a balance, is on its way or
waits to be merged (`"open"` and `"account"` are not in `Races`); every other race may happen.
`KnowsSell` then relates what the exchange has to what the bot heard last, wherever that is: in the
stream, in the queue or in the storage (`LastIn`; `LastAppended` and `FirstTaken` say
what a message more or less changes). A tick that finds no open order and nothing available
finds, by `TickKnows`, that no sell rests, so that nothing available is nothing held.

`HanukkahCycleProofs`, for any table of steps, any rates and bounds:

| Theorem | Assumes | Says |
|---|---|---|
| `CycleRefinedHolds` | `Orderly`, `DistinctPercents` | `Spec => CycleRefined`: `Hanukkah` implements `TradingCycle` |
| `SellCoversCycleHolds` | the same | a sell of all that is held is priced over the purchases of the position |
| `ExecMatchesHolds` | the same | `execSteps` counts the purchases of the position, but for one whose step is not closed |
| `OnlyFirstForgottenHolds` | the same | a crash forgets a pair with its first purchase at most |
| `NeverBackHolds` | the same | the bot never goes back to a step while it holds the position (`README.md:40`) |
| `OnePurchasePerStepHolds` | the same | no two purchases of a position are of one step (`README.md:38`) |

`Orderly` is `Races \subseteq {"partly", "crash"}`, what run HanukkahCrash allows: news are handled
before a timer fires, a canceled sell is not executed and a cancellation is obeyed, a stop comes when no
update is under way; sells trade in part, and the bot dies at any moment. It is not the weakest
assumption for each of the six, but they do need one: `"update"` and `"stop"` break `NeverBack`,
`"history"` breaks `OnePurchasePerStep` (section 3).

None of the six is inductive; one invariant, `CycleInv`, gives all of them. It says in which phase
of a step the bot is: `Beginning` (nothing bought, or the first purchase not closed), `Waits` (a step
that is open for buying: the purchase is to come, or made and not counted), `Offers` (a step that is closed for buying,
or the last: the position is offered, to be offered, or sold). A phase ties the flags, `execSteps` and `cycleTimeStart` to
the number of purchases, the step of the latest one, what is held and what rests or is on
its way (`PhaseFollows`). It speaks of the configuration that is *due*: that of the update under way, if
there is one. So three things more are needed. All copies of the configuration agree with the
one that is due, and a pair without a row has counted nothing (`CopiesFollow`). What the bot will hear
last of the sell is true, one order at most is on its way, and a cancellation is of an order that the bot knows
(`MessagesFollow`). And `TypeInv` counts exactly: history and the messages that bring it are
together the executions, so that when a timer fires the history is complete, its newest
entry is the newest purchase (`NewestIs`), and what `calculateAverate` counts back to
`cycleTimeStart` is the position (`AveragedIs`).

The hard cases are where a sell is canceled. It rests until the exchange has obeyed, and a purchase may be
made meanwhile: `OldSell` says that it then offers less than is held, so that it is not
a sell of everything whose price misses the new purchase. `CycleStep` has one lemma per kind of action: each keeps `CycleInv`, and is a `Purchase`, an `Advance`,
a `Sold` or a `Restart` of `TradingCycle`, or changes nothing of it. `NeverBack` follows from the refinement's step, which leaves
`working` only upwards while `bought` is not 0; `OnePurchasePerStep` from `latest`, which each `Purchase` raises
(`PurchasesAscend`).

`MarketsProofs`, for any finite set of pairs, any rates and bounds, and all inputs, races and
faults but the ones excluded by an assumption:

| Theorem | Assumes | Says |
|---|---|---|
| `TypeCorrect` | | `TypeOK` |
| `NothingOfRemovedHolds` | | a pair that is stopped leaves no book and no history, whatever is posted |
| `StreamsCoverHolds` | | outside a load every traded pair's book is subscribed to, also after loads inside loads |
| `ModelAgreesHolds` | `Unhurried` | when nothing is posted the windows show the markets of the storage |

`TypeOK` is not inductive either: `DeliverInfo` keeps the configuration of a market that it
erases for the session that uses it, so a session without one must belong to a market of
the storage (`SessionsLive`), and `LoadNext` takes the rows of a load that are left, so
these must be among its rows (`LoadsReady`). `TypeInv` is the three together.
`NothingOfRemoved` needs only that the merges filter by the same list that `insert` and
`remove` change, and that a removal clears what was merged before it: the queued merge
that arrives later finds the pair gone from the list (`MergesFiltered`). For `StreamsCover` the
danger is a load that subscribes only at its end: `FiltersFed` says that each pair of
the list has a stream or is promised one by a load under way, and a load that ends
subscribes all its group.

For `ModelAgrees`, `Replayed` follows the queue: there is a path of copies of the markets
(`Path`), the first is the storage's, each posted event that changes markets leads from
one to the next as its slot will (`Applied`), and the last is the window's. A handler that
changes the window and posts the same change makes the path longer, a delivery makes it
shorter. `Unhurried` is `"user" \notin Races`; section 3 has what happens without it.

`MarketsCalmProofs`, for any finite set of pairs and all inputs and bounds:

| Theorem | Assumes | Says |
|---|---|---|
| `WantedTradedHolds` | `Calm` | what the user has put into trade is traded |
| `RemovedStaysOutHolds` | `Calm` | what the user has stopped is not traded again |
| `StepsKeptHolds` | `Calm` | the steps the algorithm has closed are closed |

`Calm` is `Races = {}` with a list of pairs that the exchange does not change; stops,
crashes and upgrades happen at any time. Each race it excludes breaks at least one of the
three (section 3). The invariant, `CalmInv`, adds to `TypeInv` that a configuration travels
(`Travels`): it is in the window, in the queue at most once, in the storage, and in a row
or a load when the process has ended. `PairInv` names for each pair the copy that
counts, says that this copy has the mark of `wanted` and the closed sides of `progress`,
and that the others will be overwritten by it before anybody reads them.

`ConnectionProofs`, for any bound of the faults, and all faults and races:

| Theorem | Says |
|---|---|
| `TypeCorrect` | `TypeOK` |
| `UrlCurrentHolds` | an open socket without a command on its way serves the streams that are wanted |

`TypeInv` adds to `TypeOK` that the posted commands, events and nested calls are sequences of the
right things and that a call only waits for the reply to a request. `UrlInv` says of each socket
that the last command on its way that opens it names the streams that are wanted now, and that
an open one without such a command serves them (`LastOpenCurrent`). It is claimed while the
network is there and its return was delivered, for what was posted before that is
replaced then. Two cases need more: nobody opens a socket for which no stream is wanted
(`NothingWanted`), and the stream of a book comes after that of the tickers (`BookAfterTickers`).

`EmulatorProofs`, for any filters, deposits, pairs and number of orders:

| Theorem | Assumes | Says |
|---|---|---|
| `TypeCorrect` | | `TypeOK`, under every race |
| `PositionKept` | `OneAtATime`, `CoinsApart`, `DepositsWhole` | the balance of a coin is what the history bought and did not sell |

`TypeOK` needs arithmetic: volumes are whole steps, and prices ticks, so that a division
leaves no fraction, and a step that sells finds a cycle with a purchase in it, for
`calculateStopLoss` divides by the volume bought. `PositionInHistory` is a sum over a history that is
merged later than the balance: `PositionInv` carries the sum through the queue, in which the merges
of one handler stand together (`View`). `OneAtATime` is `Races = {}`; `CoinsApart` says that no
two traded pairs touch one coin, `DepositsWhole` that the deposits are
whole steps. Without the first two balances are lost (section 3), a deposit of half a step
is never sold. The pairs whose names are cut wrongly may be there: their orders touch no balance.
A sum is a fold, a recursive function on sets whose value the provers cannot get by an induction
theorem; lemmas at the start of the module prove what is needed (a sum does not depend on the order, one
element more adds its value) from the least set for which it would fail.

`AccountProofs`:

| Theorem | Assumes | Says |
|---|---|---|
| `AccountKeptHolds` | the three of `PositionKept`, `CutApart`, `Unbounded` | `Spec => AccountKept`: `Emulator` implements `Account` |

`CutApart` says that the wrongly cut names do not meet the currencies of the pairs whose names
are cut rightly, `Unbounded` that the bounds of `Account` on volumes and prices exclude nothing (they exist for TLC).
The mapping takes of each currency the youngest entry that waits, else the storage's (`Settled`), and the offers
stored and posted. `SettledAppend` and `SettledTail` say what a post and a merge do to
that. `PositionInv` supplies what the guards of `Account` need: nothing is held when the
position is offered, all of it is held while the offer rests, and there is one offer.
`Own` adds that a handler posts about the currencies of its own pair, so the ones that the next
handler reads are delivered (`MoneyDelivered`). Then each handler is one movement (`BuyMoves`,
`SellMoves`, `CancelMoves`, `SoldMoves`), and a merge is none (`MergeMoves`).

The last step of each theorem is temporal (PTL); the others are one step per action.

The assumptions hold in every passing run that checks the property, so a run shows no
safety property of a module beyond what is proved for all sizes. Only model-checked is everything about liveness (`SideFreed`, `SellOffered`,
`SoldRestarts` and the three properties of `Connection`), which the prover does not treat.

## 5. What is not modelled

* Prices: those of the books and tickers decide what a step asks for, and are free choices; what
  an order's own price and volume become is `Rounding`. Reals are integers there; their errors are a choice
  (`"slip"`).
* The composition of several pairs with all branches of the steps: in `Hanukkah` there is one
  pair, in `Markets` a step only closes.
* Times as numbers: `cycleTimeStart` is the place of an order; the comparison of the
  timestamps of balances from REST and from the stream, and currencies the storage does not know
  (`balances_storage.cpp:79-87`), are left out.
* How requests are written and signed (`prepareMbxRequest`, `BinanceAPIPrivate`).
* `BinanceAPI::stop` and `deleteToken`, which run once, in the destructor, when no order can be sent any more.
* `Emulator::loadMarketOrders`, which reads a book from a file; the list of exchanges of
  `ExchangePool`, which has one member.
* `Spreder`, which nothing creates; settings, encryption, logging; the Qt models that
  only mirror a storage.
