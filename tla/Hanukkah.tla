------------------------------- MODULE Hanukkah -------------------------------
(***************************************************************************)
(* The Hanukkah algorithm on one pair.  Its state is spread over four      *)
(* places that are not updated together: the blocked flags of the steps in *)
(* the session (memory), the UserConfig of the market in MarketsStorage,   *)
(* the row of the pair in the database, and what the storages know of the  *)
(* orders, the history and the balance.                                    *)
(*                                                                         *)
(* A step that closes changes its flags, writes the row and posts a whole  *)
(* UserConfig, which is merged two deliveries later: invokeMethod queues   *)
(* the signal updateMarketConfig of the controller, whose connection to    *)
(* MarketsStorage is queued again.  TrendSearcher posts a whole UserConfig *)
(* too, merged one delivery later.                                         *)
(*                                                                         *)
(* Orders are those of OrderFlow seen from afar: an order blocks its side  *)
(* from submitOrder until its first report is handled.  Volumes count half *)
(* trade sums; the value of a balance is its volume (the price moves less  *)
(* than the margins of 5% the steps allow).  The drop and rebound of the   *)
(* price are what TrendSearcher computes: any rate, at any tick.           *)
(***************************************************************************)
EXTENDS Integers, Sequences, FiniteSetsExt

CONSTANTS
  Last,        (* the last step of the table, which has a step 0          *)
  Decline,     (* column "step" of hannukahTable, steps 1 .. Last         *)
  Growth,      (* column "growth"                                         *)
  Rates,       (* trend rates, in percent                                 *)
  MaxSteps,    (* maxSteps of the meta configuration                      *)
  MaxPurchases,(* bound: purchases in a run                               *)
  MaxUpdates,  (* bound: updates of the rate under way                    *)
  Races        (* what may happen in between, see RaceKinds               *)

(* A timer may fire although this is on its way or queued: the news that a *)
(* sell rests, that an order is executed, of the balance; the merge of a   *)
(* trade into the history; an update of the configuration.                 *)
Awaited == {"open", "filled", "account", "history", "update"}

(* "zombie"  - a sell is closed while the merge of its report is queued    *)
(* "sold"    - a sell is executed before its cancellation arrives          *)
(* "ignored" - a cancellation is not sent or not obeyed                    *)
(* "partly"  - a sell trades in part and rests on                          *)
(* "crash"   - the bot dies and is started again                           *)
(* "stop"    - the bot is stopped in order and started again               *)
RaceKinds == Awaited \cup {"zombie", "sold", "ignored", "partly", "crash", "stop"}

Steps == 0 .. Last

ASSUME TableAssumption ==
  /\ Last \in Nat /\ Last >= 2
  /\ Decline \in [1 .. Last -> Nat \ {0}]
  /\ Growth \in [1 .. Last -> Nat]
ASSUME RatesAssumption == Rates \subseteq Int /\ 0 \in Rates
ASSUME BoundsAssumption == MaxSteps \in Nat /\ MaxPurchases \in Nat /\ MaxUpdates \in Nat
(* A bot that knew neither a resting sell nor the balance it locks could   *)
(* let a second one rest, which sellOrder cannot hold.                     *)
ASSUME RacesAssumption ==
  Races \subseteq RaceKinds /\ ~({"open", "account"} \subseteq Races)

VARIABLES
  fills,       (* exchange: the orders executed to the end, in order      *)
  held,        (* exchange: the balance of the traded currency            *)
  sellOrder,   (* exchange: the sell that rests                           *)
  wire,        (* POSTs on their way                                      *)
  canceling,   (* a DELETE of the sell that rests is on its way           *)
  news,        (* the user data stream                                    *)
  loop,        (* posted events: merges of news, updates                  *)
  posted,      (* the sides that the temporary orders table refuses       *)
  history,     (* TradeHistoryStorage: how many of the fills it has       *)
  balance,     (* BalancesStorage: total and available                    *)
  openSell,    (* OpenOrdersStorage: the volume of the sell, 0 if none    *)
  config,      (* UserConfig of the market                                *)
  session,     (* StepGenerator: the table it was built from, the flags   *)
  row,         (* markets_cache: at most one UserConfig                   *)
  traded       (* isTradable                                              *)

exchangeVars == <<fills, held, sellOrder>>
requestVars == <<wire, canceling>>
storageVars == <<history, balance, openSell>>
configVars == <<config, row, traded>>
vars == <<exchangeVars, requestVars, news, loop, posted, storageVars,
          configVars, session>>

-----------------------------------------------------------------------------
(* Values.                                                                 *)

TradeSum == 2
Volumes == Nat
Sides == {"buy", "sell"}

(* born: when the order was created; step: the step that sent it,          *)
(* auxiliary.                                                              *)
Fill == [side : Sides, volume : Volumes, born : Nat, step : Steps]

(* over: the purchases whose average is the price of a sell.               *)
SellOrder == [volume : Volumes, left : Volumes, born : Nat, over : SUBSET Nat]
NoOrder == [volume |-> 0, left |-> 0, born |-> 0, over |-> {}]

Post == [side : Sides, volume : Volumes, step : Steps, over : SUBSET Nat]

(* The steps that are blocked for buying and for selling.                  *)
Flags == [buy : SUBSET Steps, sell : SUBSET Steps]
NoFlags == [buy |-> {}, sell |-> {}]

(* A session: the table it was built from and the flags of its steps.      *)
StepGenerator == [table : Flags, now : Flags]

(* start: the fill whose time is cycleTimeStart, 0 if it is empty.         *)
UserConfig == [flags : Flags, exec : Nat, start : Nat, rate : Int]
NewConfig == [flags |-> NoFlags, exec |-> 0, start |-> 0, rate |-> 0]

(* The stream brings execution reports and balances; the loop delivers     *)
(* merges of them, updates, and updates that the controller passes on.     *)
Reports == [kind : {"open"}, volume : Volumes]
           \cup [kind : {"filled"}, side : Sides]
           \cup [kind : {"closed"}]
Accounts == [kind : {"account"}, total : Volumes, available : Volumes]
Merges == [kind : {"open"}, volume : Volumes] \cup [kind : {"history"}]
          \cup Accounts
Updates == [kind : {"update", "forward"}, config : UserConfig]

TypeOK ==
  /\ fills \in Seq(Fill)
  /\ held \in Volumes
  /\ sellOrder \in SellOrder
  /\ wire \subseteq Post
  /\ canceling \in BOOLEAN
  /\ news \in Seq(Reports \cup Accounts)
  /\ loop \in Seq(Merges \cup Updates)
  /\ posted \subseteq Sides
  /\ history \in 0 .. Len(fills)
  /\ balance \in [total : Volumes, available : Volumes]
  /\ openSell \in Volumes
  /\ config \in UserConfig
  /\ session \in StepGenerator
  /\ row \subseteq UserConfig
  /\ traded \in BOOLEAN

SessionOf(c) == [table |-> c.flags, now |-> c.flags]

Init ==
  /\ fills = <<>>
  /\ held = 0
  /\ sellOrder = NoOrder
  /\ wire = {}
  /\ canceling = FALSE
  /\ news = <<>>
  /\ loop = <<>>
  /\ posted = {}
  /\ history = 0
  /\ balance = [total |-> 0, available |-> 0]
  /\ openSell = 0
  /\ config = NewConfig
  /\ session = SessionOf(NewConfig)
  /\ row = {}
  /\ traded = TRUE

-----------------------------------------------------------------------------
(* The step that a tick of the algorithm's timer gives a turn.             *)

(* StepGenerator::update: built anew when the table of the market changed. *)
Current == IF session.table # config.flags THEN SessionOf(config) ELSE session

MayBuy(s) == s \notin Current.now.buy /\ config.exec <= MaxSteps
MaySell(s) == s \notin Current.now.sell

FirstOfAny(s) == TRUE                (* mutant: the loop does not break     *)

First(s) == \A t \in Steps : t < s => ~MayBuy(t) /\ ~MaySell(t)

KindsUnderWay == {news[k].kind : k \in DOMAIN news} \cup {loop[k].kind : k \in DOMAIN loop}
Timely ==
  LET kinds == (KindsUnderWay \ {"forward"})
               \cup (IF "forward" \in KindsUnderWay THEN {"update"} ELSE {})
  IN  kinds \cap Awaited \subseteq Races

Tick == traded /\ Timely
BuyTurn(s) == Tick /\ First(s) /\ MayBuy(s)
SellTurn(s) == Tick /\ First(s) /\ ~MayBuy(s) /\ MaySell(s)

-----------------------------------------------------------------------------
(* What the steps read from the history.                                   *)

IsBuy(i) == fills[i].side = "buy"
IsSell(i) == fills[i].side = "sell"

(* The history is sorted by the creation of the orders, not by their       *)
(* execution: a sell that rested is older than a purchase executed before. *)
Known == 1 .. history
Before(i, j) == fills[i].born < fills[j].born
Newest == CHOOSE i \in Known : \A j \in Known \ {i} : Before(j, i)

(* calculateAverate: the purchases since cycleTimeStart, counted back to   *)
(* the first sale behind one of them.                                      *)
InCycleAfter(i) == IsBuy(i) /\ i > config.start      (* mutant: after it   *)
InCycle(i) == IsBuy(i) /\ i >= config.start
Averaged ==
  {i \in Known : InCycle(i) /\
     \A j, k \in Known : IsSell(j) /\ Before(i, j) /\ Before(j, k) => ~InCycle(k)}

(* calculatePrevVolume: the purchases before the newest entry, back to the *)
(* first sale.                                                             *)
PrevVolume ==
  LET earlier == {i \in Known \ {Newest} :
                    \A j \in Known \ {Newest} : ~Before(j, i) => IsBuy(j)}
  IN  MapThenSumSet(LAMBDA i : fills[i].volume, earlier)

-----------------------------------------------------------------------------
(* Changing the configuration.                                             *)

(* The first row of the table with the percents of step s.                 *)
Percents(s) == IF s = 0 THEN <<0, 0>> ELSE <<Decline[s], Growth[s]>>
RowOf(s) == CHOOSE t \in Steps : /\ Percents(t) = Percents(s)
                                 /\ \A u \in Steps : Percents(u) = Percents(s) => t <= u

(* The column of the table with the flag of step s as it is in memory.     *)
Written(column, s, blocked) ==
  IF s \in blocked THEN column \cup {RowOf(s)} ELSE column \ {RowOf(s)}

ConfigWith(s, flags, exec, start) ==
  [config EXCEPT !.flags = [buy |-> Written(config.flags.buy, s, flags.buy),
                            sell |-> Written(config.flags.sell, s, flags.sell)],
                 !.exec = exec,
                 !.start = start]

(* Flags in memory change at once, the configuration when it is delivered. *)
Update(flags, c, rows) ==
  /\ session' = [Current EXCEPT !.now = flags]
  /\ loop' = Append(loop, [kind |-> "forward", config |-> c])
  /\ row' = rows
  /\ UNCHANGED <<config, traded>>

(* updateMarketMetaConfig, after the flags of step s became flags; exec    *)
(* and start are those a purchase that closed leaves.                      *)
UpdateUnsaved(s, flags, exec, start) ==      (* mutant: no row is written   *)
  Update(flags, ConfigWith(s, flags, exec, start), row)

UpdateMarketMetaConfig(s, flags, exec, start) ==
  LET c == ConfigWith(s, flags, exec, start) IN Update(flags, c, {c})

(* cycleTimeStart is set once in a cycle.                                  *)
StartAt(i) == IF config.start = 0 THEN i ELSE config.start

UnlockWith(exec, rows) ==
  Update(NoFlags, [config EXCEPT !.flags = NoFlags, !.exec = exec, !.start = 0], rows)

UnlockKeepingExec == UnlockWith(config.exec, {})      (* mutant: no reset   *)
UnlockKeepingRow == UnlockWith(0, row)                (* mutant: no delete  *)

(* unlockAllSteps.                                                         *)
UnlockAllSteps == UnlockWith(0, {})

LooksAtIt == session' = Current /\ UNCHANGED <<loop, configVars>>

-----------------------------------------------------------------------------
(* Buying.  The book of the market may be empty or too thin at any tick.   *)

SubmitOrder(side, volume, s, over) ==
  /\ side \notin posted
  /\ posted' = posted \cup {side}
  /\ wire' = wire \cup {[side |-> side, volume |-> volume, step |-> s, over |-> over]}
  /\ UNCHANGED <<exchangeVars, canceling, news, storageVars>>

NoRequest == UNCHANGED <<exchangeVars, requestVars, news, posted, storageVars>>

BlockBuy(s) == [Current.now EXCEPT !.buy = @ \cup {s}]
BlockSell(s) == [Current.now EXCEPT !.sell = @ \cup {s}]
BlockBoth(s) == [buy |-> Current.now.buy \cup {s}, sell |-> Current.now.sell \cup {s}]

Purchases == Len(SelectSeq(fills, LAMBDA f : f.side = "buy"))
             + Cardinality({p \in wire : p.side = "buy"})

(* ZeroStep::executeBuyLogic: the balance is that of a purchase.           *)
Enough == 20 * balance.total >= 19 * TradeSum

CloseZero ==
  /\ BuyTurn(0)
  /\ Enough
  /\ history > 0 /\ IsBuy(Newest)
  /\ UpdateMarketMetaConfig(0, BlockBuy(0), config.exec + 1, StartAt(Newest))
  /\ NoRequest

BuyZero ==
  /\ BuyTurn(0)
  /\ ~Enough
  /\ Purchases < MaxPurchases
  /\ SubmitOrder("buy", TradeSum, 0, {})
  /\ LooksAtIt

(* Step::executeBuyLogic.                                                  *)
Fallen(s) == s < Last /\ config.rate <= -Decline[s + 1]
Rebound(s) == ~Fallen(s) /\ config.rate >= -Growth[s] /\ balance.total # 0

SkipStep(s) ==
  /\ s # 0 /\ BuyTurn(s)
  /\ Fallen(s)
  /\ UpdateMarketMetaConfig(s, BlockBoth(s), config.exec, config.start)
  /\ NoRequest

CloseBuyIf(s, enough) ==
  /\ s # 0 /\ BuyTurn(s)
  /\ Rebound(s)
  /\ enough
  /\ 20 * balance.total >= 19 * 2 * PrevVolume
  /\ UpdateMarketMetaConfig(s, BlockBuy(s), config.exec + 1, config.start)
  /\ NoRequest

CloseBuyLate(s) ==                   (* mutant: one purchase more          *)
  CloseBuyIf(s, Cardinality(Averaged) > config.exec + 1)

CloseBuy(s) == CloseBuyIf(s, Cardinality(Averaged) > config.exec)

BuyUncounted(s) ==                   (* mutant: purchases are not counted  *)
  /\ s # 0 /\ BuyTurn(s)
  /\ Rebound(s)
  /\ Purchases < MaxPurchases
  /\ SubmitOrder("buy", balance.total, s, {})
  /\ LooksAtIt

Buy(s) ==
  /\ s # 0 /\ BuyTurn(s)
  /\ Rebound(s)
  /\ Cardinality(Averaged) <= config.exec
  /\ Purchases < MaxPurchases
  /\ SubmitOrder("buy", balance.total, s, {})
  /\ LooksAtIt

Buying(s) == SkipStep(s) \/ CloseBuy(s) \/ Buy(s)

-----------------------------------------------------------------------------
(* Selling: executeSellLogic of ZeroStep and of Step.                      *)

NothingLeft == balance.total = 0 \/ balance.available = 0

UnlockResting(s) ==                  (* mutant: open orders are not looked at *)
  /\ SellTurn(s)
  /\ history > 0
  /\ NothingLeft
  /\ UnlockAllSteps
  /\ NoRequest

Unlock(s) ==
  /\ SellTurn(s)
  /\ openSell = 0 /\ history > 0
  /\ NothingLeft
  /\ UnlockAllSteps
  /\ NoRequest

Sell(s) ==
  /\ SellTurn(s)
  /\ openSell = 0 /\ history > 0
  /\ ~NothingLeft
  /\ balance.total <= balance.available
  /\ SubmitOrder("sell", balance.available, s, Averaged)
  /\ LooksAtIt

(* The DELETE of an order that is closed already changes nothing.          *)
CancelOrder ==
  /\ canceling' = (sellOrder # NoOrder)
  /\ UNCHANGED <<exchangeVars, wire, news, posted, storageVars>>

CancelSmall(s) ==
  /\ SellTurn(s)
  /\ openSell # 0 /\ openSell < balance.total
  /\ CancelOrder
  /\ LooksAtIt

(* Step 0 looks at the drop of step 1, a later step at the rebound of the  *)
(* step after it.                                                          *)
FallenBehind(s) ==
  IF s = 0 THEN config.rate < -Decline[1]
  ELSE config.exec < MaxSteps /\ s < Last /\ config.rate < -Growth[s + 1]

CancelFallen(s) ==
  /\ SellTurn(s)
  /\ openSell # 0 /\ openSell >= balance.total
  /\ FallenBehind(s)
  /\ CancelOrder
  /\ UpdateMarketMetaConfig(s, BlockSell(s), config.exec, config.start)

Selling(s) == Unlock(s) \/ Sell(s) \/ CancelSmall(s) \/ CancelFallen(s)

(* A tick that finds nothing to do for the step, or no step.               *)
Wait ==
  /\ Tick
  /\ \A s \in Steps : SellTurn(s) =>
       \/ openSell = 0 /\ (history = 0 \/ "sell" \in posted
                           \/ (~NothingLeft /\ balance.total > balance.available))
       \/ openSell # 0 /\ openSell >= balance.total /\ ~FallenBehind(s)
  /\ LooksAtIt
  /\ NoRequest

Algorithm == CloseZero \/ BuyZero \/ Wait \/ \E s \in Steps : Buying(s) \/ Selling(s)

-----------------------------------------------------------------------------
(* TrendSearcher::timerEvent: a whole configuration with a new rate.       *)

PostRate(r) ==
  /\ r # config.rate
  /\ Cardinality({k \in DOMAIN loop : loop[k].kind = "update"}) < MaxUpdates
  /\ loop' = Append(loop, [kind |-> "update", config |-> [config EXCEPT !.rate = r]])
  /\ NoRequest
  /\ UNCHANGED <<configVars, session>>

Trend ==
  /\ Tick
  /\ history > 0
  /\ \/ IsBuy(Newest) /\ config.start # 0 /\ \E r \in Rates : PostRate(r)
     \/ IsSell(Newest) /\ PostRate(0)

-----------------------------------------------------------------------------
(* The exchange.  Reports and balances are messages of their own.          *)

Tell(report, total, locked) ==
  LET account == [kind |-> "account", total |-> total, available |-> total - locked]
  IN  \/ news' = news \o <<report, account>>
      \/ news' = news \o <<account, report>>

BotUnchanged == UNCHANGED <<loop, storageVars, configVars, session>>

FillBuy(p) ==
  /\ p.side = "buy"
  /\ wire' = wire \ {p}
  /\ fills' = Append(fills, [side |-> "buy", volume |-> p.volume,
                             born |-> 2 * Len(fills) + 2, step |-> p.step])
  /\ held' = held + p.volume
  /\ Tell([kind |-> "filled", side |-> "buy"], held', sellOrder.left)
  /\ UNCHANGED <<sellOrder, canceling, posted>>
  /\ BotUnchanged

(* A buy is fill or kill.                                                  *)
KillBuy(p) ==
  /\ p.side = "buy"
  /\ wire' = wire \ {p}
  /\ posted' = posted \ {"buy"}
  /\ UNCHANGED <<exchangeVars, canceling, news>>
  /\ BotUnchanged

Free == held - sellOrder.left

(* The record of a refused POST may stay in the table: see OrderFlow.      *)
RefuseSell(p) ==
  /\ p.side = "sell"
  /\ p.volume > Free
  /\ wire' = wire \ {p}
  /\ posted' \in {posted, posted \ {"sell"}}
  /\ UNCHANGED <<exchangeVars, canceling, news>>
  /\ BotUnchanged

RestSell(p) ==
  /\ p.side = "sell"
  /\ sellOrder = NoOrder /\ p.volume <= Free
  /\ wire' = wire \ {p}
  /\ sellOrder' = [volume |-> p.volume, left |-> p.volume,
                   born |-> 2 * Len(fills) + 1, over |-> p.over]
  /\ Tell([kind |-> "open", volume |-> p.volume], held, p.volume)
  /\ UNCHANGED <<fills, held, canceling, posted>>
  /\ BotUnchanged

(* PARTIALLY_FILLED merges the order as NEW does.                          *)
TradeSell ==
  /\ "partly" \in Races
  /\ sellOrder # NoOrder /\ sellOrder.left = sellOrder.volume
  /\ sellOrder' = [sellOrder EXCEPT !.left = @ \div 2]
  /\ held' = held - sellOrder.left + sellOrder'.left
  /\ Tell([kind |-> "open", volume |-> sellOrder.volume], held', sellOrder'.left)
  /\ UNCHANGED <<fills, requestVars, posted>>
  /\ BotUnchanged

(* The DELETE of a sell that is executed is refused without consequence.   *)
FillSell ==
  /\ sellOrder # NoOrder
  /\ canceling => "sold" \in Races
  /\ fills' = Append(fills, [side |-> "sell", volume |-> sellOrder.volume,
                             born |-> sellOrder.born, step |-> 0])
  /\ held' = held - sellOrder.left
  /\ sellOrder' = NoOrder
  /\ canceling' = FALSE
  /\ Tell([kind |-> "filled", side |-> "sell"], held', 0)
  /\ UNCHANGED <<wire, posted>>
  /\ BotUnchanged

(* What a canceled sell traded is in no FILLED report.                     *)
ExecuteCancel ==
  /\ canceling
  /\ canceling' = FALSE
  /\ sellOrder' = NoOrder
  /\ Tell([kind |-> "closed"], held, 0)
  /\ UNCHANGED <<fills, held, wire, posted>>
  /\ BotUnchanged

LoseCancel ==
  /\ "ignored" \in Races
  /\ canceling
  /\ canceling' = FALSE
  /\ UNCHANGED <<exchangeVars, wire, news, posted>>
  /\ BotUnchanged

AnswerPost == \E p \in wire : FillBuy(p) \/ KillBuy(p) \/ RestSell(p) \/ RefuseSell(p)

Exchange == AnswerPost \/ TradeSell \/ FillSell \/ ExecuteCancel \/ LoseCancel

-----------------------------------------------------------------------------
(* The handlers.  Removing an order from the open orders is direct, the    *)
(* rest is merged by a posted event.                                       *)

Receive(kind) ==
  /\ news # <<>> /\ Head(news).kind = kind
  /\ news' = Tail(news)
  /\ UNCHANGED <<exchangeVars, requestVars, configVars, session>>

ReportOpen ==
  /\ Receive("open")
  /\ posted' = posted \ {"sell"}
  /\ loop' = Append(loop, Head(news))
  /\ UNCHANGED storageVars

(* OpenOrdersStorage::remove; a merge that is queued puts the order back.  *)
RemoveOrder ==
  /\ "open" \in {loop[k].kind : k \in DOMAIN loop} => "zombie" \in Races
  /\ openSell' = 0

ReportFilledKeeping ==               (* mutant: the order is not removed    *)
  /\ Receive("filled")
  /\ posted' = posted \ {Head(news).side}
  /\ loop' = Append(loop, [kind |-> "history"])
  /\ UNCHANGED storageVars

ReportFilled ==
  /\ Receive("filled")
  /\ posted' = posted \ {Head(news).side}
  /\ IF Head(news).side = "sell" THEN RemoveOrder ELSE UNCHANGED openSell
  /\ loop' = Append(loop, [kind |-> "history"])
  /\ UNCHANGED <<history, balance>>

ReportClosed ==
  /\ Receive("closed")
  /\ RemoveOrder
  /\ UNCHANGED <<loop, posted, history, balance>>

OutboundAccount ==
  /\ Receive("account")
  /\ loop' = Append(loop, Head(news))
  /\ UNCHANGED <<posted, storageVars>>

Deliver(kind) ==
  /\ loop # <<>> /\ Head(loop).kind = kind
  /\ UNCHANGED <<exchangeVars, requestVars, news, posted, row, traded, session>>

MergeOpen ==
  /\ Deliver("open")
  /\ loop' = Tail(loop)
  /\ openSell' = Head(loop).volume
  /\ UNCHANGED <<history, balance, config>>

MergeHistoryTwice ==                 (* mutant: a second entry             *)
  /\ Deliver("history")
  /\ loop' = Tail(loop)
  /\ history' = history + 2
  /\ UNCHANGED <<balance, openSell, config>>

MergeHistory ==
  /\ Deliver("history")
  /\ loop' = Tail(loop)
  /\ history' = history + 1
  /\ UNCHANGED <<balance, openSell, config>>

MergeBalance ==
  /\ Deliver("account")
  /\ loop' = Tail(loop)
  /\ balance' = [total |-> Head(loop).total, available |-> Head(loop).available]
  /\ UNCHANGED <<history, openSell, config>>

(* The controller's signal updateMarketConfig, queued once more.           *)
ForwardUpdate ==
  /\ Deliver("forward")
  /\ loop' = Append(Tail(loop), [kind |-> "update", config |-> Head(loop).config])
  /\ UNCHANGED <<storageVars, config>>

(* MarketsStorage::updateMarketUserConfig.                                 *)
UpdateMarketUserConfig ==
  /\ Deliver("update")
  /\ loop' = Tail(loop)
  /\ config' = Head(loop).config
  /\ UNCHANGED storageVars

HandleNews == ReportOpen \/ ReportFilled \/ ReportClosed \/ OutboundAccount

HandlePosted ==
  \/ MergeOpen \/ MergeHistory \/ MergeBalance
  \/ ForwardUpdate \/ UpdateMarketUserConfig

-----------------------------------------------------------------------------
(* Stopping and starting: the pair is in the database or forgotten; what   *)
(* the exchange knows is read again.                                       *)

Start(rows) ==
  /\ wire = {} /\ ~canceling
  /\ row' = rows
  /\ traded' = (rows # {})
  /\ config' = IF rows = {} THEN NewConfig ELSE CHOOSE c \in rows : TRUE
  /\ session' = SessionOf(config')
  /\ news' = <<>> /\ loop' = <<>> /\ posted' = {}
  /\ history' = Len(fills)
  /\ balance' = [total |-> held, available |-> held - sellOrder.left]
  /\ openSell' = sellOrder.volume
  /\ UNCHANGED <<exchangeVars, requestVars>>

Crash == "crash" \in Races /\ Start(row)

(* saveState writes the configurations of the traded pairs.                *)
StopAndStart ==
  /\ "stop" \in Races
  /\ Start(IF traded THEN {config} ELSE {})

-----------------------------------------------------------------------------

Next == Algorithm \/ Trend \/ Exchange \/ HandleNews \/ HandlePosted
        \/ Crash \/ StopAndStart

Spec == Init /\ [][Next]_vars

(* The loop delivers what is posted or received, the exchange answers, and *)
(* a timer that fires every second finds, again and again, that a step may *)
(* close or sell.  The book need never be deep enough for a purchase.      *)
FairSpec ==
  /\ Spec
  /\ WF_vars(HandleNews)
  /\ WF_vars(HandlePosted)
  /\ WF_vars(AnswerPost)
  /\ WF_vars(ExecuteCancel)
  /\ SF_vars(CloseZero \/ \E s \in Steps : CloseBuy(s) \/ Selling(s))

-----------------------------------------------------------------------------
(* Properties.                                                             *)

(* The purchases since the last sale, and the step of the latest.          *)
Position == {i \in DOMAIN fills : IsBuy(i) /\ \A j \in i .. Len(fills) : IsBuy(j)}
Latest == IF Position = {} THEN 0 ELSE fills[Len(fills)].step

(* The step the bot works with.                                            *)
Working == Min({s \in Steps : MayBuy(s) \/ MaySell(s)})

Cycle == INSTANCE TradingCycle WITH
  MaxBuys <- MaxSteps + 1,
  working <- Working,
  bought <- Cardinality(Position),
  latest <- Latest

(* The flags in memory, in the configuration and in the database, and what *)
(* the storages say of orders and balances, make together the cycle that   *)
(* TradingCycle promises (Hanukkah::execLogic and everything it calls).    *)
CycleRefined == Cycle!CycleSpec

(* A step is closed for selling only after every step before it is closed, *)
(* whichever copy of the table the session is built from                   *)
(* (StepGenerator::update, updateMarketMetaConfig).                        *)
StepsInOrder ==
  \A s \in Current.now.sell :
    \A t \in Steps : t < s => t \in Current.now.sell \cap Current.now.buy

(* A sell of all that is held has a price that covers every purchase of    *)
(* the position and no other (calculateAverate against cycleTimeStart,     *)
(* which is written by a step and erased by unlockAllSteps).               *)
SellCoversCycle ==
  sellOrder # NoOrder /\ sellOrder.left = held => sellOrder.over = Position

Quiet == news = <<>> /\ loop = <<>>

(* execSteps counts the purchases of the position, but for one whose step  *)
(* has not closed (updateMarketMetaConfig, unlockAllSteps).                *)
ExecMatches ==
  Quiet /\ Position # {} => Cardinality(Position) - config.exec \in {0, 1}

(* When no update is under way the row of the pair is its configuration,   *)
(* but for the rate: a start continues where the bot was                   *)
(* (updateMarketMetaConfig against updateMarketUserConfig).                *)
RowMatches ==
  Quiet => \A c \in row : [c EXCEPT !.rate = config.rate] = config

(* A crash may make the bot forget a pair it has bought, but at most the   *)
(* first purchase, whose step has not closed (i_step.cpp:119-150).         *)
OnlyFirstForgotten == ~traded => Cardinality(Position) <= 1

(* step.cpp:63, zero_step.cpp:68: "if the balance is empty we consider it  *)
(* sold".  The row is deleted, and the cycle begins anew, only when the    *)
(* position is sold (unlockAllSteps).                                      *)
UnlockedWhenSold == [][row # {} /\ row' = {} /\ traded' => held = 0]_vars

(* What was bought at a step is offered as a whole, unless the price falls *)
(* below the rebound of the step again, the bot goes on to another step or *)
(* all is sold (README.md:38, "re-placing a sell order"); nor when a crash *)
(* made the bot forget the pair, or a canceled sell had traded in part     *)
(* (what it sold is missed by step.cpp:211 for the rest of the cycle).     *)
Bought(s) == Position # {} /\ Latest = s /\ Working = s
Offered == sellOrder # NoOrder /\ sellOrder.left = held
SellOffered ==
  \A s \in Steps :
    Bought(s) ~> \/ Offered \/ Working # s \/ Position = {}
                 \/ s # 0 /\ config.rate < -Growth[s]
                 \/ ~traded \/ held < MapThenSumSet(LAMBDA i : fills[i].volume, Position)

(* When the position is sold the bot returns to step 0 (README.md:34, "if  *)
(* the order was triggered, then return to step 1").                       *)
SoldRestarts == Position = {} ~> Working = 0

(* README.md:40: the bot works with the next pair of the table "but can    *)
(* not go to work with the previous values".                               *)
NeverBack == [][Position # {} /\ Position' # {} => Working' >= Working]_vars

(* README.md:38: at the rebound of a step "there is a purchase", which     *)
(* doubles the balance: one purchase at a step.                            *)
OnePurchasePerStep ==
  \A i, j \in Position : fills[i].step = fills[j].step => i = j

(* README.md:40: the bot goes on to the next step when the price "touched  *)
(* the % drop of the next step".                                           *)
DropReached ==
  [][\A s \in 1 .. Last - 1 :
       Working = s /\ Working' = s + 1 => config.rate <= -Decline[s + 1]]_vars
=============================================================================
