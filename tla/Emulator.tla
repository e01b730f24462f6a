------------------------------- MODULE Emulator -------------------------------
(***************************************************************************)
(* Trading in emulation mode (EnableTestData): BinanceAPI::submitOrder and *)
(* cancelOrder hand orders to the Emulator, which answers for the exchange *)
(* and keeps the account in BalancesStorage.  A purchase is executed at    *)
(* once; a sale rests until the user clicks on it or cancels it.           *)
(*                                                                         *)
(* The Emulator is called directly and reads the balances as they are; the *)
(* balances, open orders and trades it makes of them are merged by queued  *)
(* calls.  Closed orders are removed directly.  The record of the order in *)
(* TemporaryOrdersTable is placed and erased within submitOrder, so that   *)
(* table is empty whenever a handler ends and is left out.                 *)
(*                                                                         *)
(* Abstractions: whether and when a step buys or withdraws its offer is a  *)
(* free choice, as its prices and volumes are; how much it asks for, and   *)
(* at what price it sells, is computed as the steps do.  Ids are counted,  *)
(* the code draws them from 1 to 9999999.  All pairs have one filter.      *)
(***************************************************************************)
EXTENDS Rounding, Sequences, FiniteSets, Functions, SequencesExt

CONSTANTS
  Pairs,
  Coin, Base,            (* Market::getCurrency and getBaseCurrency        *)
  CoinSlice, BaseSlice,  (* what mid(0, 3) and mid(3, 3) of the id name,   *)
  Unknown,               (* Unknown when that is not a currency            *)
  Deposit,               (* the balances of the file of test data          *)
  Profit,                (* Market::getPercentageProfit100thPercent        *)
  Prices, Volumes,       (* of the book, and asked for by the steps        *)
  Races,                 (* what may happen in between, see RaceKinds      *)
  MaxOrders,             (* bound: orders submitted                        *)
  SentVolumes,           (* bound: volumes of orders in Account            *)
  SentPrices             (* bound: their prices                            *)

(* "pass" - several handlers run before the loop delivers what they post;  *)
(* "slip" - the error of a real makes rounding return one step less.       *)
RaceKinds == {"pass", "slip"}

Currencies == Range(Coin) \union Range(Base)

ASSUME CoinsAssumption == Coin \in [Pairs -> Currencies] /\ Base \in [Pairs -> Currencies]
ASSUME SlicesAssumption ==
  /\ Unknown \notin Currencies
  /\ CoinSlice \in [Pairs -> Currencies \union {Unknown}]
  /\ BaseSlice \in [Pairs -> Currencies \union {Unknown}]
ASSUME DepositAssumption == Deposit \in [Currencies -> Nat]
ASSUME QuotesAssumption ==
  /\ Prices \subseteq {n \in Nat : n >= TickSize}
  /\ Volumes \subseteq Nat \ {0}
ASSUME EmulatorAssumption == {Profit, MaxOrders} \subseteq Nat /\ Races \subseteq RaceKinds

VARIABLES
  balances,    (* BalancesStorage::m_Data                                 *)
  openOrders,  (* OpenOrdersStorage::m_Data: the sales that rest          *)
  history,     (* TradeHistoryStorage: the trades of a pair, oldest first *)
  queue,       (* the merges posted to the storages                       *)
  submitted,   (* how many orders the Emulator was given                  *)
  running      (* FALSE: it followed a null pointer                       *)

vars == <<balances, openOrders, history, queue, submitted, running>>

-----------------------------------------------------------------------------
(* The storages                                                            *)

Balance(available, held) ==
  [available |-> available, held |-> held, total |-> available + held]

(* find(id).  For what is no currency the code has a null pointer; what    *)
(* submitOrder and sellOrder make of it is dropped by merge.               *)
find(c) == IF c \in Currencies THEN balances[c] ELSE Balance(0, 0)

(* BalancesStorage::merge: the times are of one clock and never older than *)
(* what is stored; an entry of an unknown currency is skipped.             *)
Merged(stored, entries) ==
  [c \in Currencies |-> IF c \in DOMAIN entries THEN entries[c] ELSE stored[c]]

Added(c, amount) == Balance(find(c).available + amount, find(c).held)

(* The balances that a handler posts, by currency.                         *)
Entry(c, balance) == [x \in {c} |-> balance]
Entries(p, coin, base) ==
  [c \in {CoinSlice[p], BaseSlice[p]} |-> IF c = CoinSlice[p] THEN coin ELSE base]

Resting(p) == {o \in openOrders : o.pair = p}

(* What IStep::calculateAverate sums up: the purchases after the sale that *)
(* precedes the newest of them.                                            *)
Cycle(p) ==
  LET trades == history[p]
      Bought(i) == trades[i].side = "Buy"
  IN {i \in DOMAIN trades :
        /\ Bought(i)
        /\ \A j \in i .. Len(trades) : ~Bought(j) => \A k \in j .. Len(trades) : ~Bought(k)}

Sum(p, I, amount) == SumFunctionOnSet([i \in I |-> history[p][i][amount]], I)

-----------------------------------------------------------------------------
(* The handlers                                                            *)

Touched(p) == {Coin[p], Base[p], CoinSlice[p], BaseSlice[p]} \ {Unknown}

(* The loop has delivered what was posted about the currencies of the pair *)
(* when a timer fires or the user clicks.                                  *)
Fresh(p) ==
  \/ "pass" \in Races
  \/ \A i \in DOMAIN queue : Touched(queue[i].pair) \intersect Touched(p) = {}

Posted(p, kind, data) == <<[kind |-> kind, pair |-> p, data |-> data]>>

Order(p, fitted) ==
  [id |-> submitted + 1, pair |-> p, side |-> fitted.side,
   price |-> fitted.price, volume |-> fitted.volume, base |-> fitted.base]

(* Mutant: a purchase and a sale change places.                            *)
submitOrderSwapped(p, side, price, volume) ==
  LET order == Order(p, Fitted(side, price, volume))
  IN /\ running /\ submitted < MaxOrders
     /\ submitted' = submitted + 1
     /\ queue' = queue \o Posted(p, IF side = "Buy" THEN "open" ELSE "trade", order)
     /\ UNCHANGED <<balances, openOrders, history, running>>

(* BinanceAPI::submitOrder and Emulator::submitOrder.  A purchase is paid  *)
(* from the balances read now; a sale makes its volume the whole balance.  *)
submitOrder(p, side, price, volume) ==
  LET order == Order(p, Fitted(side, price, volume))
      bought == Entries(p, Added(CoinSlice[p], order.volume), Added(BaseSlice[p], -order.base))
      offered == Entry(CoinSlice[p], Balance(0, order.volume))
  IN /\ running /\ submitted < MaxOrders
     /\ submitted' = submitted + 1
     /\ queue' = queue \o
          IF side = "Buy"
          THEN Posted(p, "trade", order) \o Posted(p, "balances", bought)
          ELSE Posted(p, "open", order) \o Posted(p, "balances", offered)
     /\ UNCHANGED <<balances, openOrders, history, running>>

(* A step buys: its position is not on offer (its flags see to that, as    *)
(* Hanukkah shows) and the base currency suffices for what it asks.        *)
Buy(p, price, volume) ==
  /\ Fresh(p)
  /\ Resting(p) = {}
  /\ balances[Base[p]].total * Unit >= price * volume * (Unit + TradeFee)
  /\ submitOrder(p, "Buy", price, volume)

(* A step offers all it has at the price of the cycle's purchases.         *)
Sell(p) ==
  LET position == balances[Coin[p]]
      cycle == Cycle(p)
      stopLoss == calculateStopLoss(Sum(p, cycle, "base"), Sum(p, cycle, "volume"), Profit)
  IN /\ Fresh(p)
     /\ Resting(p) = {} /\ cycle # {}
     /\ position.total >= StepSize /\ position.available * stopLoss >= MinNotional
     /\ position.total <= position.available
     /\ \E slip \in IF "slip" \in Races THEN {0, 1} ELSE {0} :
          submitOrder(p, "Sell", stopLoss, position.available - slip)

(* Mutant: what was held stays held as well.                               *)
cancelOrderHolding(o) ==
  LET c == CoinSlice[o.pair]
  IN /\ running /\ Fresh(o.pair)
     /\ c # Unknown
     /\ openOrders' = openOrders \ {o}
     /\ queue' = queue \o Posted(o.pair, "balances",
                                 Entry(c, [find(c) EXCEPT !.available = find(c).held]))
     /\ UNCHANGED <<balances, history, submitted, running>>

(* Emulator::cancelOrder, for a step or the user: all that was held is     *)
(* available again.                                                        *)
cancelOrder(o) ==
  LET c == CoinSlice[o.pair]
      returned == [available |-> find(c).held, held |-> 0, total |-> find(c).total]
  IN /\ running /\ Fresh(o.pair)
     /\ c # Unknown
     /\ openOrders' = openOrders \ {o}
     /\ queue' = queue \o Posted(o.pair, "balances", Entry(c, returned))
     /\ UNCHANGED <<balances, history, submitted, running>>

(* There it reads a balance that is not there.                             *)
CancelCrashes(o) ==
  /\ running /\ Fresh(o.pair)
  /\ CoinSlice[o.pair] = Unknown
  /\ openOrders' = openOrders \ {o}
  /\ running' = FALSE
  /\ UNCHANGED <<balances, history, queue, submitted>>

(* Mutant: the base currency is paid and the coin is kept.                 *)
sellOrderKeeping(o) ==
  /\ running /\ Fresh(o.pair)
  /\ openOrders' = openOrders \ {o}
  /\ queue' = queue \o Posted(o.pair, "trade", o)
               \o Posted(o.pair, "balances", Entry(BaseSlice[o.pair], Added(BaseSlice[o.pair], o.base)))
  /\ UNCHANGED <<balances, history, submitted, running>>

(* The user lets a sale that rests be executed.                            *)
sellOrder(o) ==
  /\ running /\ Fresh(o.pair)
  /\ openOrders' = openOrders \ {o}
  /\ queue' = queue \o Posted(o.pair, "trade", o) \o Posted(o.pair, "balances",
       Entries(o.pair, Balance(0, 0), Added(BaseSlice[o.pair], o.base)))
  /\ UNCHANGED <<balances, history, submitted, running>>

(* The loop delivers the oldest merge.                                     *)
Deliver(kind) ==
  /\ running
  /\ queue # <<>> /\ Head(queue).kind = kind
  /\ queue' = Tail(queue)
  /\ UNCHANGED <<submitted, running>>

MergeOpenOrders ==
  /\ Deliver("open")
  /\ openOrders' = openOrders \union {Head(queue).data}
  /\ UNCHANGED <<balances, history>>

MergeTradeHistory ==
  /\ Deliver("trade")
  /\ history' = [history EXCEPT ![Head(queue).pair] = Append(@, Head(queue).data)]
  /\ UNCHANGED <<balances, openOrders>>

MergeBalances ==
  /\ Deliver("balances")
  /\ balances' = Merged(balances, Head(queue).data)
  /\ UNCHANGED <<openOrders, history>>

(* With test data the exchange is not asked: the balances are of the file. *)
userBalance == [c \in Currencies |-> Balance(Deposit[c], 0)]

Init ==
  /\ balances = userBalance
  /\ openOrders = {}
  /\ history = [p \in Pairs |-> <<>>]
  /\ queue = <<>>
  /\ submitted = 0
  /\ running = TRUE

Next ==
  \/ \E p \in Pairs, price \in Prices, volume \in Volumes : Buy(p, price, volume)
  \/ \E p \in Pairs : Sell(p)
  \/ \E o \in openOrders : cancelOrder(o)
  \/ \E o \in openOrders : CancelCrashes(o)
  \/ \E o \in openOrders : sellOrder(o)
  \/ MergeOpenOrders \/ MergeTradeHistory \/ MergeBalances

Spec == Init /\ [][Next]_vars

-----------------------------------------------------------------------------
(* Properties                                                              *)

Orders == [id : 1 .. MaxOrders, pair : Pairs, side : {"Buy", "Sell"},
           price : Nat, volume : Nat, base : Nat]
Amounts == [available : Int, held : Nat, total : Int]

(* Every order and balance is one, and a storage holds what it is for.     *)
TypeOK ==
  /\ balances \in [Currencies -> Amounts]
  /\ openOrders \subseteq {o \in Orders : o.side = "Sell"}
  /\ history \in [Pairs -> Seq(Orders)]
  /\ \A i \in DOMAIN queue :
       /\ queue[i].pair \in Pairs
       /\ \/ queue[i].kind \in {"open", "trade"} /\ queue[i].data \in Orders
          \/ /\ queue[i].kind = "balances"
             /\ DOMAIN queue[i].data \subseteq Currencies \union {Unknown}
             /\ Range(queue[i].data) \subseteq Amounts
  /\ submitted \in 0 .. MaxOrders
  /\ running \in BOOLEAN

(* The pairs whose currencies the Emulator finds.                          *)
Told == {p \in Pairs : CoinSlice[p] = Coin[p] /\ BaseSlice[p] = Base[p]}

(* Once all is delivered, the balance of a coin is what the history of its *)
(* pair says was bought and not sold: the steps compare the two            *)
(* (step.cpp:211, and the purchases that a sale's price is computed from). *)
PositionInHistory ==
  \A p \in Told :
    (\A i \in DOMAIN queue : queue[i].pair # p) =>
      LET Of(side) == {i \in DOMAIN history[p] : history[p][i].side = side}
      IN balances[Coin[p]].total = Deposit[Coin[p]]
           + Sum(p, Of("Buy"), "volume") - Sum(p, Of("Sell"), "volume")

(* The storages when everything posted is delivered: the youngest entry of *)
(* a currency stays, and the offers are those stored and those posted.     *)
Settled(posted, stored, c) ==
  LET I == {i \in DOMAIN posted : posted[i].kind = "balances" /\ c \in DOMAIN posted[i].data}
  IN IF I = {} THEN stored[c] ELSE posted[Max(I)].data[c]
SettledOffers(posted, stored) ==
  stored \union {e.data : e \in {x \in Range(posted) : x.kind = "open"}}

Money == UNION {{Coin[p], Base[p]} : p \in Told}
Ticket(o) == [id |-> o.id, pair |-> o.pair, volume |-> o.volume, base |-> o.base]

Ledger == INSTANCE Account WITH
  Pairs <- Told,
  Ids <- 1 .. MaxOrders,
  Volumes <- SentVolumes,
  Prices <- SentPrices,
  free <- [c \in Money |-> Settled(queue, balances, c).available],
  locked <- [c \in Money |-> Settled(queue, balances, c).held],
  offers <- {Ticket(o) : o \in {x \in SettledOffers(queue, openOrders) : x.pair \in Told}}

(* The Emulator and the storages keep the account as an exchange would:    *)
(* every handler is one movement of money and a merge moves none.          *)
AccountKept == Ledger!AccountSpec

(* A position is offered for at least what it cost: README.md, step 2, "A  *)
(* sell order is placed at the specified % of profit".                     *)
OfferedAboveCost ==
  \A o \in openOrders : o.base >= Sum(o.pair, Cycle(o.pair), "base")
=============================================================================
