-------------------------- MODULE HanukkahCycleProofs --------------------------
(***************************************************************************)
(* That Hanukkah implements TradingCycle, and what it buys, counts and     *)
(* offers in a cycle, for any table of steps and any rates.                *)
(*                                                                         *)
(* CycleFollows says in which phase of a step the bot is (PhaseFollows):   *)
(* what the flags, the counter of purchases and the start of the cycle     *)
(* have to do with what is bought, sent and offered.  It speaks of the     *)
(* configuration that is due, which an update under way may bring; all     *)
(* copies agree with it (CopiesFollow), and so do the messages with the    *)
(* sell that rests (MessagesFollow).  Each kind of step has lemmas of its  *)
(* own for these, and CycleStep puts them together: every step keeps the   *)
(* invariant and is a step of TradingCycle, or leaves its state as it is.  *)
(***************************************************************************)
EXTENDS HanukkahProofs

(* Nothing outruns what a timer waits for, no sell is executed that is     *)
(* canceled, no cancellation is ignored, and the bot is not stopped while  *)
(* an update is under way: sells may trade in part, and the bot may die.   *)
Orderly == Races \subseteq {"partly", "crash"}

(* What the configuration is, or will be when it is delivered.             *)
Due == IF UnderWay(loop) = {} THEN {config} ELSE UnderWay(loop)

PositionSize == Cardinality(Position)

-----------------------------------------------------------------------------
(* The cycle: how the flags, the counter and the start of the cycle belong *)
(* to what is bought and offered.                                          *)

(* The steps before step w are closed, step w perhaps for buying.          *)
WorksWith(w, flags) ==
  flags.sell = 0 .. w - 1 /\ flags.buy \in {0 .. w - 1, 0 .. w}

(* The sell of what is held, and one that is being canceled: it was for    *)
(* what was held before a purchase, or nothing is bought since.            *)
OwnSell == ~canceling /\ sellOrder.over = Position /\ sellOrder.left = held
OldSell ==
  /\ canceling /\ sellOrder.volume >= 2 /\ sellOrder.left >= 1
  /\ sellOrder.over = Position \/ sellOrder.left < held

(* No purchase, or the first one, whose step is not closed.                *)
Beginning ==
  /\ sellOrder = NoOrder
  /\ \/ /\ Position = {} /\ held = 0
        /\ \A p \in wire : p.side = "buy" /\ p.step = 0 /\ p.volume = TradeSum
     \/ PositionSize = 1 /\ held = TradeSum /\ Latest = 0 /\ wire = {}

(* A purchase that is not counted yet.                                     *)
Purchased(w, exec) ==
  /\ PositionSize = exec + 1 /\ Latest <= w /\ wire = {} /\ held >= 2
  /\ sellOrder # NoOrder => OldSell /\ sellOrder.left < held

(* Waiting for a rebound to buy.                                           *)
ToBuy(w, exec) ==
  /\ PositionSize = exec /\ Latest < w /\ held >= 1
  /\ \A p \in wire : p.side = "buy" /\ Latest < p.step /\ p.step <= w /\ p.volume >= 1
  /\ sellOrder # NoOrder => OldSell

(* A step closed for buying has at least two shares to sell.               *)
ToSell(w, exec, closed) ==
  /\ PositionSize = exec /\ Latest <= w
  /\ \A p \in wire : p.side = "sell" /\ p.volume = held /\ p.over = Position
  /\ wire # {} => sellOrder = NoOrder
  /\ sellOrder = NoOrder => held >= IF closed THEN 2 ELSE 1
  /\ sellOrder # NoOrder =>
       \/ OwnSell /\ (closed => sellOrder.volume >= 2 /\ sellOrder.left >= 1)
       \/ OldSell /\ (closed => sellOrder.left < held)

NoPosition == Position = {} /\ held = 0 /\ sellOrder = NoOrder /\ wire = {}

Waits(w, flags, exec) ==
  /\ exec > 0 /\ 0 \in flags.buy /\ w \notin flags.buy /\ exec <= MaxSteps
  /\ Purchased(w, exec) \/ ToBuy(w, exec)

Offers(w, flags, exec) ==
  /\ exec > 0 /\ 0 \in flags.buy /\ (w \in flags.buy \/ exec > MaxSteps)
  /\ ToSell(w, exec, w \in flags.buy) \/ NoPosition

InPhase(w, flags, exec) ==
  \/ exec = 0 /\ flags = NoFlags /\ Beginning
  \/ Waits(w, flags, exec)
  \/ Offers(w, flags, exec)

(* cycleTimeStart is the first purchase of the position.                   *)
StartsAt(start) == start \in Position /\ \A i \in Position : start <= i

Follows(flags, exec, start) ==
  /\ \E w \in Steps : WorksWith(w, flags) /\ InPhase(w, flags, exec)
  /\ exec = 0 => start = 0
  /\ exec > 0 /\ Position # {} => StartsAt(start)

-----------------------------------------------------------------------------
(* The messages.                                                           *)

AboutSell == Opens \cup Removals

(* What tells that this volume rests, or that none does.                   *)
Showing(volume) ==
  [kind : {"open"}, volume : {volume}] \cup (IF volume = 0 THEN Removals ELSE {})

FillReports == [kind : {"filled"}, side : Sides]
SellReports == [kind : {"filled"}, side : {"sell"}]

(* What was heard last of the sell, or will be, is true.                   *)
OpenFollows ==
  \/ LastIn(news, Showing(sellOrder.volume), AboutSell)
  \/ NoneIn(news, AboutSell) /\ LastIn(loop, Showing(sellOrder.volume), AboutSell)
  \/ /\ NoneIn(news, AboutSell) /\ NoneIn(loop, AboutSell)
     /\ openSell = sellOrder.volume

(* One order is on its way, which the table knows of; no execution is      *)
(* unheard of meanwhile, and no other sell.                                *)
OneOrder ==
  /\ \A p, q \in wire : p = q
  /\ \A p \in wire : p.side \in posted /\ NoneIn(news, FillReports)
  /\ \A p \in wire : p.side = "sell" =>
       openSell = 0 /\ NoneIn(news, Opens) /\ NoneIn(loop, Opens)

(* A cancellation is of an order that the bot knows, until it has heard    *)
(* that the order is closed.                                               *)
CancelsKnown ==
  /\ sellOrder.left <= sellOrder.volume
  /\ canceling => sellOrder # NoOrder /\ openSell # 0 /\ NoRemoval(news)
  /\ Count(news, "closed") # 0 =>
       /\ sellOrder = NoOrder /\ openSell # 0 /\ Position # {}
       /\ Count(news, "closed") = 1 /\ NoneIn(news, SellReports)

(* The copies of the configuration.                                        *)
CopiesFollow ==
  /\ \A c, d \in Due : c = d
  /\ \A c \in Due : Current.now = c.flags
  /\ row = {} => \A c \in Due : c.exec = 0
  /\ traded \/ row = {}

PhaseFollows == \A c \in Due : Follows(c.flags, c.exec, c.start)

MessagesFollow == OpenFollows /\ OneOrder /\ CancelsKnown

CycleFollows == PhaseFollows /\ MessagesFollow /\ CopiesFollow

-----------------------------------------------------------------------------
(* The position.                                                           *)

(* What the provers need of the executions and the purchases among them.   *)
LEMMA PositionTyped ==
  ASSUME TypeInv
  PROVE  /\ fills \in Seq(Fill) /\ Len(fills) \in Nat /\ DOMAIN fills = 1 .. Len(fills)
         /\ \A i \in 1 .. Len(fills) : IsBuy(i) \/ IsSell(i)
         /\ Position = {i \in 1 .. Len(fills) : \A j \in i .. Len(fills) : IsBuy(j)}
         /\ Position \subseteq 1 .. Len(fills) /\ IsFiniteSet(Position)
         /\ PositionSize \in Nat /\ (Position = {} <=> PositionSize = 0)
         /\ Position # {} => Len(fills) \in Position
         /\ Latest \in Steps
<1>1. fills \in Seq(Fill) /\ Len(fills) \in Nat /\ DOMAIN fills = 1 .. Len(fills)
  BY DEF TypeInv, TypeOK
<1>2. \A i \in 1 .. Len(fills) : fills[i] \in Fill
  BY <1>1, ElementOfSeq
<1>3. \A i \in 1 .. Len(fills) : IsBuy(i) \/ IsSell(i)
  BY <1>2 DEF Fill, Sides, IsBuy, IsSell
<1>4. Position = {i \in 1 .. Len(fills) : \A j \in i .. Len(fills) : IsBuy(j)}
  BY <1>1 DEF Position
<1>5. Position \subseteq 1 .. Len(fills) /\ IsFiniteSet(Position)
  <2>1. Position \subseteq 1 .. Len(fills)
    BY <1>4
  <2>2. IsFiniteSet(1 .. Len(fills))
    BY <1>1, FS_Interval
  <2>3. QED
    BY <2>1, <2>2, FS_Subset
<1>6. PositionSize \in Nat /\ (Position = {} <=> PositionSize = 0)
  BY <1>5, FS_CardinalityType, FS_EmptySet DEF PositionSize
<1>7. Position # {} => Len(fills) \in Position
  <2>1. SUFFICES ASSUME NEW i \in Position
                 PROVE  Len(fills) \in Position
    OBVIOUS
  <2>2. /\ Len(fills) \in 1 .. Len(fills)
        /\ \A j \in Len(fills) .. Len(fills) : j \in i .. Len(fills)
    BY <1>1, <1>5
  <2>3. QED
    BY <1>4, <2>2
<1>8. Latest \in Steps
  <2>1. Position # {} => fills[Len(fills)] \in Fill
    BY <1>2, <1>5, <1>7
  <2>2. 0 \in Steps
    BY TableAssumption DEF Steps
  <2>3. QED
    BY <2>1, <2>2 DEF Latest, Fill
<1>9. QED
  BY <1>1, <1>3, <1>4, <1>5, <1>6, <1>7, <1>8

(* The position is a matter of the executions.                             *)
LEMMA PositionSame ==
  ASSUME fills' = fills
  PROVE  Position' = Position /\ PositionSize' = PositionSize /\ Latest' = Latest
<1>1. Position' = Position
  BY DEF Position, IsBuy
<1>2. QED
  BY <1>1 DEF PositionSize, Latest

(* A purchase is one more.                                                 *)
LEMMA PositionGrows ==
  ASSUME TypeInv, NEW f \in Fill, f.side = "buy", fills' = Append(fills, f)
  PROVE  /\ Position' = Position \cup {Len(fills) + 1}
         /\ PositionSize' = PositionSize + 1
         /\ Latest' = f.step
<1>1. PICK n \in Nat : n = Len(fills)
  BY PositionTyped
<1>2. /\ Len(fills') = n + 1 /\ DOMAIN fills' = 1 .. n + 1
      /\ \A i \in 1 .. n : (fills'[i]).side = "buy" <=> IsBuy(i)
      /\ fills'[n + 1] = f
  BY <1>1, FillAppended DEF IsBuy
<1>3. Position' = {i \in 1 .. n + 1 : \A j \in i .. n + 1 : (fills'[j]).side = "buy"}
  BY <1>1, <1>2 DEF Position, IsBuy
<1>4. Position = {i \in 1 .. n : \A j \in i .. n : IsBuy(j)}
  BY <1>1, PositionTyped
<1>5. Position' = Position \cup {n + 1}
  <2>1. ASSUME NEW i \in 1 .. n
        PROVE  i \in Position' <=> i \in Position
    <3>1. \A j \in i .. n + 1 : j = n + 1 \/ j \in i .. n
      OBVIOUS
    <3>2. \A j \in i .. n : j \in i .. n + 1 /\ j \in 1 .. n
      OBVIOUS
    <3>3. i \in 1 .. n + 1
      OBVIOUS
    <3>4. QED
      BY <1>2, <1>3, <1>4, <3>1, <3>2, <3>3
  <2>2. n + 1 \in Position'
    <3>1. n + 1 \in 1 .. n + 1 /\ \A j \in n + 1 .. n + 1 : j = n + 1
      OBVIOUS
    <3>2. QED
      BY <1>2, <1>3, <3>1
  <2>3. \A i \in 1 .. n + 1 : i = n + 1 \/ i \in 1 .. n
    OBVIOUS
  <2>4. QED
    BY <1>3, <1>4, <2>1, <2>2, <2>3
<1>6. n + 1 \notin Position
  BY <1>4
<1>7. PositionSize' = PositionSize + 1
  BY <1>5, <1>6, PositionTyped, FS_AddElement DEF PositionSize
<1>8. Latest' = f.step
  BY <1>2, <1>5 DEF Latest
<1>9. QED
  BY <1>1, <1>5, <1>7, <1>8

(* A sale ends it.                                                         *)
LEMMA PositionSold ==
  ASSUME TypeInv, NEW f \in Fill, f.side = "sell", fills' = Append(fills, f)
  PROVE  Position' = {} /\ PositionSize' = 0 /\ Latest' = 0
<1>1. PICK n \in Nat : n = Len(fills)
  BY PositionTyped
<1>2. Len(fills') = n + 1 /\ DOMAIN fills' = 1 .. n + 1 /\ fills'[n + 1] = f
  BY <1>1, FillAppended
<1>3. \A i \in 1 .. n + 1 : n + 1 \in i .. n + 1
  OBVIOUS
<1>4. Position' = {}
  BY <1>2, <1>3 DEF Position, IsBuy
<1>5. QED
  BY <1>4, FS_EmptySet DEF PositionSize, Latest

(* When an order was created, against the orders executed before it.       *)
LEMMA BornBefore ==
  ASSUME TypeInv, NEW i \in 1 .. Len(fills), NEW j \in 1 .. Len(fills), j < i, IsBuy(i)
  PROVE  Before(j, i) /\ ~Before(i, j)
<1>1. /\ i \in DOMAIN fills /\ j \in DOMAIN fills /\ i \in Nat /\ j \in Nat
      /\ Len(fills) \in Nat
  BY PositionTyped
<1>2. fills[i].born = 2 * i
  BY <1>1 DEF TypeInv, BornInOrder
<1>3. fills[j].born \in Nat /\ fills[j].born <= 2 * j
  <2>1. CASE IsBuy(j)
    BY <1>1, <2>1 DEF TypeInv, BornInOrder
  <2>2. CASE ~IsBuy(j)
    <3>1. PICK k \in 0 .. j - 1 : fills[j].born = 2 * k + 1
      BY <1>1, <2>2 DEF TypeInv, BornInOrder
    <3>2. QED
      BY <1>1, <3>1
  <2>3. QED
    BY <2>1, <2>2
<1>4. QED
  BY <1>1, <1>2, <1>3 DEF Before

(* If the history is complete and ends with a purchase, that is the newest *)
(* entry.                                                                  *)
LEMMA NewestIs ==
  ASSUME TypeInv, history = Len(fills), Position # {}
  PROVE  Newest = Len(fills)
<1>1. PICK n \in Nat : n = Len(fills) /\ n \in Position
  BY PositionTyped
<1>2. n \in 1 .. n /\ IsBuy(n) /\ Known = 1 .. n
  BY <1>1, PositionTyped DEF Known
<1>3. \A j \in Known \ {n} : Before(j, n) /\ ~Before(n, j)
  BY <1>1, <1>2, BornBefore
<1>4. \A i \in Known : (\A j \in Known \ {i} : Before(j, i)) => i = n
  BY <1>2, <1>3
<1>5. QED
  BY <1>1, <1>2, <1>3, <1>4 DEF Newest

(* If the history is complete and the cycle starts with the first purchase *)
(* of the position, calculateAverate counts back to it and no further.     *)
LEMMA AveragedIs ==
  ASSUME TypeInv, history = Len(fills), StartsAt(config.start)
  PROVE  Averaged = Position
<1>1. PICK n \in Nat : n = Len(fills)
  BY PositionTyped
<1>2. Position = {i \in 1 .. n : \A j \in i .. n : IsBuy(j)} /\ Known = 1 .. n
  BY <1>1, PositionTyped DEF Known
<1>3. PICK start \in 1 .. n : start = config.start /\ start \in Position
  BY <1>2 DEF StartsAt
<1>4. ASSUME NEW i \in 1 .. n
      PROVE  InCycle(i) <=> i \in Position
  <2>1. i \in Position => InCycle(i)
    <3>1. i \in Position => i >= start
      BY <1>3 DEF StartsAt
    <3>2. i \in i .. n
      OBVIOUS
    <3>3. QED
      BY <1>2, <1>3, <3>1, <3>2 DEF InCycle
  <2>2. i >= start => i \in Position
    <3>1. i >= start => \A j \in i .. n : j \in start .. n
      OBVIOUS
    <3>2. QED
      BY <1>2, <1>3, <3>1
  <2>3. QED
    BY <1>3, <2>1, <2>2 DEF InCycle
<1>5. ASSUME NEW i \in Position, NEW j \in 1 .. n, IsSell(j)
      PROVE  ~Before(i, j)
  <2>1. i \in 1 .. n /\ i \in i .. n /\ IsBuy(i)
    BY <1>2
  <2>2. j < i
    <3>1. ~(j \in i .. n)
      BY <1>2, <1>5 DEF IsBuy, IsSell
    <3>2. QED
      BY <2>1, <3>1
  <2>3. QED
    BY <1>1, <2>1, <2>2, BornBefore
<1>6. QED
  BY <1>2, <1>4, <1>5 DEF Averaged

-----------------------------------------------------------------------------
(* The step that has the turn.                                             *)

(* Only one step is the one the bot works with.                            *)
LEMMA WorkingIs ==
  ASSUME NEW w \in Steps, WorksWith(w, Current.now)
  PROVE  /\ Working = w
         /\ \A s \in Steps : First(s) /\ (MayBuy(s) \/ MaySell(s)) => s = w
<1>1. Steps \subseteq Nat
  BY TableAssumption DEF Steps
<1>2. \A s \in Steps : s < w => ~MayBuy(s) /\ ~MaySell(s)
  BY <1>1 DEF WorksWith, MayBuy, MaySell
<1>3. MaySell(w)
  BY <1>1 DEF WorksWith, MaySell
<1>4. \A s \in Steps : First(s) /\ (MayBuy(s) \/ MaySell(s)) => s = w
  BY <1>1, <1>2, <1>3 DEF First
<1> DEFINE S == {s \in Steps : MayBuy(s) \/ MaySell(s)}
<1>5. w \in S /\ \A s \in S : w <= s
  BY <1>1, <1>2, <1>3
<1>6. \A s \in S : (\A t \in S : s <= t) => s = w
  BY <1>1, <1>5
<1>7. Working = w
  <2>1. Min(S) = w
    BY <1>5, <1>6 DEF Min
  <2>2. QED
    BY <2>1 DEF Working
<1>8. QED
  BY <1>4, <1>7

-----------------------------------------------------------------------------
(* The exchange keeps the phase.                                           *)

(* The numbers the phases are about.                                       *)
LEMMA AmountsTyped ==
  ASSUME TypeInv
  PROVE  /\ held \in Nat /\ sellOrder.left \in Nat /\ sellOrder.volume \in Nat
         /\ sellOrder.left <= held /\ canceling \in BOOLEAN
         /\ PositionSize \in Nat /\ Latest \in Nat /\ MaxSteps \in Nat
         /\ Steps \subseteq Nat /\ Last \in Nat /\ Last >= 2 /\ 0 \in Steps
         /\ \A p \in wire : /\ p \in Post /\ p.volume \in Nat /\ p.step \in Steps
                            /\ p.side \in Sides
<1>1. /\ held \in Nat /\ sellOrder \in SellOrder /\ wire \subseteq Post
      /\ canceling \in BOOLEAN /\ sellOrder.left <= held
  BY DEF TypeInv, TypeOK, Volumes, SellHeld
<1>2. sellOrder.left \in Nat /\ sellOrder.volume \in Nat
  BY <1>1 DEF SellOrder, Volumes
<1>3. \A p \in wire : p \in Post /\ p.volume \in Nat /\ p.step \in Steps /\ p.side \in Sides
  BY <1>1 DEF Post, Volumes
<1>4. MaxSteps \in Nat /\ Steps \subseteq Nat /\ Last \in Nat /\ Last >= 2 /\ 0 \in Steps
  BY TableAssumption, BoundsAssumption DEF Steps
<1>5. PositionSize \in Nat /\ Latest \in Nat
  BY <1>4, PositionTyped
<1>6. QED
  BY <1>1, <1>2, <1>3, <1>4, <1>5

(* What every phase says of the orders.                                    *)
LEMMA PhaseOrders ==
  ASSUME TypeInv, NEW flags, NEW exec \in Nat, NEW start, Follows(flags, exec, start)
  PROVE  /\ \A p \in wire : p.side = "sell" => sellOrder = NoOrder
         /\ sellOrder # NoOrder => Position # {}
         /\ sellOrder # NoOrder /\ ~canceling => wire = {} /\ sellOrder.left = held
<1>1. PICK w \in Steps : InPhase(w, flags, exec)
  BY DEF Follows
<1>2. CASE Beginning
  BY <1>2 DEF Beginning
<1>3. CASE Waits(w, flags, exec)
  BY <1>3, PositionTyped DEF Waits, Purchased, ToBuy, OldSell
<1>4. CASE Offers(w, flags, exec)
  BY <1>4, PositionTyped DEF Offers, ToSell, NoPosition, OwnSell, OldSell
<1>5. QED
  BY <1>1, <1>2, <1>3, <1>4 DEF InPhase

(* A purchase that is answered waits to be counted.                        *)
LEMMA FillBuyFollows ==
  ASSUME TypeInv, OneOrder, NEW p \in wire, FillBuy(p),
         NEW flags, NEW exec \in Nat, NEW start \in Nat, Follows(flags, exec, start)
  PROVE  Follows(flags, exec, start)'
<1>1. PICK w \in Steps : WorksWith(w, flags) /\ InPhase(w, flags, exec)
  BY DEF Follows
<1> DEFINE f == [side |-> "buy", volume |-> p.volume,
                 born |-> 2 * Len(fills) + 2, step |-> p.step]
<1>2. p.volume \in Nat /\ p.step \in Steps /\ p.side = "buy" /\ w \in Nat /\ p.step \in Nat
  BY AmountsTyped DEF FillBuy
<1>3. f \in Fill /\ f.side = "buy" /\ f.step = p.step /\ fills' = Append(fills, f)
  BY <1>2, PositionTyped DEF Fill, Sides, Volumes, FillBuy
<1>4. /\ Position' = Position \cup {Len(fills) + 1}
      /\ PositionSize' = PositionSize + 1
      /\ Latest' = p.step
  <2> HIDE DEF f
  <2>1. QED
    BY <1>3, PositionGrows
<1>5. /\ wire' = {} /\ held' = held + p.volume
      /\ sellOrder' = sellOrder /\ canceling' = canceling
  BY DEF OneOrder, FillBuy
<1>6. InPhase(w, flags, exec)'
  <2>1. CASE exec = 0 /\ flags = NoFlags /\ Beginning
    <3>1. Position = {} /\ held = 0 /\ p.step = 0 /\ p.volume = TradeSum /\ sellOrder = NoOrder
      BY <2>1 DEF Beginning
    <3>2. PositionSize' = 1 /\ held' = TradeSum /\ Latest' = 0
      BY <1>4, <1>5, <3>1, PositionTyped DEF TradeSum
    <3>3. Beginning'
      BY <1>5, <3>1, <3>2 DEF Beginning
    <3>4. QED
      BY <2>1, <3>3 DEF InPhase
  <2>2. CASE Waits(w, flags, exec)
    <3>1. ToBuy(w, exec)
      BY <2>2 DEF Waits, Purchased
    <3>2. /\ PositionSize = exec /\ held >= 1 /\ p.step <= w /\ p.volume >= 1
          /\ sellOrder # NoOrder => OldSell
      BY <3>1 DEF ToBuy
    <3>3. PositionSize' = exec + 1 /\ Latest' <= w /\ held' >= 2 /\ held' > held
      BY <1>2, <1>4, <1>5, <3>2, AmountsTyped
    <3>4. sellOrder' # NoOrder => sellOrder'.left < held' /\ OldSell'
      BY <1>5, <3>2, <3>3, AmountsTyped DEF OldSell
    <3>5. Purchased(w, exec)'
      BY <1>5, <3>3, <3>4 DEF Purchased
    <3>6. QED
      BY <2>2, <3>5 DEF InPhase, Waits
  <2>3. CASE Offers(w, flags, exec)
    BY <1>2, <2>3 DEF Offers, ToSell, NoPosition
  <2>4. QED
    BY <1>1, <2>1, <2>2, <2>3 DEF InPhase
<1>7. exec > 0 => StartsAt(start)'
  <2>1. SUFFICES ASSUME exec > 0 PROVE StartsAt(start)'
    OBVIOUS
  <2>2. ToBuy(w, exec)
    BY <1>1, <1>2, <2>1 DEF InPhase, Waits, Purchased, Offers, ToSell, NoPosition
  <2>3. Position # {}
    BY <2>1, <2>2, PositionTyped DEF ToBuy
  <2>4. StartsAt(start) /\ start <= Len(fills) + 1
    BY <2>1, <2>3, PositionTyped DEF Follows, StartsAt
  <2>5. QED
    BY <1>4, <2>4 DEF StartsAt
<1>8. QED
  BY <1>1, <1>6, <1>7 DEF Follows

(* What is executed as a whole is all that was held.                       *)
LEMMA FillSellFollows ==
  ASSUME TypeInv, Orderly, FillSell,
         NEW flags, NEW exec \in Nat, NEW start \in Nat, Follows(flags, exec, start)
  PROVE  /\ Follows(flags, exec, start)'
         /\ PositionSize > 0 /\ PositionSize' = 0 /\ Latest' = 0
<1>1. PICK w \in Steps : WorksWith(w, flags) /\ InPhase(w, flags, exec)
  BY DEF Follows
<1> DEFINE f == [side |-> "sell", volume |-> sellOrder.volume,
                 born |-> sellOrder.born, step |-> 0]
<1>2. sellOrder.born \in Nat
  BY DEF TypeInv, TypeOK, SellOrder
<1>3. f \in Fill /\ f.side = "sell" /\ fills' = Append(fills, f)
  BY <1>2, AmountsTyped DEF Fill, Sides, Volumes, FillSell
<1>4. Position' = {} /\ PositionSize' = 0 /\ Latest' = 0
  <2> HIDE DEF f
  <2>1. QED
    BY <1>3, PositionSold
<1>5. sellOrder # NoOrder /\ ~canceling
  BY DEF FillSell, Orderly
<1>6. Offers(w, flags, exec) /\ ToSell(w, exec, w \in flags.buy)
  BY <1>1, <1>5 DEF InPhase, Beginning, Waits, Purchased, ToBuy, OldSell, Offers, NoPosition
<1>7. wire = {} /\ sellOrder.left = held
  BY <1>5, PhaseOrders
<1>8. NoPosition'
  BY <1>4, <1>7, AmountsTyped DEF FillSell, NoPosition
<1>9. InPhase(w, flags, exec)'
  BY <1>6, <1>8 DEF InPhase, Offers
<1>10. PositionSize > 0
  BY <1>6 DEF Offers, ToSell
<1>11. QED
  BY <1>1, <1>4, <1>9, <1>10 DEF Follows

(* A step that executes nothing to the end has to keep the phase only.     *)
LEMMA PhaseKept ==
  ASSUME fills' = fills, NEW flags, NEW exec, NEW start, Follows(flags, exec, start),
         \A w \in Steps : InPhase(w, flags, exec) => InPhase(w, flags, exec)'
  PROVE  Follows(flags, exec, start)'
BY PositionSame DEF Follows, StartsAt

(* A request that fails leaves the phase as it was.                        *)
LEMMA FailureFollows ==
  ASSUME UNCHANGED <<exchangeVars, canceling>>, wire' \subseteq wire,
         NEW flags, NEW exec, NEW start, Follows(flags, exec, start)
  PROVE  Follows(flags, exec, start)'
<1>1. /\ fills' = fills /\ held' = held /\ sellOrder' = sellOrder /\ canceling' = canceling
      /\ wire = {} => wire' = {}
      /\ wire' # {} => wire # {}
  BY DEF exchangeVars
<1>2. /\ Position' = Position /\ PositionSize' = PositionSize /\ Latest' = Latest
      /\ (OwnSell' <=> OwnSell) /\ (OldSell' <=> OldSell)
  BY <1>1, PositionSame DEF OwnSell, OldSell
<1>3. Beginning => Beginning'
  BY <1>1, <1>2 DEF Beginning
<1>4. ASSUME NEW w \in Steps, Waits(w, flags, exec)
      PROVE  Waits(w, flags, exec)'
  <2>1. Purchased(w, exec) => Purchased(w, exec)'
    BY <1>1, <1>2 DEF Purchased
  <2>2. ToBuy(w, exec) => ToBuy(w, exec)'
    BY <1>1, <1>2 DEF ToBuy
  <2>3. QED
    BY <1>4, <2>1, <2>2 DEF Waits
<1>5. ASSUME NEW w \in Steps, Offers(w, flags, exec)
      PROVE  Offers(w, flags, exec)'
  <2>1. ASSUME NEW closed, ToSell(w, exec, closed)
        PROVE  ToSell(w, exec, closed)'
    BY <1>1, <1>2, <2>1 DEF ToSell
  <2>2. NoPosition => NoPosition'
    BY <1>1, <1>2 DEF NoPosition
  <2>3. QED
    BY <1>5, <2>1, <2>2 DEF Offers
<1>6. QED
  BY <1>1, <1>3, <1>4, <1>5, PhaseKept DEF InPhase

(* A sell comes to rest: it is for all that is held.                       *)
LEMMA RestSellFollows ==
  ASSUME TypeInv, OneOrder, CancelsKnown, NEW p \in wire, RestSell(p),
         NEW flags, NEW exec, NEW start, Follows(flags, exec, start)
  PROVE  Follows(flags, exec, start)'
<1>1. /\ fills' = fills /\ held' = held /\ canceling' = canceling /\ ~canceling
      /\ wire' = {} /\ p.side = "sell" /\ sellOrder = NoOrder
      /\ sellOrder'.volume = p.volume /\ sellOrder'.left = p.volume
      /\ sellOrder'.over = p.over
  BY AmountsTyped DEF RestSell, OneOrder, CancelsKnown
<1>2. Position' = Position /\ PositionSize' = PositionSize /\ Latest' = Latest
  BY <1>1, PositionSame
<1>3. ASSUME NEW w \in Steps, InPhase(w, flags, exec)
      PROVE  InPhase(w, flags, exec)'
  <2>1. Offers(w, flags, exec) /\ ToSell(w, exec, w \in flags.buy)
    BY <1>1, <1>3 DEF InPhase, Beginning, Waits, Purchased, ToBuy, Offers, NoPosition
  <2> DEFINE closed == w \in flags.buy
  <2>2. p.volume = held /\ p.over = Position /\ held >= IF closed THEN 2 ELSE 1
    BY <1>1, <2>1 DEF ToSell
  <2>3. OwnSell'
    BY <1>1, <1>2, <2>2 DEF OwnSell
  <2>4. closed => sellOrder'.volume >= 2 /\ sellOrder'.left >= 1
    BY <1>1, <2>2, AmountsTyped
  <2>5. sellOrder' # NoOrder
    BY <1>1, <2>2, AmountsTyped DEF NoOrder
  <2> HIDE DEF closed
  <2>6. ToSell(w, exec, closed) => ToSell(w, exec, closed)'
    BY <1>1, <1>2, <2>3, <2>4, <2>5 DEF ToSell
  <2>7. QED
    BY <2>1, <2>6 DEF InPhase, Offers, closed
<1>4. QED
  BY <1>1, <1>3, PhaseKept

(* A sell that trades in part is less, by as much as the balance is.       *)
LEMMA TradeSellFollows ==
  ASSUME TypeInv, CancelsKnown, TradeSell,
         NEW flags, NEW exec \in Nat, NEW start, Follows(flags, exec, start)
  PROVE  Follows(flags, exec, start)'
<1>1. /\ fills' = fills /\ canceling' = canceling /\ wire' = wire
      /\ sellOrder # NoOrder /\ sellOrder.left = sellOrder.volume
      /\ sellOrder'.left = sellOrder.left \div 2 /\ sellOrder'.volume = sellOrder.volume
      /\ sellOrder'.over = sellOrder.over /\ sellOrder'.born = sellOrder.born
      /\ held' = held - sellOrder.left + sellOrder'.left
  BY DEF TradeSell, requestVars, TypeInv, TypeOK, SellOrder
<1>2. Position' = Position /\ PositionSize' = PositionSize /\ Latest' = Latest
  BY <1>1, PositionSame
<1>3. PICK left \in Nat, half \in Nat : /\ left = sellOrder.left /\ half = sellOrder'.left
                                       /\ half = left \div 2
  BY <1>1, AmountsTyped
<1>4. /\ left >= 2 => half >= 1
      /\ held' = (held - left) + half /\ held \in Nat /\ left <= held
  BY <1>1, <1>3, AmountsTyped
<1>5. /\ sellOrder.left < held => sellOrder'.left < held' /\ held' >= 1 + half
      /\ sellOrder.left = held => sellOrder'.left = held'
      /\ held' >= half /\ held' \in Nat
  BY <1>3, <1>4
<1>6. OwnSell => OwnSell'
  BY <1>1, <1>2, <1>5 DEF OwnSell
<1>7. OldSell => OldSell' /\ held' >= 1 /\ half >= 1
  BY <1>1, <1>2, <1>3, <1>4, <1>5 DEF OldSell
<1>8. sellOrder.volume >= 2 => sellOrder'.volume >= 2 /\ sellOrder'.left >= 1
  BY <1>1, <1>3, <1>4
<1>9. ASSUME NEW w \in Steps, InPhase(w, flags, exec)
      PROVE  InPhase(w, flags, exec)'
  <2>1. ~Beginning /\ ~NoPosition
    BY <1>1 DEF Beginning, NoPosition
  <2>2. Purchased(w, exec) => Purchased(w, exec)'
    BY <1>1, <1>2, <1>3, <1>5, <1>7 DEF Purchased
  <2>3. ToBuy(w, exec) => ToBuy(w, exec)'
    BY <1>1, <1>2, <1>7 DEF ToBuy
  <2>4. ASSUME NEW closed, ToSell(w, exec, closed)
        PROVE  ToSell(w, exec, closed)'
    <3>1. /\ PositionSize' = exec /\ Latest' <= w /\ wire' = {}
          /\ wire' # {} => sellOrder' = NoOrder
      BY <1>1, <1>2, <2>4 DEF ToSell
    <3>2. \/ OwnSell' /\ (closed => sellOrder'.volume >= 2 /\ sellOrder'.left >= 1)
          \/ OldSell' /\ (closed => sellOrder'.left < held')
      BY <1>1, <1>5, <1>6, <1>7, <1>8, <2>4 DEF ToSell
    <3>3. sellOrder' = NoOrder => held' >= IF closed THEN 2 ELSE 1
      <4>1. ASSUME sellOrder' = NoOrder
            PROVE  FALSE
        <5>1. PICK k \in 0 .. Len(fills) : sellOrder.born = 2 * k + 1
          BY <1>1 DEF TypeInv, BornInOrder
        <5>2. sellOrder.born = 0
          BY <1>1, <4>1 DEF NoOrder
        <5>3. QED
          BY <5>1, <5>2, PositionTyped
      <4>2. QED
        BY <4>1
    <3>4. QED
      BY <3>1, <3>2, <3>3 DEF ToSell
  <2>5. QED
    BY <1>9, <2>1, <2>2, <2>3, <2>4 DEF InPhase, Waits, Offers
<1>10. QED
  BY <1>1, <1>9, PhaseKept

(* A sell that is canceled leaves what it was not executed for.            *)
LEMMA ExecuteCancelFollows ==
  ASSUME TypeInv, CancelsKnown, ExecuteCancel,
         NEW flags, NEW exec \in Nat, NEW start, Follows(flags, exec, start)
  PROVE  Follows(flags, exec, start)'
<1>1. /\ fills' = fills /\ held' = held /\ wire' = wire /\ canceling /\ ~canceling'
      /\ sellOrder # NoOrder /\ sellOrder' = NoOrder
  BY DEF ExecuteCancel, CancelsKnown
<1>2. Position' = Position /\ PositionSize' = PositionSize /\ Latest' = Latest
  BY <1>1, PositionSame
<1>3. ASSUME NEW w \in Steps, InPhase(w, flags, exec)
      PROVE  InPhase(w, flags, exec)'
  <2>1. ~Beginning /\ ~NoPosition /\ ~OwnSell
    BY <1>1 DEF Beginning, NoPosition, OwnSell
  <2>2. Purchased(w, exec) => Purchased(w, exec)'
    BY <1>1, <1>2 DEF Purchased
  <2>3. ToBuy(w, exec) => ToBuy(w, exec)'
    BY <1>1, <1>2 DEF ToBuy
  <2>4. ASSUME NEW closed, ToSell(w, exec, closed)
        PROVE  ToSell(w, exec, closed)'
    <3>1. held >= IF closed THEN 2 ELSE 1
      BY <1>1, <2>1, <2>4, AmountsTyped DEF ToSell, OldSell
    <3>2. QED
      BY <1>1, <1>2, <2>4, <3>1 DEF ToSell
  <2>5. QED
    BY <1>3, <2>1, <2>2, <2>3, <2>4 DEF InPhase, Waits, Offers
<1>4. QED
  BY <1>1, <1>3, PhaseKept

(* Whatever the exchange does, the phase is kept.                          *)
LEMMA ExchangeFollows ==
  ASSUME TypeInv, Orderly, OneOrder, CancelsKnown, Exchange,
         NEW flags, NEW exec \in Nat, NEW start \in Nat, Follows(flags, exec, start)
  PROVE  Follows(flags, exec, start)'
<1>1. ASSUME NEW p \in wire, KillBuy(p) \/ RefuseSell(p)
      PROVE  Follows(flags, exec, start)'
  BY <1>1, FailureFollows DEF KillBuy, RefuseSell, exchangeVars
<1>2. ~LoseCancel
  BY DEF LoseCancel, Orderly
<1>3. QED
  BY <1>1, <1>2, FillBuyFollows, FillSellFollows, RestSellFollows, TradeSellFollows,
     ExecuteCancelFollows
     DEF Exchange, AnswerPost

-----------------------------------------------------------------------------
(* The exchange tells what it does.                                        *)

(* What a message is about, by its kind.                                   *)
LEMMA AboutKinds ==
  ASSUME NEW e \in (Reports \cup Accounts) \cup (Merges \cup Updates)
  PROVE  /\ e \in Opens <=> e.kind = "open"
         /\ e \in FillReports <=> e.kind = "filled"
         /\ e \in SellReports <=> e.kind = "filled" /\ e.side = "sell"
         /\ e \in Removals <=> e.kind = "closed" \/ (e.kind = "filled" /\ e.side = "sell")
         /\ e \in AboutSell <=> e \in Opens \/ e \in Removals
         /\ \A volume : e \in Showing(volume)
                        <=> \/ e.kind = "open" /\ e.volume = volume
                            \/ e \in Removals /\ volume = 0
<1>1. e \in Opens <=> e.kind = "open"
  BY MessageKinds
<1>2. e \in Removals <=> e.kind = "closed" \/ (e.kind = "filled" /\ e.side = "sell")
  BY MessageKinds
<1>3. e.kind = "filled" => e = [kind |-> e.kind, side |-> e.side] /\ e.side \in Sides
  BY DEF Reports, Accounts, Merges, Updates
<1>4. /\ e \in FillReports <=> e.kind = "filled"
      /\ e \in SellReports <=> e.kind = "filled" /\ e.side = "sell"
  BY <1>3 DEF FillReports, SellReports
<1>5. e.kind = "open" => e = [kind |-> e.kind, volume |-> e.volume]
  BY DEF Reports, Accounts, Merges, Updates
<1>6. ASSUME NEW volume
      PROVE  e \in [kind : {"open"}, volume : {volume}] <=> e.kind = "open" /\ e.volume = volume
  BY <1>5
<1>7. QED
  BY <1>1, <1>2, <1>4, <1>6 DEF AboutSell, Showing

(* A report and the balance after it, seen by those who wait for others.   *)
LEMMA TellMeans ==
  ASSUME TypeOK, NEW report \in Reports, NEW total \in Nat, NEW locked \in Nat,
         locked <= total, Tell(report, total, locked), NEW good, NEW bad,
         good \cap Accounts = {}, bad \cap Accounts = {}
  PROVE  /\ LastIn(news', good, bad)
            <=> report \in good \/ (LastIn(news, good, bad) /\ report \notin bad)
         /\ NoneIn(news', bad) <=> NoneIn(news, bad) /\ report \notin bad
         /\ Count(news', "closed") = Count(news, "closed")
                                     + (IF report.kind = "closed" THEN 1 ELSE 0)
<1> DEFINE account == [kind |-> "account", total |-> total, available |-> total - locked]
           Both == Reports \cup Accounts
<1>1. account \in Accounts /\ account \in Both /\ report \in Both /\ account.kind = "account"
  BY DEF Accounts, Volumes
<1>2. news \in Seq(Both) /\ Count(news, "closed") \in Nat
  BY CountTyped DEF TypeOK
<1>3. account \notin good /\ account \notin bad
  BY <1>1
<1>4. news' = news \o <<report, account>> \/ news' = news \o <<account, report>>
  BY DEF Tell
<1> HIDE DEF account, Both
<1>5. ASSUME NEW d \in Both, NEW e \in Both
      PROVE  /\ news \o <<d, e>> = Append(Append(news, d), e)
             /\ Append(news, d) \in Seq(Both)
  BY <1>2, <1>5, AppendProperties
<1>6. ASSUME NEW q \in Seq(Both), NEW e \in Both
      PROVE  /\ LastIn(Append(q, e), good, bad)
                <=> e \in good \/ (LastIn(q, good, bad) /\ e \notin bad)
             /\ NoneIn(Append(q, e), bad) <=> NoneIn(q, bad) /\ e \notin bad
             /\ Count(Append(q, e), "closed") = Count(q, "closed")
                                                + (IF e.kind = "closed" THEN 1 ELSE 0)
  BY <1>6, LastAppended, CountAppend
<1>7. CASE news' = news \o <<report, account>>
  <2>1. PICK p \in Seq(Both) : p = Append(news, report) /\ news' = Append(p, account)
    BY <1>1, <1>5, <1>7
  <2>2. /\ LastIn(news', good, bad) <=> LastIn(p, good, bad)
        /\ NoneIn(news', bad) <=> NoneIn(p, bad)
        /\ Count(news', "closed") = Count(p, "closed") + 0
    BY <1>1, <1>3, <1>6, <2>1
  <2>3. /\ LastIn(p, good, bad)
           <=> report \in good \/ (LastIn(news, good, bad) /\ report \notin bad)
        /\ NoneIn(p, bad) <=> NoneIn(news, bad) /\ report \notin bad
        /\ Count(p, "closed") = Count(news, "closed")
                                + (IF report.kind = "closed" THEN 1 ELSE 0)
    BY <1>1, <1>2, <1>6, <2>1
  <2>4. QED
    BY <1>2, <2>2, <2>3
<1>8. CASE news' = news \o <<account, report>>
  <2>1. PICK p \in Seq(Both) : p = Append(news, account) /\ news' = Append(p, report)
    BY <1>1, <1>5, <1>8
  <2>2. /\ LastIn(p, good, bad) <=> LastIn(news, good, bad)
        /\ NoneIn(p, bad) <=> NoneIn(news, bad)
        /\ Count(p, "closed") = Count(news, "closed") + 0
    BY <1>1, <1>2, <1>3, <1>6, <2>1
  <2>3. /\ LastIn(news', good, bad)
           <=> report \in good \/ (LastIn(p, good, bad) /\ report \notin bad)
        /\ NoneIn(news', bad) <=> NoneIn(p, bad) /\ report \notin bad
        /\ Count(news', "closed") = Count(p, "closed")
                                    + (IF report.kind = "closed" THEN 1 ELSE 0)
    BY <1>1, <1>6, <2>1
  <2>4. QED
    BY <1>2, <2>2, <2>3
<1>9. QED
  BY <1>4, <1>7, <1>8

(* What a report tells of the sell.                                        *)
LEMMA TellShows ==
  ASSUME TypeOK, NEW report \in Reports, NEW total \in Nat, NEW locked \in Nat,
         locked <= total, Tell(report, total, locked)
  PROVE  /\ \A volume : LastIn(news', Showing(volume), AboutSell)
                        <=> \/ report \in Showing(volume)
                            \/ LastIn(news, Showing(volume), AboutSell)
                               /\ report \notin AboutSell
         /\ \A bad \in {AboutSell, FillReports, SellReports, Opens, Removals} :
              NoneIn(news', bad) <=> NoneIn(news, bad) /\ report \notin bad
         /\ Count(news', "closed") = Count(news, "closed")
                                     + (IF report.kind = "closed" THEN 1 ELSE 0)
<1>1. \A bad \in {AboutSell, FillReports, SellReports, Opens, Removals} : bad \cap Accounts = {}
  BY DEF AboutSell, FillReports, SellReports, Opens, Removals, Accounts
<1>2. \A volume : Showing(volume) \cap Accounts = {}
  BY DEF Showing, Removals, Accounts
<1>3. QED
  BY <1>1, <1>2, TellMeans

(* A purchase and a failure tell nothing of the sell.                      *)
LEMMA BuyTells ==
  ASSUME TypeInv, MessagesFollow, NEW p \in wire, FillBuy(p) \/ KillBuy(p) \/ RefuseSell(p)
  PROVE  MessagesFollow'
<1>1. /\ wire' = {} /\ sellOrder' = sellOrder /\ canceling' = canceling
      /\ loop' = loop /\ openSell' = openSell
  BY DEF MessagesFollow, OneOrder, FillBuy, KillBuy, RefuseSell, exchangeVars, BotUnchanged,
         storageVars
<1>2. OneOrder'
  BY <1>1 DEF OneOrder
<1>3. CASE news' = news /\ fills' = fills
  <2>1. Position' = Position
    BY <1>3, PositionSame
  <2>2. OpenFollows' /\ CancelsKnown'
    BY <1>1, <1>3, <2>1 DEF MessagesFollow, OpenFollows, CancelsKnown
  <2>3. QED
    BY <1>2, <2>2 DEF MessagesFollow
<1>4. CASE FillBuy(p)
  <2> DEFINE report == [kind |-> "filled", side |-> "buy"]
             f == [side |-> "buy", volume |-> p.volume,
                   born |-> 2 * Len(fills) + 2, step |-> p.step]
  <2>1. TypeOK /\ held + p.volume \in Nat /\ sellOrder.left <= held + p.volume
        /\ sellOrder.left \in Nat /\ p.volume \in Nat
    BY AmountsTyped DEF TypeInv
  <2>2. report \in Reports /\ report.kind = "filled" /\ report.side = "buy"
    BY DEF Reports, Sides
  <2>3. Tell(report, held + p.volume, sellOrder.left)
    BY <1>4 DEF FillBuy
  <2>4. report \notin AboutSell /\ (\A volume : report \notin Showing(volume))
        /\ report \notin SellReports /\ report \notin Removals
    BY <2>2, AboutKinds
  <2>5. f \in Fill /\ f.side = "buy" /\ fills' = Append(fills, f)
    BY <1>4, PositionTyped, AmountsTyped DEF Fill, Sides, Volumes, FillBuy
  <2> HIDE DEF report, f
  <2>6. Position' # {}
    BY <2>5, PositionGrows
  <2>7. /\ \A volume : LastIn(news', Showing(volume), AboutSell)
                       <=> LastIn(news, Showing(volume), AboutSell)
        /\ NoneIn(news', AboutSell) <=> NoneIn(news, AboutSell)
        /\ NoneIn(news', SellReports) <=> NoneIn(news, SellReports)
        /\ NoneIn(news', Removals) <=> NoneIn(news, Removals)
        /\ Count(news', "closed") = Count(news, "closed") + 0
    BY <2>1, <2>2, <2>3, <2>4, TellShows
  <2>8. Count(news, "closed") \in Nat
    BY <2>1, CountTyped DEF TypeOK
  <2>9. OpenFollows'
    BY <1>1, <2>7 DEF MessagesFollow, OpenFollows
  <2>10. CancelsKnown'
    BY <1>1, <2>6, <2>7, <2>8 DEF MessagesFollow, CancelsKnown, NoRemoval
  <2>11. QED
    BY <1>2, <2>9, <2>10 DEF MessagesFollow
<1>5. QED
  BY <1>3, <1>4 DEF KillBuy, RefuseSell, exchangeVars

(* A sell that comes to rest is told.                                      *)
LEMMA RestTells ==
  ASSUME TypeInv, KnowsSell, MessagesFollow, NEW p \in wire, RestSell(p)
  PROVE  MessagesFollow'
<1> DEFINE report == [kind |-> "open", volume |-> p.volume]
<1>1. /\ wire' = {} /\ p.side = "sell" /\ sellOrder = NoOrder /\ canceling' = canceling
      /\ sellOrder'.volume = p.volume /\ sellOrder'.left = p.volume
      /\ Tell(report, held, p.volume)
  BY DEF MessagesFollow, OneOrder, RestSell
<1>2. TypeOK /\ held \in Nat /\ p.volume \in Nat /\ p.volume <= held
  BY <1>1, AmountsTyped DEF TypeInv, RestSell, Free, NoOrder
<1>3. report \in Reports /\ report.kind = "open" /\ report.volume = p.volume
  BY <1>2 DEF Reports, Volumes
<1> HIDE DEF report
<1>4. report \in Showing(sellOrder'.volume)
  BY <1>1, <1>3, AboutKinds
<1>5. /\ LastIn(news', Showing(sellOrder'.volume), AboutSell)
      /\ Count(news', "closed") = Count(news, "closed") + 0
  BY <1>1, <1>2, <1>3, <1>4, TellShows
<1>6. ~canceling /\ Count(news, "closed") = 0
  BY <1>1 DEF MessagesFollow, OneOrder, CancelsKnown
<1>7. CancelsKnown'
  BY <1>1, <1>2, <1>5, <1>6 DEF CancelsKnown
<1>8. OneOrder' /\ OpenFollows'
  BY <1>1, <1>5 DEF OneOrder, OpenFollows
<1>9. QED
  BY <1>7, <1>8 DEF MessagesFollow

(* A sell that trades in part is told once more.                           *)
LEMMA TradeTells ==
  ASSUME TypeInv, MessagesFollow, TradeSell, \A p \in wire : p.side # "sell"
  PROVE  MessagesFollow'
<1> DEFINE report == [kind |-> "open", volume |-> sellOrder.volume]
<1>1. /\ fills' = fills /\ wire' = wire /\ posted' = posted /\ canceling' = canceling
      /\ sellOrder # NoOrder /\ sellOrder.left = sellOrder.volume
      /\ sellOrder'.volume = sellOrder.volume
      /\ sellOrder'.left = sellOrder.left \div 2
      /\ sellOrder'.born = sellOrder.born
      /\ held' = held - sellOrder.left + sellOrder'.left
      /\ Tell(report, held', sellOrder'.left)
      /\ loop' = loop /\ openSell' = openSell
  BY DEF TradeSell, requestVars, BotUnchanged, storageVars, TypeInv, TypeOK, SellOrder
<1>2. PICK left \in Nat : left = sellOrder'.left /\ left <= sellOrder.left
  <2>1. sellOrder.left \in Nat
    BY AmountsTyped
  <2>2. sellOrder.left \div 2 \in Nat /\ sellOrder.left \div 2 <= sellOrder.left
    BY <2>1
  <2>3. QED
    BY <1>1, <2>2
<1>3. TypeOK /\ held' \in Nat /\ sellOrder'.left \in Nat /\ sellOrder'.left <= held'
  BY <1>1, <1>2, AmountsTyped DEF TypeInv
<1>4. report \in Reports /\ report.kind = "open" /\ report.volume = sellOrder.volume
  BY AmountsTyped DEF Reports, Volumes
<1>5. sellOrder' # NoOrder
  <2>1. PICK k \in 0 .. Len(fills) : sellOrder.born = 2 * k + 1
    BY <1>1 DEF TypeInv, BornInOrder
  <2>2. sellOrder' = NoOrder => sellOrder.born = 0
    BY <1>1 DEF NoOrder
  <2>3. QED
    BY <2>1, <2>2, PositionTyped
<1> HIDE DEF report
<1>6. report \in Showing(sellOrder'.volume) /\ report \notin FillReports /\ report \notin Removals
  BY <1>1, <1>4, AboutKinds
<1>7. /\ LastIn(news', Showing(sellOrder'.volume), AboutSell)
      /\ NoneIn(news', FillReports) <=> NoneIn(news, FillReports)
      /\ NoneIn(news', Removals) <=> NoneIn(news, Removals)
      /\ Count(news', "closed") = Count(news, "closed") + 0
  BY <1>1, <1>3, <1>4, <1>6, TellShows
<1>8. Count(news, "closed") = 0
  BY <1>1 DEF MessagesFollow, CancelsKnown
<1>9. CancelsKnown'
  BY <1>1, <1>2, <1>5, <1>7, <1>8 DEF MessagesFollow, CancelsKnown, NoRemoval
<1>10. OneOrder'
  BY <1>1, <1>7 DEF MessagesFollow, OneOrder
<1>11. QED
  BY <1>7, <1>9, <1>10 DEF MessagesFollow, OpenFollows

(* The end of a sell is told.                                              *)
LEMMA EndTells ==
  ASSUME TypeInv, Orderly, MessagesFollow, FillSell \/ ExecuteCancel,
         \A p \in wire : p.side # "sell",
         sellOrder # NoOrder => Position # {},
         sellOrder # NoOrder /\ ~canceling => wire = {}
  PROVE  MessagesFollow'
<1>1. /\ wire' = wire /\ posted' = posted /\ ~canceling' /\ sellOrder' = NoOrder
      /\ loop' = loop /\ openSell' = openSell /\ sellOrder # NoOrder
  BY DEF FillSell, ExecuteCancel, BotUnchanged, storageVars, MessagesFollow, CancelsKnown
<1>2. NoOrder.volume = 0 /\ NoOrder.left = 0 /\ TypeOK /\ held \in Nat
      /\ held - sellOrder.left \in Nat
  BY AmountsTyped DEF NoOrder, TypeInv
<1>3. Count(news, "closed") = 0
  BY <1>1 DEF MessagesFollow, CancelsKnown
<1>4. CASE FillSell
  <2> DEFINE report == [kind |-> "filled", side |-> "sell"]
  <2>1. report \in Reports /\ report.kind = "filled" /\ report.side = "sell"
    BY DEF Reports, Sides
  <2>2. Tell(report, held - sellOrder.left, 0) /\ wire = {}
    BY <1>1, <1>4 DEF FillSell, Orderly
  <2> HIDE DEF report
  <2>3. report \in Showing(0)
    BY <2>1, AboutKinds
  <2>4. LastIn(news', Showing(0), AboutSell) /\ Count(news', "closed") = 0
    BY <1>2, <1>3, <2>1, <2>2, <2>3, TellShows
  <2>5. OpenFollows' /\ OneOrder' /\ CancelsKnown'
    BY <1>1, <1>2, <2>2, <2>4 DEF OpenFollows, OneOrder, CancelsKnown
  <2>6. QED
    BY <2>5 DEF MessagesFollow
<1>5. CASE ExecuteCancel
  <2> DEFINE report == [kind |-> "closed"]
  <2>1. report \in Reports /\ report.kind = "closed"
    BY DEF Reports
  <2>2. Tell(report, held, 0) /\ fills' = fills /\ canceling
    BY <1>5 DEF ExecuteCancel
  <2>3. Position' # {}
    BY <1>1, <2>2, PositionSame
  <2>4. openSell # 0 /\ NoneIn(news, Removals)
    BY <2>2 DEF MessagesFollow, CancelsKnown, NoRemoval
  <2>5. NoneIn(news, SellReports)
    BY <2>4 DEF NoneIn, SellReports, Removals
  <2> HIDE DEF report
  <2>6. report \in Showing(0) /\ report \notin FillReports /\ report \notin SellReports
    BY <2>1, AboutKinds
  <2>7. /\ LastIn(news', Showing(0), AboutSell)
        /\ NoneIn(news', FillReports) <=> NoneIn(news, FillReports)
        /\ NoneIn(news', SellReports)
        /\ Count(news', "closed") = 1
    BY <1>2, <1>3, <2>1, <2>2, <2>5, <2>6, TellShows
  <2>8. OpenFollows'
    BY <1>1, <1>2, <2>7 DEF OpenFollows
  <2>9. OneOrder'
    BY <1>1, <2>7 DEF MessagesFollow, OneOrder
  <2>10. CancelsKnown'
    BY <1>1, <1>2, <2>3, <2>4, <2>7 DEF CancelsKnown
  <2>11. QED
    BY <2>8, <2>9, <2>10 DEF MessagesFollow
<1>6. QED
  BY <1>4, <1>5

(* Whatever the exchange does, the messages tell it.                       *)
LEMMA ExchangeTells ==
  ASSUME TypeInv, KnowsSell, Orderly, MessagesFollow, Exchange,
         NEW flags, NEW exec \in Nat, NEW start, Follows(flags, exec, start)
  PROVE  MessagesFollow'
<1>1. ~LoseCancel
  BY DEF LoseCancel, Orderly
<1>2. /\ \A p \in wire : p.side = "sell" => sellOrder = NoOrder
      /\ sellOrder # NoOrder => Position # {}
      /\ sellOrder # NoOrder /\ ~canceling => wire = {}
  BY PhaseOrders
<1>3. CASE TradeSell
  <2>1. \A p \in wire : p.side # "sell"
    BY <1>2, <1>3 DEF TradeSell
  <2>2. QED
    BY <1>3, <2>1, TradeTells
<1>4. CASE FillSell \/ ExecuteCancel
  <2>1. \A p \in wire : p.side # "sell"
    BY <1>2, <1>4 DEF FillSell, ExecuteCancel, MessagesFollow, CancelsKnown
  <2>2. QED
    BY <1>2, <1>4, <2>1, EndTells
<1>5. QED
  BY <1>1, <1>3, <1>4, BuyTells, RestTells DEF Exchange, AnswerPost

(* What is taken from the stream, and what is put at the end of the loop.  *)
LEMMA QueuesMove ==
  ASSUME TypeOK
  PROVE  /\ \A e \in Merges \cup Updates : \A good, bad :
              /\ LastIn(Append(loop, e), good, bad)
                 <=> e \in good \/ (LastIn(loop, good, bad) /\ e \notin bad)
              /\ NoneIn(Append(loop, e), bad) <=> NoneIn(loop, bad) /\ e \notin bad
         /\ news # <<>> => \A good, bad :
              /\ LastIn(news, good, bad)
                 <=> LastIn(Tail(news), good, bad) \/ (Head(news) \in good /\ NoneIn(Tail(news), bad))
              /\ NoneIn(news, bad) <=> Head(news) \notin bad /\ NoneIn(Tail(news), bad)
         /\ news # <<>> =>
              /\ Count(Tail(news), "closed") \in Nat
              /\ Count(news, "closed") = Count(Tail(news), "closed")
                                         + (IF Head(news).kind = "closed" THEN 1 ELSE 0)
<1> DEFINE R == Reports \cup Accounts
           L == Merges \cup Updates
<1>1. news \in Seq(R) /\ loop \in Seq(L)
  BY DEF TypeOK
<1> HIDE DEF R, L
<1>2. \A e \in L : \A good, bad :
        /\ LastIn(Append(loop, e), good, bad)
           <=> e \in good \/ (LastIn(loop, good, bad) /\ e \notin bad)
        /\ NoneIn(Append(loop, e), bad) <=> NoneIn(loop, bad) /\ e \notin bad
  BY <1>1, LastAppended
<1>3. news # <<>> => \A good, bad :
        /\ LastIn(news, good, bad)
           <=> LastIn(Tail(news), good, bad) \/ (Head(news) \in good /\ NoneIn(Tail(news), bad))
        /\ NoneIn(news, bad) <=> Head(news) \notin bad /\ NoneIn(Tail(news), bad)
  BY <1>1, FirstTaken
<1>4. news # <<>> =>
        /\ Count(Tail(news), "closed") \in Nat
        /\ Count(news, "closed") = Count(Tail(news), "closed")
                                   + (IF Head(news).kind = "closed" THEN 1 ELSE 0)
  BY <1>1, CountTail, CountTyped, HeadTailProperties
<1>5. QED
  BY <1>2, <1>3, <1>4 DEF L

(* What the bot receives moves what is told from the stream to the loop,   *)
(* or to the open orders.                                                  *)
LEMMA NewsTells ==
  ASSUME TypeInv, Orderly, MessagesFollow, HandleNews
  PROVE  MessagesFollow'
<1> DEFINE R == Reports \cup Accounts
           L == Merges \cup Updates
<1>1. TypeOK
  BY DEF TypeInv
<1>2. PICK m \in R : m = Head(news) /\ Receive(m.kind)
  BY <1>1, ReceiveEffect DEF HandleNews, ReportOpen, ReportFilled, ReportClosed, OutboundAccount
<1>3. /\ news # <<>> /\ news' = Tail(news)
      /\ sellOrder' = sellOrder /\ fills' = fills /\ wire' = wire /\ canceling' = canceling
  BY <1>2 DEF Receive, exchangeVars, requestVars
<1>4. Position' = Position
  BY <1>3, PositionSame
<1>5. /\ m \in Opens <=> m.kind = "open"
      /\ m \in FillReports <=> m.kind = "filled"
      /\ m \in SellReports <=> m.kind = "filled" /\ m.side = "sell"
      /\ m \in Removals <=> m.kind = "closed" \/ (m.kind = "filled" /\ m.side = "sell")
      /\ m \in AboutSell <=> m \in Opens \/ m \in Removals
      /\ \A volume : m \in Showing(volume)
                     <=> \/ m.kind = "open" /\ m.volume = volume
                         \/ m \in Removals /\ volume = 0
  BY AboutKinds
<1>6. /\ \A good, bad :
           /\ LastIn(news, good, bad)
              <=> LastIn(news', good, bad) \/ (m \in good /\ NoneIn(news', bad))
           /\ NoneIn(news, bad) <=> m \notin bad /\ NoneIn(news', bad)
      /\ Count(news', "closed") \in Nat
      /\ m.kind # "closed" => Count(news', "closed") = Count(news, "closed")
      /\ m.kind = "closed" => Count(news, "closed") = Count(news', "closed") + 1
  BY <1>1, <1>2, <1>3, QueuesMove
<1> HIDE DEF R, L
<1>7. CASE ReportOpen
  <2>1. m.kind = "open" /\ loop' = Append(loop, m) /\ openSell' = openSell
        /\ posted' = posted \ {"sell"}
    BY <1>2, <1>7 DEF ReportOpen, Receive, storageVars
  <2>2. m \in L
    BY <1>2, <2>1 DEF R, L, Reports, Accounts, Merges
  <2>3. \A good, bad : LastIn(loop', good, bad)
                       <=> m \in good \/ (LastIn(loop, good, bad) /\ m \notin bad)
    BY <1>1, <2>1, <2>2, QueuesMove DEF L
  <2>4. OpenFollows'
    BY <1>3, <1>5, <1>6, <2>1, <2>3 DEF MessagesFollow, OpenFollows
  <2>5. \A p \in wire : p.side # "sell"
    BY <1>5, <1>6, <2>1 DEF MessagesFollow, OneOrder
  <2>6. OneOrder'
    BY <1>3, <1>6, <2>1, <2>5 DEF MessagesFollow, OneOrder
  <2>7. CancelsKnown'
    BY <1>3, <1>4, <1>6, <2>1 DEF MessagesFollow, CancelsKnown, NoRemoval
  <2>8. QED
    BY <2>4, <2>6, <2>7 DEF MessagesFollow
<1>8. ASSUME NEW e \in L, e.kind \in {"account", "history"},
             m.kind = "account" \/ (m.kind = "filled" /\ m.side # "sell"),
             loop' = Append(loop, e), openSell' = openSell
      PROVE  OpenFollows' /\ CancelsKnown'
  <2>1. e \notin AboutSell /\ (\A volume : e \notin Showing(volume))
    BY <1>8, AboutKinds DEF L
  <2>2. /\ \A volume : LastIn(loop', Showing(volume), AboutSell)
                       <=> LastIn(loop, Showing(volume), AboutSell)
        /\ NoneIn(loop', AboutSell) <=> NoneIn(loop, AboutSell)
    BY <1>1, <1>8, <2>1, QueuesMove DEF L
  <2>3. m \notin AboutSell /\ m \notin Removals /\ (\A volume : m \notin Showing(volume))
        /\ m \notin SellReports
    BY <1>5, <1>8
  <2>4. /\ \A volume : LastIn(news, Showing(volume), AboutSell)
                       <=> LastIn(news', Showing(volume), AboutSell)
        /\ NoneIn(news', AboutSell) <=> NoneIn(news, AboutSell)
        /\ NoneIn(news', Removals) <=> NoneIn(news, Removals)
        /\ NoneIn(news', SellReports) <=> NoneIn(news, SellReports)
        /\ Count(news', "closed") = Count(news, "closed")
    BY <1>6, <1>8, <2>3
  <2>5. OpenFollows'
    BY <1>3, <1>8, <2>2, <2>4 DEF MessagesFollow, OpenFollows
  <2>6. CancelsKnown'
    BY <1>3, <1>4, <1>8, <2>4 DEF MessagesFollow, CancelsKnown, NoRemoval
  <2>7. QED
    BY <2>5, <2>6
<1>9. CASE OutboundAccount
  <2>1. m.kind = "account" /\ loop' = Append(loop, m) /\ openSell' = openSell
        /\ posted' = posted
    BY <1>2, <1>9 DEF OutboundAccount, Receive, storageVars
  <2>2. m \in L /\ m \notin FillReports /\ m \notin Opens
    BY <1>2, <1>5, <2>1 DEF R, L, Reports, Accounts, Merges
  <2>3. OpenFollows' /\ CancelsKnown'
    BY <1>8, <2>1, <2>2
  <2>4. NoneIn(loop, Opens) => NoneIn(loop', Opens)
    BY <1>1, <2>1, <2>2, QueuesMove DEF L
  <2>5. OneOrder'
    BY <1>3, <1>6, <2>1, <2>2, <2>4 DEF MessagesFollow, OneOrder
  <2>6. QED
    BY <2>3, <2>5 DEF MessagesFollow
<1>10. ASSUME m \in Removals, RemoveOrder
       PROVE  NoneIn(loop, AboutSell) /\ openSell' = 0 /\ ~canceling
  <2>1. ~canceling
    BY <1>6, <1>10 DEF MessagesFollow, CancelsKnown, NoRemoval
  <2>2. \A k \in DOMAIN loop : loop[k].kind # "open"
    BY <1>10 DEF RemoveOrder, Orderly
  <2>3. ASSUME NEW k \in DOMAIN loop
        PROVE  loop[k] \notin AboutSell
    <3>1. loop[k] \in L
      BY <1>1, <2>3, ElementOfSeq DEF TypeOK, L
    <3>2. loop[k].kind # "closed" /\ loop[k].kind # "filled"
      BY <3>1 DEF L, Merges, Accounts, Updates
    <3>3. QED
      BY <2>2, <3>1, <3>2, AboutKinds DEF L
  <2>4. QED
    BY <1>10, <2>1, <2>3 DEF NoneIn, RemoveOrder
<1>11. ASSUME m \in Removals, RemoveOrder, NoneIn(loop', AboutSell)
       PROVE  OpenFollows'
  BY <1>3, <1>5, <1>6, <1>10, <1>11 DEF MessagesFollow, OpenFollows
<1>12. CASE ReportFilled
  <2> DEFINE e == [kind |-> "history"]
  <2>1. /\ m.kind = "filled" /\ loop' = Append(loop, e)
        /\ IF m.side = "sell" THEN RemoveOrder ELSE openSell' = openSell
    BY <1>2, <1>12 DEF ReportFilled, Receive
  <2>2. e \in L /\ e.kind = "history"
    BY DEF L, Merges
  <2> HIDE DEF e
  <2>3. wire' = {}
    BY <1>3, <1>5, <1>6, <2>1 DEF MessagesFollow, OneOrder
  <2>4. OneOrder'
    BY <2>3 DEF OneOrder
  <2>5. CASE m.side = "sell"
    <3>1. m \in Removals /\ m \in SellReports /\ RemoveOrder
      BY <1>5, <2>1, <2>5
    <3>2. NoneIn(loop, AboutSell) /\ ~canceling
      BY <1>10, <3>1
    <3>3. e \notin AboutSell
      BY <2>2, AboutKinds DEF L
    <3>4. NoneIn(loop', AboutSell)
      BY <1>1, <2>1, <2>2, <3>2, <3>3, QueuesMove DEF L
    <3>5. OpenFollows'
      BY <1>11, <3>1, <3>4
    <3>6. Count(news', "closed") = 0
      BY <1>6, <2>1, <3>1 DEF MessagesFollow, CancelsKnown
    <3>7. CancelsKnown'
      BY <1>3, <3>2, <3>6 DEF MessagesFollow, CancelsKnown
    <3>8. QED
      BY <2>4, <3>5, <3>7 DEF MessagesFollow
  <2>6. CASE m.side # "sell"
    BY <1>8, <2>1, <2>2, <2>4, <2>6 DEF MessagesFollow
  <2>7. QED
    BY <2>5, <2>6
<1>13. CASE ReportClosed
  <2>1. m.kind = "closed" /\ loop' = loop /\ posted' = posted /\ RemoveOrder
    BY <1>2, <1>13 DEF ReportClosed, Receive
  <2>2. m \in Removals /\ m \notin FillReports /\ m \notin Opens
    BY <1>5, <2>1
  <2>3. NoneIn(loop, AboutSell) /\ openSell' = 0 /\ ~canceling
    BY <1>10, <2>1, <2>2
  <2>4. OpenFollows'
    BY <1>11, <2>1, <2>2, <2>3
  <2>5. OneOrder'
    BY <1>3, <1>6, <2>1, <2>2, <2>3 DEF MessagesFollow, OneOrder
  <2>6. Count(news', "closed") = 0
    BY <1>6, <2>1 DEF MessagesFollow, CancelsKnown
  <2>7. CancelsKnown'
    BY <1>3, <2>3, <2>6 DEF MessagesFollow, CancelsKnown
  <2>8. QED
    BY <2>4, <2>5, <2>7 DEF MessagesFollow
<1>14. QED
  BY <1>7, <1>9, <1>12, <1>13 DEF HandleNews

(* What is merged is known, and was the last that was told of the sell.    *)
LEMMA PostedTells ==
  ASSUME TypeInv, KnowsSell, MessagesFollow, HandlePosted
  PROVE  MessagesFollow'
<1> DEFINE L == Merges \cup Updates
<1>1. TypeOK
  BY DEF TypeInv
<1>2. PICK m \in L : m = Head(loop) /\ Deliver(m.kind)
  BY <1>1, DeliverEffect
     DEF HandlePosted, MergeOpen, MergeHistory, MergeBalance, ForwardUpdate,
         UpdateMarketUserConfig
<1>3. PICK q \in Seq(L) : q = Tail(loop) /\ loop # <<>> /\ loop \in Seq(L)
  BY <1>1, <1>2, DeliverEffect DEF TypeOK
<1>4. /\ news' = news /\ posted' = posted
      /\ sellOrder' = sellOrder /\ fills' = fills /\ wire' = wire /\ canceling' = canceling
  BY <1>2 DEF Deliver, exchangeVars, requestVars
<1>5. Position' = Position
  BY <1>4, PositionSame
<1> HIDE DEF L
<1>6. \A good, bad :
        /\ LastIn(loop, good, bad) <=> LastIn(q, good, bad) \/ (m \in good /\ NoneIn(q, bad))
        /\ NoneIn(loop, bad) <=> m \notin bad /\ NoneIn(q, bad)
  BY <1>2, <1>3, FirstTaken
<1>7. CASE MergeOpen
  <2>1. m.kind = "open" /\ loop' = q /\ openSell' = m.volume
    BY <1>2, <1>3, <1>7 DEF MergeOpen, Deliver
  <2>2. /\ m \in AboutSell /\ m \in Opens
        /\ \A volume : m \in Showing(volume) => m.volume = volume
    BY <2>1, AboutKinds DEF L, Removals
  <2>3. m.volume # 0
    BY <1>6, <2>1, MessageKinds DEF KnowsSell, SellsSomething, NoEmptySell, L
  <2>4. OpenFollows'
    BY <1>4, <1>6, <2>1, <2>2 DEF MessagesFollow, OpenFollows
  <2>5. OneOrder'
    BY <1>4, <1>6, <2>1, <2>2 DEF MessagesFollow, OneOrder
  <2>6. CancelsKnown'
    BY <1>4, <1>5, <2>1, <2>3 DEF MessagesFollow, CancelsKnown
  <2>7. QED
    BY <2>4, <2>5, <2>6 DEF MessagesFollow
<1>8. ASSUME m.kind # "open",
             \A good, bad \in {AboutSell, Opens} : NoneIn(loop', bad) <=> NoneIn(q, bad),
             \A volume : LastIn(loop', Showing(volume), AboutSell)
                         <=> LastIn(q, Showing(volume), AboutSell),
             openSell' = openSell
      PROVE  MessagesFollow'
  <2>1. m.kind # "closed" /\ m.kind # "filled"
    BY DEF L, Merges, Accounts, Updates
  <2>2. m \notin AboutSell /\ m \notin Opens /\ \A volume : m \notin Showing(volume)
    BY <1>8, <2>1, AboutKinds DEF L
  <2>3. /\ NoneIn(loop', AboutSell) <=> NoneIn(loop, AboutSell)
        /\ NoneIn(loop', Opens) <=> NoneIn(loop, Opens)
        /\ \A volume : LastIn(loop', Showing(volume), AboutSell)
                       <=> LastIn(loop, Showing(volume), AboutSell)
    BY <1>6, <1>8, <2>2
  <2>4. OpenFollows'
    BY <1>4, <1>8, <2>3 DEF MessagesFollow, OpenFollows
  <2>5. OneOrder'
    BY <1>4, <1>8, <2>3 DEF MessagesFollow, OneOrder
  <2>6. CancelsKnown'
    BY <1>4, <1>5, <1>8 DEF MessagesFollow, CancelsKnown
  <2>7. QED
    BY <2>4, <2>5, <2>6 DEF MessagesFollow
<1>9. CASE MergeHistory \/ MergeBalance \/ UpdateMarketUserConfig
  <2>1. loop' = q /\ openSell' = openSell /\ m.kind # "open"
    BY <1>2, <1>3, <1>9
       DEF MergeHistory, MergeBalance, UpdateMarketUserConfig, Deliver, storageVars
  <2>2. QED
    BY <1>8, <2>1
<1>10. CASE ForwardUpdate
  <2> DEFINE e == [kind |-> "update", config |-> m.config]
  <2>1. m.kind = "forward" /\ loop' = Append(q, e) /\ openSell' = openSell
    BY <1>2, <1>3, <1>10 DEF ForwardUpdate, Deliver, storageVars
  <2>2. e \in L /\ e.kind = "update"
    BY <2>1 DEF L, Merges, Accounts, Updates
  <2> HIDE DEF e
  <2>3. e \notin AboutSell /\ e \notin Opens /\ \A volume : e \notin Showing(volume)
    BY <2>2, AboutKinds DEF L
  <2>4. /\ NoneIn(loop', AboutSell) <=> NoneIn(q, AboutSell)
        /\ NoneIn(loop', Opens) <=> NoneIn(q, Opens)
        /\ \A volume : LastIn(loop', Showing(volume), AboutSell)
                       <=> LastIn(q, Showing(volume), AboutSell)
    BY <1>3, <2>1, <2>2, <2>3, LastAppended
  <2>5. QED
    BY <1>8, <2>1, <2>4
<1>11. QED
  BY <1>7, <1>9, <1>10 DEF HandlePosted

(* The handlers leave what is bought, sent and offered as it is.           *)
LEMMA HandlerFollows ==
  ASSUME UNCHANGED <<exchangeVars, requestVars>>,
         NEW flags, NEW exec, NEW start, Follows(flags, exec, start)
  PROVE  Follows(flags, exec, start)'
<1>1. UNCHANGED <<exchangeVars, canceling>> /\ wire' = wire
  BY DEF requestVars
<1>2. QED
  BY <1>1, FailureFollows

-----------------------------------------------------------------------------
(* What the bot knows at a tick.                                           *)

(* Everything is heard of but that the sell is closed, and nothing is      *)
(* known wrongly.                                                          *)
Informed ==
  /\ history = Len(fills) /\ Due = {config}
  /\ balance.total = held /\ balance.available = Free
  /\ \A p \in wire : p.side \in posted
  /\ NoneIn(news, FillReports) /\ NoneIn(news, Opens) /\ NoneIn(loop, Opens)
  /\ sellOrder # NoOrder => NoRemoval(news)
  /\ \/ openSell = sellOrder.volume
     \/ openSell # 0 /\ sellOrder = NoOrder /\ Position # {}

(* A timer that fires while nothing it waits for is on its way.            *)
LEMMA TickInformed ==
  ASSUME TypeInv, Orderly, KnowsSell, MessagesFollow, Tick
  PROVE  Informed
<1>1. /\ UpdatesFirst /\ NewsFirst /\ Awaited \cap Races = {}
      /\ news \in Seq(Reports \cup Accounts) /\ loop \in Seq(Merges \cup Updates)
  BY DEF Orderly, UpdatesFirst, NewsFirst, Awaited, TypeInv, TypeOK
<1>2. Due = {config}
  BY <1>1, TickSettled DEF Due
<1>3. balance.total = held /\ balance.available = Free
  BY <1>1, TickKnows DEF Free
<1>4. KindsUnderWay \cap Awaited = {}
  BY <1>1 DEF Tick, Timely, Awaited
<1>5. /\ \A k \in DOMAIN news : news[k].kind \notin Awaited
      /\ \A k \in DOMAIN loop : loop[k].kind \notin Awaited
  BY <1>4 DEF KindsUnderWay
<1>6. Count(news, "filled") = 0 /\ Count(loop, "history") = 0
  <2>1. OfKind(news, "filled") = {} /\ OfKind(loop, "history") = {}
    BY <1>5 DEF OfKind, Awaited
  <2>2. QED
    BY <2>1, FS_EmptySet DEF Count
<1>7. history = Len(fills)
  <2>1. history \in Nat /\ Len(fills) \in Nat
    BY PositionTyped DEF TypeInv, TypeOK
  <2>2. QED
    BY <1>6, <2>1 DEF TypeInv, HistoryCounted
<1>8. NoneIn(loop, AboutSell)
  <2>1. ASSUME NEW k \in DOMAIN loop
        PROVE  loop[k] \notin AboutSell
    <3>1. loop[k] \in Merges \cup Updates
      BY <1>1, <2>1, ElementOfSeq
    <3>2. loop[k].kind # "closed" /\ loop[k].kind # "filled" /\ loop[k].kind # "open"
      BY <1>5, <3>1 DEF Merges, Accounts, Updates, Awaited
    <3>3. QED
      BY <3>1, <3>2, AboutKinds
  <2>2. QED
    BY <2>1 DEF NoneIn
<1> DEFINE Unheard == NoneIn(news, FillReports) /\ NoneIn(news, Opens) /\ NoneIn(loop, Opens)
<1>9. Unheard
  <2>1. ASSUME NEW k \in DOMAIN news
        PROVE  news[k] \notin FillReports /\ news[k] \notin Opens
    <3>1. news[k] \in Reports \cup Accounts
      BY <1>1, <2>1, ElementOfSeq
    <3>2. QED
      BY <1>5, <3>1, AboutKinds DEF Awaited
  <2>2. QED
    BY <1>8, <2>1 DEF NoneIn, AboutSell
<1> HIDE DEF Unheard
<1>10. CASE Count(news, "closed") # 0
  BY <1>2, <1>3, <1>7, <1>10, <1>9 DEF Informed, MessagesFollow, OneOrder, CancelsKnown, Unheard
<1>11. CASE Count(news, "closed") = 0
  <2>1. OfKind(news, "closed") = {}
    <3>1. IsFiniteSet(OfKind(news, "closed"))
      BY <1>1, CountTyped
    <3>2. QED
      BY <1>11, <3>1, FS_EmptySet DEF Count
  <2>2. ASSUME NEW k \in DOMAIN news
        PROVE  news[k] \notin AboutSell
    <3>1. news[k] \in Reports \cup Accounts
      BY <1>1, <2>2, ElementOfSeq
    <3>2. news[k].kind # "closed" /\ news[k].kind # "filled" /\ news[k].kind # "open"
      BY <1>5, <2>1 DEF OfKind, Awaited
    <3>3. QED
      BY <3>1, <3>2, AboutKinds
  <2>3. NoneIn(news, AboutSell)
    BY <2>2 DEF NoneIn
  <2>4. ~LastIn(news, Showing(sellOrder.volume), AboutSell)
        /\ ~LastIn(loop, Showing(sellOrder.volume), AboutSell)
    <3>1. Showing(sellOrder.volume) \subseteq AboutSell
      BY AmountsTyped DEF Showing, AboutSell, Opens, Volumes
    <3>2. QED
      BY <1>8, <2>3, <3>1 DEF LastIn, NoneIn
  <2>5. NoRemoval(news)
    BY <2>3 DEF NoRemoval, NoneIn, AboutSell
  <2>6. QED
    BY <1>2, <1>3, <1>7, <1>9, <2>3, <2>4, <2>5
       DEF Informed, MessagesFollow, OneOrder, OpenFollows, Unheard
<1>12. QED
  BY <1>10, <1>11

(* One step more is closed.                                                *)
LEMMA OneMore ==
  ASSUME NEW s \in Nat
  PROVE  (0 .. s - 1) \cup {s} = 0 .. s
OBVIOUS

(* Only the step that the bot works with gets a turn.                      *)
LEMMA TurnPhase ==
  ASSUME TypeInv, Current.now = config.flags,
         Follows(config.flags, config.exec, config.start),
         NEW s \in Steps, BuyTurn(s) \/ SellTurn(s)
  PROVE  /\ WorksWith(s, config.flags)
         /\ BuyTurn(s) =>
              /\ s \notin config.flags.buy /\ config.exec <= MaxSteps
              /\ \/ /\ s = 0 /\ config.exec = 0 /\ config.start = 0
                    /\ config.flags = NoFlags /\ Beginning
                 \/ s # 0 /\ Waits(s, config.flags, config.exec)
         /\ SellTurn(s) => Offers(s, config.flags, config.exec)
         /\ config.exec > 0 /\ Position # {} => StartsAt(config.start)
<1>1. PICK w \in Steps : /\ WorksWith(w, config.flags)
                         /\ InPhase(w, config.flags, config.exec)
  BY DEF Follows
<1>2. s = w
  BY <1>1, WorkingIs DEF BuyTurn, SellTurn
<1>3. config.flags = NoFlags => s = 0
  BY <1>1, <1>2 DEF WorksWith, NoFlags, Steps
<1>4. config.exec \in Nat /\ MaxSteps \in Nat
  BY BoundsAssumption DEF TypeInv, TypeOK, UserConfig
<1>5. BuyTurn(s) => s \notin config.flags.buy /\ config.exec <= MaxSteps
  BY DEF BuyTurn, MayBuy
<1>6. SellTurn(s) => s \in config.flags.buy \/ config.exec > MaxSteps
  BY <1>4 DEF SellTurn, MayBuy
<1>7. BuyTurn(s) =>
        \/ s = 0 /\ config.exec = 0 /\ config.flags = NoFlags /\ Beginning
        \/ s # 0 /\ Waits(s, config.flags, config.exec)
  BY <1>1, <1>2, <1>3, <1>4, <1>5 DEF InPhase, Waits, Offers
<1>8. SellTurn(s) => Offers(s, config.flags, config.exec)
  BY <1>1, <1>2, <1>4, <1>6 DEF InPhase, Waits, NoFlags
<1>9. QED
  BY <1>1, <1>2, <1>5, <1>7, <1>8 DEF Follows

(* The first purchase closes step 0.                                       *)
LEMMA CloseZeroFollows ==
  ASSUME TypeInv, Informed, Current.now = config.flags,
         Follows(config.flags, config.exec, config.start), CloseZero
  PROVE  /\ Follows(BlockBuy(0), config.exec + 1, StartAt(Newest))
         /\ WorksWith(0, config.flags) /\ WorksWith(0, BlockBuy(0))
<1>1. /\ 0 \in Steps /\ WorksWith(0, config.flags)
      /\ config.exec = 0 /\ config.start = 0 /\ config.flags = NoFlags /\ Beginning
  BY TurnPhase, TableAssumption DEF CloseZero, Steps
<1>2. held \in Nat /\ held # 0
  BY AmountsTyped DEF CloseZero, Enough, Informed, TradeSum
<1>3. /\ Position # {} /\ PositionSize = 1 /\ held = 2 /\ Latest = 0 /\ wire = {}
      /\ sellOrder = NoOrder
  BY <1>1, <1>2, PositionTyped DEF Beginning, TradeSum
<1>4. Newest = Len(fills) /\ StartAt(Newest) = Newest /\ Newest \in Position
  BY <1>1, <1>3, NewestIs, PositionTyped DEF Informed, StartAt
<1>5. StartsAt(Newest)
  <2>1. \E x : Position = {x}
    BY <1>3, PositionTyped, FS_Singleton DEF PositionSize
  <2>2. Position = {Newest} /\ Newest \in Nat
    BY <1>4, <2>1, PositionTyped
  <2>3. QED
    BY <2>2 DEF StartsAt
<1>6. BlockBuy(0) = [buy |-> {0}, sell |-> {}]
  BY <1>1 DEF BlockBuy, NoFlags
<1>7. WorksWith(0, BlockBuy(0))
  BY <1>6 DEF WorksWith
<1>8. Offers(0, BlockBuy(0), 1)
  BY <1>3, <1>6 DEF Offers, ToSell
<1>9. QED
  BY <1>1, <1>4, <1>5, <1>7, <1>8 DEF Follows, InPhase

(* A step that the price fell through is passed over.                      *)
LEMMA SkipStepFollows ==
  ASSUME TypeInv, Current.now = config.flags,
         Follows(config.flags, config.exec, config.start), NEW s \in Steps, SkipStep(s)
  PROVE  /\ Follows(BlockBoth(s), config.exec, config.start)
         /\ WorksWith(s, config.flags) /\ WorksWith(s + 1, BlockBoth(s))
         /\ s < Last /\ PositionSize > 0
<1>1. /\ WorksWith(s, config.flags) /\ s \notin config.flags.buy
      /\ s # 0 /\ Waits(s, config.flags, config.exec)
      /\ config.exec > 0 /\ Position # {} => StartsAt(config.start)
  BY TurnPhase DEF SkipStep
<1>2. s < Last /\ s \in Nat /\ Last \in Nat /\ s + 1 \in Steps
  BY TableAssumption DEF SkipStep, Fallen, Steps
<1>3. config.flags.buy = 0 .. s - 1 /\ config.flags.sell = 0 .. s - 1
  BY <1>1, <1>2 DEF WorksWith
<1>4. BlockBoth(s) = [buy |-> 0 .. s, sell |-> 0 .. s]
  BY <1>2, <1>3, OneMore DEF BlockBoth
<1>5. WorksWith(s + 1, BlockBoth(s))
  BY <1>2, <1>4 DEF WorksWith
<1>6. config.exec \in Nat /\ PositionSize \in Nat /\ Latest \in Nat
  BY PositionTyped DEF TypeInv, TypeOK, UserConfig, Steps
<1>7. PositionSize > 0
  BY <1>1, <1>6 DEF Waits, Purchased, ToBuy
<1>8. Waits(s + 1, BlockBoth(s), config.exec)
  <2>1. \A p \in wire : p.step \in Nat
    BY DEF TypeInv, TypeOK, Post, Steps
  <2>2. Purchased(s, config.exec) => Purchased(s + 1, config.exec)
    BY <1>2, <1>6 DEF Purchased
  <2>3. ToBuy(s, config.exec) => ToBuy(s + 1, config.exec)
    BY <1>2, <1>6, <2>1 DEF ToBuy
  <2>4. QED
    BY <1>1, <1>2, <1>4, <2>2, <2>3 DEF Waits
<1>9. QED
  BY <1>1, <1>2, <1>5, <1>7, <1>8, PositionTyped DEF Follows, InPhase, Waits

(* A purchase that is counted closes its step.                             *)
LEMMA CloseBuyFollows ==
  ASSUME TypeInv, Informed, Current.now = config.flags,
         Follows(config.flags, config.exec, config.start), NEW s \in Steps, CloseBuy(s)
  PROVE  /\ Follows(BlockBuy(s), config.exec + 1, config.start)
         /\ WorksWith(s, config.flags) /\ WorksWith(s, BlockBuy(s))
<1>1. /\ WorksWith(s, config.flags) /\ s \notin config.flags.buy
      /\ Waits(s, config.flags, config.exec)
      /\ config.exec > 0 /\ Position # {} => StartsAt(config.start)
      /\ Cardinality(Averaged) > config.exec
  BY TurnPhase DEF CloseBuy, CloseBuyIf
<1>2. /\ config.exec \in Nat /\ PositionSize \in Nat /\ Latest \in Nat /\ s \in Nat
      /\ config.exec > 0 /\ (Position = {} <=> PositionSize = 0) /\ held \in Nat
  BY <1>1, PositionTyped, AmountsTyped DEF TypeInv, TypeOK, UserConfig, Steps, Waits
<1>3. Position # {}
  BY <1>1, <1>2 DEF Waits, Purchased, ToBuy
<1>4. StartsAt(config.start) /\ Averaged = Position
  BY <1>1, <1>2, <1>3, AveragedIs DEF Informed
<1>5. Purchased(s, config.exec)
  BY <1>1, <1>2, <1>4 DEF Waits, ToBuy, PositionSize
<1>6. config.flags.buy = 0 .. s - 1 /\ config.flags.sell = 0 .. s - 1 /\ config.flags \in Flags
  BY <1>1, <1>2 DEF WorksWith, TypeInv, TypeOK, UserConfig
<1>7. BlockBuy(s) = [buy |-> 0 .. s, sell |-> 0 .. s - 1]
  <2>1. config.flags = [buy |-> 0 .. s - 1, sell |-> 0 .. s - 1]
    BY <1>6 DEF Flags
  <2>2. ASSUME NEW buy, NEW sell, config.flags = [buy |-> buy, sell |-> sell]
        PROVE  BlockBuy(s) = [buy |-> buy \cup {s}, sell |-> sell]
    BY <2>2 DEF BlockBuy
  <2>3. BlockBuy(s) = [buy |-> (0 .. s - 1) \cup {s}, sell |-> 0 .. s - 1]
    BY <2>1, <2>2
  <2>4. QED
    BY <1>2, <2>3, OneMore
<1>8. WorksWith(s, BlockBuy(s))
  BY <1>7 DEF WorksWith
<1>9. Offers(s, BlockBuy(s), config.exec + 1)
  BY <1>2, <1>5, <1>7 DEF Offers, ToSell, Purchased
<1>10. QED
  BY <1>1, <1>2, <1>4, <1>8, <1>9 DEF Follows, InPhase

(* The cycle begins anew with nothing bought, sent or offered.             *)
LEMMA UnlockFollows ==
  ASSUME TypeInv, Informed, SellsSomething, Current.now = config.flags,
         Follows(config.flags, config.exec, config.start), NEW s \in Steps, Unlock(s)
  PROVE  /\ Follows(NoFlags, 0, 0) /\ WorksWith(0, NoFlags) /\ PositionSize = 0
<1>1. Offers(s, config.flags, config.exec)
  BY TurnPhase DEF Unlock
<1>2. sellOrder = NoOrder
  BY DEF Unlock, Informed, SellsSomething
<1>3. held \in Nat /\ held = 0
  BY <1>2, AmountsTyped DEF Unlock, Informed, NothingLeft, Free, NoOrder
<1>4. NoPosition
  BY <1>1, <1>2, <1>3 DEF Offers, ToSell
<1>5. Beginning /\ PositionSize = 0
  BY <1>4, PositionTyped DEF NoPosition, Beginning
<1>6. 0 \in Steps /\ WorksWith(0, NoFlags)
  BY TableAssumption DEF Steps, WorksWith, NoFlags
<1>7. QED
  BY <1>5, <1>6 DEF Follows, InPhase

(* What is sent when nothing is on its way.                                *)
LEMMA Sent ==
  ASSUME NEW side, NEW volume, NEW s, NEW over, SubmitOrder(side, volume, s, over),
         \A p \in wire : p.side \in posted, \A p \in wire : p.side = side
  PROVE  /\ wire = {}
         /\ wire' = {[side |-> side, volume |-> volume, step |-> s, over |-> over]}
         /\ UNCHANGED <<fills, held, sellOrder, canceling>>
         /\ Position' = Position /\ PositionSize' = PositionSize /\ Latest' = Latest
<1>1. fills' = fills
  BY DEF SubmitOrder, exchangeVars
<1>2. QED
  BY <1>1, PositionSame DEF SubmitOrder, exchangeVars

(* The first purchase is sent.                                             *)
LEMMA BuyZeroFollows ==
  ASSUME TypeInv, Informed, Current.now = config.flags,
         Follows(config.flags, config.exec, config.start), BuyZero,
         NEW flags, flags = config.flags, NEW exec, exec = config.exec,
         NEW start, start = config.start
  PROVE  Follows(flags, exec, start)' /\ wire = {}
<1>1. /\ 0 \in Steps /\ WorksWith(0, flags)
      /\ exec = 0 /\ start = 0 /\ flags = NoFlags /\ Beginning
  <2>1. 0 \in Steps /\ BuyTurn(0)
    BY TableAssumption DEF BuyZero, Steps
  <2>2. /\ WorksWith(0, config.flags) /\ config.exec = 0 /\ config.start = 0
        /\ config.flags = NoFlags /\ Beginning
    BY <2>1, TurnPhase
  <2>3. QED
    BY <2>1, <2>2
<1>2. held \in Nat /\ held < 2
  BY AmountsTyped DEF BuyZero, Enough, Informed, TradeSum
<1>3. Position = {} /\ held = 0 /\ sellOrder = NoOrder /\ \A p \in wire : p.side = "buy"
  BY <1>1, <1>2 DEF Beginning, TradeSum
<1>4. /\ wire = {}
      /\ wire' = {[side |-> "buy", volume |-> TradeSum, step |-> 0, over |-> {}]}
      /\ UNCHANGED <<fills, held, sellOrder, canceling>>
      /\ Position' = Position
  BY <1>3, Sent DEF BuyZero, Informed
<1>5. Beginning'
  BY <1>3, <1>4 DEF Beginning
<1>6. InPhase(0, flags, exec)'
  BY <1>1, <1>5 DEF InPhase
<1>7. QED
  BY <1>1, <1>4, <1>6 DEF Follows

(* A purchase is sent for the step that the bot works with.                *)
LEMMA BuyFollows ==
  ASSUME TypeInv, Informed, Current.now = config.flags,
         Follows(config.flags, config.exec, config.start), NEW s \in Steps, Buy(s),
         NEW flags, flags = config.flags, NEW exec, exec = config.exec,
         NEW start, start = config.start
  PROVE  Follows(flags, exec, start)' /\ wire = {}
<1>1. /\ WorksWith(s, flags) /\ Waits(s, flags, exec)
      /\ exec > 0 /\ Position # {} => StartsAt(start)
      /\ Cardinality(Averaged) <= exec
  BY TurnPhase DEF Buy
<1>2. /\ exec \in Nat /\ PositionSize \in Nat /\ Latest \in Nat /\ s \in Nat
      /\ exec > 0 /\ (Position = {} <=> PositionSize = 0) /\ held \in Nat
  BY <1>1, PositionTyped, AmountsTyped DEF TypeInv, TypeOK, UserConfig, Steps, Waits
<1>3. Position # {}
  BY <1>1, <1>2 DEF Waits, Purchased, ToBuy
<1>4. StartsAt(start) /\ Averaged = Position
  BY <1>1, <1>2, <1>3, AveragedIs DEF Informed
<1>5. ToBuy(s, exec)
  BY <1>1, <1>2, <1>4 DEF Waits, Purchased, PositionSize
<1>6. /\ wire = {}
      /\ wire' = {[side |-> "buy", volume |-> held, step |-> s, over |-> {}]}
      /\ UNCHANGED <<fills, held, sellOrder, canceling>>
      /\ Position' = Position /\ PositionSize' = PositionSize /\ Latest' = Latest
  BY <1>5, Sent DEF Buy, Informed, ToBuy
<1>7. ToBuy(s, exec)'
  BY <1>2, <1>5, <1>6 DEF ToBuy, OldSell
<1>8. Waits(s, flags, exec)'
  BY <1>1, <1>7 DEF Waits
<1>9. StartsAt(start)'
  BY <1>4, <1>6 DEF StartsAt
<1>10. QED
  BY <1>1, <1>2, <1>6, <1>8, <1>9 DEF Follows, InPhase

(* All that is held is offered, at a price for what is bought.             *)
LEMMA SellFollowsPhase ==
  ASSUME TypeInv, Informed, SellsSomething, Current.now = config.flags,
         Follows(config.flags, config.exec, config.start), NEW s \in Steps, Sell(s),
         NEW flags, flags = config.flags, NEW exec, exec = config.exec,
         NEW start, start = config.start
  PROVE  Follows(flags, exec, start)' /\ wire = {}
<1>1. /\ WorksWith(s, flags) /\ Offers(s, flags, exec)
      /\ exec > 0 /\ Position # {} => StartsAt(start)
  BY TurnPhase DEF Sell
<1>2. /\ exec \in Nat /\ PositionSize \in Nat /\ held \in Nat
      /\ exec > 0 /\ (Position = {} <=> PositionSize = 0)
  BY <1>1, PositionTyped, AmountsTyped DEF TypeInv, TypeOK, UserConfig, Offers
<1>3. sellOrder = NoOrder
  BY DEF Sell, Informed, SellsSomething
<1>4. balance.available = held /\ held # 0
  BY <1>2, <1>3 DEF Sell, NothingLeft, Informed, Free, NoOrder
<1>5. ToSell(s, exec, s \in flags.buy)
  BY <1>1, <1>4 DEF Offers, NoPosition
<1>6. Position # {}
  BY <1>2, <1>5 DEF ToSell
<1>7. StartsAt(start) /\ Averaged = Position
  BY <1>1, <1>2, <1>6, AveragedIs DEF Informed
<1>8. /\ wire = {}
      /\ wire' = {[side |-> "sell", volume |-> held, step |-> s, over |-> Position]}
      /\ UNCHANGED <<fills, held, sellOrder, canceling>>
      /\ Position' = Position /\ PositionSize' = PositionSize /\ Latest' = Latest
  BY <1>4, <1>5, <1>7, Sent DEF Sell, Informed, ToSell
<1>9. ToSell(s, exec, s \in flags.buy)'
  BY <1>3, <1>5, <1>8 DEF ToSell
<1>10. Offers(s, flags, exec)'
  BY <1>1, <1>9 DEF Offers
<1>11. StartsAt(start)'
  BY <1>7, <1>8 DEF StartsAt
<1>12. QED
  BY <1>1, <1>2, <1>8, <1>10, <1>11 DEF Follows, InPhase

(* A sell that offers too little is being canceled already.                *)
LEMMA CancelSmallFollows ==
  ASSUME TypeInv, Informed, CancelsKnown, Current.now = config.flags,
         Follows(config.flags, config.exec, config.start), NEW s \in Steps, CancelSmall(s)
  PROVE  UNCHANGED <<exchangeVars, requestVars, posted, news>>
<1>1. Offers(s, config.flags, config.exec)
  BY TurnPhase DEF CancelSmall
<1>2. openSell < held /\ openSell # 0
  BY DEF CancelSmall, Informed
<1>3. canceling' = (sellOrder # NoOrder) /\ UNCHANGED <<exchangeVars, wire, posted, news>>
  BY DEF CancelSmall, CancelOrder
<1>4. canceling = (sellOrder # NoOrder)
  <2>1. sellOrder = NoOrder => ~canceling
    BY DEF CancelsKnown
  <2>2. ASSUME sellOrder # NoOrder
        PROVE  canceling
    <3>1. sellOrder.volume < held /\ sellOrder.left <= sellOrder.volume
      BY <1>2, <2>2 DEF Informed, CancelsKnown
    <3>2. ~OwnSell
      BY <3>1, AmountsTyped DEF OwnSell
    <3>3. OldSell
      BY <1>1, <2>2, <3>2 DEF Offers, ToSell, NoPosition
    <3>4. QED
      BY <3>3 DEF OldSell
  <2>3. canceling \in BOOLEAN
    BY DEF TypeInv, TypeOK
  <2>4. QED
    BY <2>1, <2>2, <2>3
<1>5. QED
  BY <1>3, <1>4 DEF requestVars

(* The price fell: the sell is canceled and the bot goes on.               *)
LEMMA CancelFallenFollows ==
  ASSUME TypeInv, Informed, MessagesFollow, Current.now = config.flags,
         Follows(config.flags, config.exec, config.start), NEW s \in Steps, CancelFallen(s),
         NEW flags, flags = BlockSell(s), NEW exec, exec = config.exec,
         NEW start, start = config.start
  PROVE  /\ Follows(flags, exec, start)'
         /\ WorksWith(s, config.flags) /\ WorksWith(s + 1, flags)
         /\ s < Last /\ PositionSize > 0
<1>1. /\ WorksWith(s, config.flags) /\ Offers(s, config.flags, exec)
      /\ exec > 0 /\ Position # {} => StartsAt(start)
      /\ openSell # 0 /\ openSell >= held /\ FallenBehind(s)
  BY TurnPhase DEF CancelFallen, Informed
<1>2. /\ exec \in Nat /\ PositionSize \in Nat /\ Latest \in Nat /\ held \in Nat /\ exec > 0
      /\ (Position = {} <=> PositionSize = 0) /\ openSell \in Nat
      /\ s \in Nat /\ Last \in Nat /\ MaxSteps \in Nat
      /\ sellOrder.left \in Nat /\ sellOrder.volume \in Nat
  BY <1>1, PositionTyped, AmountsTyped, TableAssumption, BoundsAssumption
     DEF TypeInv, TypeOK, UserConfig, Steps, Offers, Volumes
<1>3. s < Last /\ s + 1 \in Steps
  BY <1>1, <1>2, TableAssumption DEF FallenBehind, Steps
<1>4. s \in config.flags.buy
  BY <1>1, <1>2 DEF FallenBehind, Offers
<1>5. config.flags.buy = 0 .. s /\ config.flags.sell = 0 .. s - 1 /\ config.flags \in Flags
  BY <1>1, <1>2, <1>4 DEF WorksWith, TypeInv, TypeOK, UserConfig
<1>6. flags = [buy |-> 0 .. s, sell |-> 0 .. s]
  <2>1. config.flags = [buy |-> 0 .. s, sell |-> 0 .. s - 1]
    BY <1>5 DEF Flags
  <2>2. ASSUME NEW buy, NEW sell, config.flags = [buy |-> buy, sell |-> sell]
        PROVE  flags = [buy |-> buy, sell |-> sell \cup {s}]
    BY <2>2 DEF BlockSell
  <2>3. flags = [buy |-> 0 .. s, sell |-> (0 .. s - 1) \cup {s}]
    BY <2>1, <2>2
  <2>4. QED
    BY <1>2, <2>3, OneMore
<1>7. WorksWith(s + 1, flags) /\ 0 \in flags.buy /\ s + 1 \notin flags.buy
  BY <1>2, <1>3, <1>6 DEF WorksWith
<1>8. /\ canceling' = (sellOrder # NoOrder)
      /\ UNCHANGED <<fills, held, sellOrder, wire>>
      /\ Position' = Position /\ PositionSize' = PositionSize /\ Latest' = Latest
  BY PositionSame DEF CancelFallen, CancelOrder, exchangeVars
<1>9. sellOrder = NoOrder => Position # {}
  BY <1>1, <1>2 DEF Informed, NoOrder
<1>10. ToSell(s, exec, TRUE)
  BY <1>1, <1>4, <1>9 DEF Offers, NoPosition
<1>11. PositionSize > 0 /\ Position # {} /\ StartsAt(start) /\ wire = {}
  BY <1>1, <1>2, <1>10 DEF ToSell, MessagesFollow, OneOrder
<1>12. sellOrder # NoOrder => OldSell' /\ held >= 1
  <2>1. CASE OwnSell
    BY <1>2, <1>8, <1>10, <2>1 DEF OwnSell, OldSell, ToSell
  <2>2. ASSUME OldSell, sellOrder # NoOrder
        PROVE  OldSell' /\ held >= 1
    <3>1. sellOrder.left < held
      BY <1>10, <2>2 DEF ToSell, OwnSell, OldSell
    <3>2. held >= 1
      BY <1>2, <3>1
    <3>3. OldSell'
      BY <1>8, <2>2 DEF OldSell
    <3>4. QED
      BY <3>2, <3>3
  <2>3. QED
    BY <1>10, <2>1, <2>2 DEF ToSell
<1>13. sellOrder = NoOrder => held >= 1
  BY <1>2, <1>10 DEF ToSell
<1>14. ToBuy(s + 1, exec)'
  BY <1>2, <1>8, <1>10, <1>11, <1>12, <1>13 DEF ToBuy, ToSell
<1>15. ToSell(s + 1, exec, s + 1 \in flags.buy)'
  BY <1>2, <1>7, <1>8, <1>10, <1>11, <1>12, <1>13 DEF ToSell
<1>16. Waits(s + 1, flags, exec)' \/ Offers(s + 1, flags, exec)'
  BY <1>2, <1>7, <1>14, <1>15 DEF Waits, Offers
<1>17. StartsAt(start)'
  BY <1>8, <1>11 DEF StartsAt
<1>18. QED
  BY <1>1, <1>2, <1>3, <1>7, <1>11, <1>16, <1>17 DEF Follows, InPhase

-----------------------------------------------------------------------------
(* The copies of the configuration.                                        *)

(* What a step that closes leaves due.                                     *)
ClosesTo(flags, exec, start) ==
  /\ \E c \in UserConfig :
       /\ c.flags = flags /\ c.exec = exec /\ c.start = start
       /\ Posts(c) /\ (row' = {c} \/ (row' = {} /\ exec = 0))
  /\ session' = [Current EXCEPT !.now = flags]
  /\ \E e \in Updates : loop' = Append(loop, e)
  /\ traded' = traded /\ traded

(* updateMarketMetaConfig posts the flags that are in memory.              *)
LEMMA MetaConfigCloses ==
  ASSUME TypeInv, Orderly, DistinctPercents, Current.now = config.flags, Tick,
         NEW s \in Steps, NEW flags \in {BlockBuy(s), BlockSell(s), BlockBoth(s)},
         NEW exec \in Nat, NEW start \in Nat, UpdateMarketMetaConfig(s, flags, exec, start)
  PROVE  ClosesTo(flags, exec, start)
<1> DEFINE c == ConfigWith(s, flags, exec, start)
<1>1. TypeOK /\ UpdatesFirst
  BY DEF TypeInv, Orderly, UpdatesFirst
<1>2. flags \in Flags
  BY <1>1, BlocksTyped
<1>3. c \in UserConfig
  BY <1>1, <1>2, ConfigWithTyped
<1>4. c.flags = flags /\ c.exec = exec
  BY BlockedFlags
<1>5. c.start = start
  BY DEF ConfigWith, TypeInv, TypeOK, UserConfig
<1>6. Update(flags, c, {c})
  BY DEF UpdateMarketMetaConfig
<1> HIDE DEF c
<1>7. Posts(c) /\ row' = {c} /\ session' = [Current EXCEPT !.now = flags]
  BY <1>1, <1>3, <1>6, UpdatePosts
<1>8. traded' = traded /\ traded /\ \E e \in Updates : loop' = Append(loop, e)
  BY <1>3, <1>6 DEF Update, Tick, Updates
<1>9. QED
  BY <1>3, <1>4, <1>5, <1>7, <1>8 DEF ClosesTo

(* unlockAllSteps posts no flags and no purchases.                         *)
LEMMA UnlockCloses ==
  ASSUME TypeInv, Orderly, Tick, UnlockAllSteps
  PROVE  ClosesTo(NoFlags, 0, 0)
<1> DEFINE c == [config EXCEPT !.flags = NoFlags, !.exec = 0, !.start = 0]
<1>1. UpdatesFirst
  BY DEF Orderly, UpdatesFirst
<1>2. /\ c \in UserConfig /\ c.flags = NoFlags /\ c.exec = 0 /\ c.start = 0
  BY NoFlagsTyped DEF TypeInv, TypeOK, UserConfig
<1>3. Update(NoFlags, c, {})
  BY DEF UnlockAllSteps, UnlockWith
<1> HIDE DEF c
<1>4. Posts(c) /\ row' = {} /\ session' = [Current EXCEPT !.now = NoFlags]
  BY <1>1, <1>2, <1>3, UpdatePosts
<1>5. traded' = traded /\ traded /\ \E e \in Updates : loop' = Append(loop, e)
  BY <1>2, <1>3 DEF Update, Tick, Updates
<1>6. QED
  BY <1>2, <1>4, <1>5 DEF ClosesTo

(* All copies are what the step leaves.                                    *)
LEMMA ClosedCopies ==
  ASSUME TypeInv, NEW flags, NEW exec, NEW start, ClosesTo(flags, exec, start),
         Follows(flags, exec, start)'
  PROVE  PhaseFollows' /\ CopiesFollow' /\ Current'.now = flags
<1>1. PICK c \in UserConfig :
        /\ c.flags = flags /\ c.exec = exec /\ c.start = start
        /\ Posts(c) /\ (row' = {c} \/ (row' = {} /\ exec = 0))
  BY DEF ClosesTo
<1>2. Due' = {c}
  BY <1>1 DEF Posts, Due
<1>3. Current \in StepGenerator /\ Current.table = config.flags
  BY CurrentTyped DEF Current, SessionOf, TypeInv
<1>4. session'.table = config.flags /\ session'.now = flags
  BY <1>3 DEF ClosesTo, StepGenerator
<1>5. Current' = session'
  BY <1>1, <1>4 DEF Current, Posts
<1>6. CopiesFollow'
  BY <1>1, <1>2, <1>4, <1>5 DEF CopiesFollow, ClosesTo
<1>7. PhaseFollows'
  BY <1>1, <1>2 DEF PhaseFollows
<1>8. QED
  BY <1>4, <1>5, <1>6, <1>7

(* What is due stays as it is, but perhaps for the rate.                   *)
SameDue ==
  \E c \in Due : \E d \in UserConfig :
    /\ Due' = {d} /\ Current'.now = Current.now
    /\ d.flags = c.flags /\ d.exec = c.exec /\ d.start = c.start

(* Every configuration is typed.                                           *)
LEMMA DueTyped ==
  ASSUME TypeInv
  PROVE  Due \subseteq UserConfig /\ Due # {}
<1>1. config \in UserConfig /\ loop \in Seq(Merges \cup Updates)
  BY DEF TypeInv, TypeOK
<1>2. UnderWay(loop) \subseteq UserConfig
  <2>1. ASSUME NEW k \in DOMAIN loop, loop[k].kind \in {"update", "forward"}
        PROVE  loop[k].config \in UserConfig
    <3>1. loop[k] \in Merges \cup Updates
      BY <1>1, <2>1, ElementOfSeq
    <3>2. QED
      BY <2>1, <3>1 DEF Merges, Accounts, Updates
  <2>2. QED
    BY <2>1 DEF UnderWay
<1>3. QED
  BY <1>1, <1>2 DEF Due

(* Whatever does not close leaves what is due.                             *)
LEMMA OtherDue ==
  ASSUME TypeInv, RowFollows, TableFollows, PhaseFollows, CopiesFollow, row' = row,
         Stays \/ PostsRate \/ Delivers \/ Starts
  PROVE  SameDue
<1>1. PICK c \in Due : Due = {c}
  BY DueTyped DEF CopiesFollow
<1>2. c \in UserConfig /\ Current.now = c.flags /\ (row = {} => c.exec = 0)
  BY <1>1, DueTyped DEF CopiesFollow
<1>3. /\ config \in UserConfig /\ Current \in StepGenerator /\ Current.table = config.flags
      /\ session \in StepGenerator
  BY CurrentTyped DEF TypeInv, TypeOK, Current, SessionOf
<1>4. CASE Stays
  <2>1. Due' = {c}
    BY <1>1, <1>4 DEF Stays, Due
  <2>2. Current' = Current
    BY <1>3, <1>4 DEF Stays, Current
  <2>3. QED
    BY <1>1, <1>2, <2>1, <2>2 DEF SameDue
<1>5. CASE PostsRate
  <2>1. PICK r \in Int : Posts([config EXCEPT !.rate = r])
    BY <1>5 DEF PostsRate
  <2> DEFINE d == [config EXCEPT !.rate = r]
  <2>2. /\ d \in UserConfig /\ d.flags = config.flags /\ d.exec = config.exec
        /\ d.start = config.start
    BY <1>3 DEF UserConfig
  <2> HIDE DEF d
  <2>3. c = config /\ Due' = {d} /\ config' = config
    BY <1>1, <2>1 DEF Posts, Due, d
  <2>4. Current' = Current
    BY <1>5, <2>3 DEF PostsRate, Current
  <2>5. QED
    BY <1>1, <2>2, <2>3, <2>4 DEF SameDue
<1>6. CASE Delivers
  <2>1. /\ UnderWay(loop) = {c} /\ config' = c /\ session' = session
        /\ UnderWay(loop') \subseteq {c}
    BY <1>1, <1>6 DEF Delivers, Due
  <2>2. Due' = {c}
    BY <2>1 DEF Due
  <2>3. Current'.now = c.flags
    BY <2>1 DEF Current, SessionOf, TableFollows
  <2>4. QED
    BY <1>1, <1>2, <2>2, <2>3 DEF SameDue
<1>7. CASE Starts
  <2>1. /\ Due' = {config'} /\ session' = SessionOf(config')
        /\ IF row = {} THEN config' = NewConfig ELSE config' \in row
    BY <1>7 DEF Starts, Due
  <2>2. Current'.now = config'.flags
    BY <2>1 DEF Current, SessionOf
  <2>3. ASSUME row # {}
        PROVE  /\ config' \in UserConfig /\ config'.flags = c.flags
               /\ config'.exec = c.exec /\ config'.start = c.start
    <3>1. config' \in UserConfig /\ config' \in row
      BY <2>1, <2>3 DEF TypeInv, TypeOK
    <3>2. Like(config', c)
      BY <1>1, <3>1 DEF RowFollows, Due
    <3>3. QED
      BY <1>2, <3>1, <3>2, LikeIs
  <2>4. ASSUME row = {}
        PROVE  /\ config' \in UserConfig /\ config'.flags = c.flags
               /\ config'.exec = c.exec /\ config'.start = c.start
    <3>1. Follows(c.flags, c.exec, c.start) /\ c.exec = 0
      BY <1>1, <1>2, <2>4 DEF PhaseFollows
    <3>2. c.flags = NoFlags /\ c.start = 0
      BY <3>1 DEF Follows, InPhase, Waits, Offers
    <3>3. config' = NewConfig /\ NewConfig \in UserConfig
      BY <2>1, <2>4, NoFlagsTyped
    <3>4. QED
      BY <3>1, <3>2, <3>3 DEF NewConfig
  <2>5. QED
    BY <1>1, <1>2, <2>1, <2>2, <2>3, <2>4 DEF SameDue
<1>8. QED
  BY <1>4, <1>5, <1>6, <1>7

(* The copies still belong together, and to the phase.                     *)
LEMMA SameDueFollows ==
  ASSUME TypeInv, PhaseFollows, CopiesFollow, SameDue, row' = row,
         traded' = traded \/ traded' = (row # {}),
         ASSUME NEW c \in Due
         PROVE  Follows(c.flags, c.exec, c.start)'
  PROVE  PhaseFollows' /\ CopiesFollow'
<1>1. PICK c \in Due, d \in UserConfig :
        /\ Due' = {d} /\ Current'.now = Current.now
        /\ d.flags = c.flags /\ d.exec = c.exec /\ d.start = c.start
  BY DEF SameDue
<1>2. /\ Follows(c.flags, c.exec, c.start) /\ Current.now = c.flags
      /\ row = {} => c.exec = 0
  BY DEF PhaseFollows, CopiesFollow
<1>3. Follows(c.flags, c.exec, c.start)'
  OBVIOUS
<1>4. Follows(d.flags, d.exec, d.start)'
  BY <1>1, <1>3
<1>5. QED
  BY <1>1, <1>2, <1>4 DEF PhaseFollows, CopiesFollow

(* Only closing steps write or erase the row, and no pair is forgotten     *)
(* that has one.                                                           *)
LEMMA RowKept ==
  ASSUME Orderly, [Next]_vars, ~Closing
  PROVE  row' = row /\ (traded' = traded \/ traded' = (row # {}))
<1>1. CASE BuyZero \/ Wait \/ \E s \in Steps : Buy(s) \/ Sell(s) \/ CancelSmall(s)
  BY <1>1 DEF BuyZero, Wait, Buy, Sell, CancelSmall, LooksAtIt, configVars
<1>2. CASE Trend
  BY <1>2 DEF Trend, PostRate, configVars
<1>3. CASE Exchange
  BY <1>3 DEF Exchange, AnswerPost, FillBuy, KillBuy, RestSell, RefuseSell, TradeSell, FillSell,
              ExecuteCancel, LoseCancel, BotUnchanged, configVars
<1>4. CASE HandleNews
  BY <1>4 DEF HandleNews, ReportOpen, ReportFilled, ReportClosed, OutboundAccount, Receive,
              configVars
<1>5. CASE HandlePosted
  BY <1>5 DEF HandlePosted, MergeOpen, MergeHistory, MergeBalance, ForwardUpdate,
              UpdateMarketUserConfig, Deliver
<1>6. CASE Crash
  BY <1>6 DEF Crash, Start
<1>7. CASE UNCHANGED vars
  BY <1>7 DEF vars, configVars
<1>8. ~StopAndStart
  BY DEF StopAndStart, Orderly
<1>9. QED
  BY <1>1, <1>2, <1>3, <1>4, <1>5, <1>6, <1>7, <1>8
     DEF Next, Algorithm, Buying, Selling, Closing

-----------------------------------------------------------------------------
(* The steps of the bot and the messages.                                  *)

(* An update that is posted tells nothing of the sell.                     *)
LEMMA UpdateTells ==
  ASSUME TypeInv, MessagesFollow, UNCHANGED <<exchangeVars, wire, posted, news, openSell>>,
         loop' = loop \/ \E e \in Updates : loop' = Append(loop, e),
         canceling' => canceling \/ (sellOrder # NoOrder /\ openSell # 0 /\ NoRemoval(news))
  PROVE  MessagesFollow'
<1>1. /\ sellOrder' = sellOrder /\ fills' = fills
      /\ wire' = wire /\ posted' = posted /\ news' = news /\ openSell' = openSell
  BY DEF exchangeVars
<1>2. Position' = Position
  BY <1>1, PositionSame
<1>3. /\ NoneIn(loop', AboutSell) <=> NoneIn(loop, AboutSell)
      /\ NoneIn(loop', Opens) <=> NoneIn(loop, Opens)
      /\ \A volume : LastIn(loop', Showing(volume), AboutSell)
                     <=> LastIn(loop, Showing(volume), AboutSell)
  <2>1. ASSUME NEW e \in Updates, loop' = Append(loop, e)
        PROVE  /\ NoneIn(loop', AboutSell) <=> NoneIn(loop, AboutSell)
               /\ NoneIn(loop', Opens) <=> NoneIn(loop, Opens)
               /\ \A volume : LastIn(loop', Showing(volume), AboutSell)
                              <=> LastIn(loop, Showing(volume), AboutSell)
    <3>1. e \in Merges \cup Updates /\ e.kind \in {"update", "forward"}
      BY DEF Updates
    <3>2. e \notin AboutSell /\ e \notin Opens /\ \A volume : e \notin Showing(volume)
      BY <3>1, AboutKinds
    <3>3. QED
      BY <2>1, <3>1, <3>2, QueuesMove DEF TypeInv
  <2>2. QED
    BY <2>1
<1>4. OpenFollows' /\ OneOrder' /\ CancelsKnown'
  BY <1>1, <1>2, <1>3 DEF MessagesFollow, OpenFollows, OneOrder, CancelsKnown
<1>5. QED
  BY <1>4 DEF MessagesFollow

(* The table knows of an order that is sent.                               *)
LEMMA SendTells ==
  ASSUME TypeInv, Informed, MessagesFollow, wire = {}, loop' = loop,
         NEW side, NEW volume, NEW s, NEW over, SubmitOrder(side, volume, s, over),
         side = "sell" => openSell = 0
  PROVE  MessagesFollow'
<1>1. /\ sellOrder' = sellOrder /\ fills' = fills /\ canceling' = canceling
      /\ news' = news /\ openSell' = openSell /\ posted' = posted \cup {side}
      /\ \A p \in wire' : p = [side |-> side, volume |-> volume, step |-> s, over |-> over]
  BY DEF SubmitOrder, exchangeVars, storageVars
<1>2. Position' = Position
  BY <1>1, PositionSame
<1>3. \A p \in wire' : p.side = side
  BY <1>1
<1>4. OneOrder'
  <2>1. \A p, q \in wire' : p = q
    BY <1>1
  <2>2. QED
    BY <1>1, <1>3, <2>1 DEF OneOrder, Informed
<1>5. OpenFollows' /\ CancelsKnown'
  BY <1>1, <1>2 DEF MessagesFollow, OpenFollows, CancelsKnown
<1>6. QED
  BY <1>4, <1>5 DEF MessagesFollow

-----------------------------------------------------------------------------
(* The steps of the abstract cycle.                                        *)

CycleMoves == [Cycle!CycleNext]_(Cycle!cycleVars)

(* The step that the bot works with next.                                  *)
LEMMA WorkingNext ==
  ASSUME NEW w \in Steps, WorksWith(w, Current'.now)
  PROVE  Working' = w
<1>1. Steps \subseteq Nat
  BY TableAssumption DEF Steps
<1> DEFINE S == {s \in Steps : MayBuy(s)' \/ MaySell(s)'}
<1>2. w \in S /\ \A s \in S : w <= s
  BY <1>1 DEF WorksWith, MayBuy, MaySell
<1>3. \A s \in S : (\A t \in S : s <= t) => s = w
  BY <1>1, <1>2
<1>4. Min(S) = w
  BY <1>2, <1>3 DEF Min
<1>5. QED
  BY <1>4 DEF Working

(* Nothing bought or sold, and the same flags: the cycle stands still.     *)
LEMMA StandsStill ==
  ASSUME fills' = fills, NEW w \in Steps,
         WorksWith(w, Current.now), WorksWith(w, Current'.now)
  PROVE  CycleMoves
<1>1. Working = w /\ Working' = w
  BY WorkingIs, WorkingNext
<1>2. Cardinality(Position)' = Cardinality(Position) /\ Latest' = Latest
  BY PositionSame
<1>3. QED
  BY <1>1, <1>2 DEF CycleMoves, Cycle!cycleVars

(* The step is passed over.                                                *)
LEMMA GoesOn ==
  ASSUME fills' = fills, NEW w \in Steps, w < Last, PositionSize > 0,
         WorksWith(w, Current.now), WorksWith(w + 1, Current'.now)
  PROVE  CycleMoves
<1>1. w + 1 \in Steps
  BY TableAssumption DEF Steps
<1>2. Working = w /\ Working' = w + 1
  BY <1>1, WorkingIs, WorkingNext
<1>3. Cardinality(Position)' = Cardinality(Position) /\ Latest' = Latest
  BY PositionSame
<1>4. Cycle!Advance
  BY <1>2, <1>3 DEF Cycle!Advance, PositionSize
<1>5. QED
  BY <1>4 DEF CycleMoves, Cycle!CycleNext

(* All is sold, and the flags are erased.                                  *)
LEMMA BeginsAnew ==
  ASSUME fills' = fills, PositionSize = 0, WorksWith(0, Current'.now)
  PROVE  CycleMoves
<1>1. 0 \in Steps
  BY TableAssumption DEF Steps
<1>2. Working' = 0
  BY <1>1, WorkingNext
<1>3. Cardinality(Position)' = Cardinality(Position) /\ Latest' = Latest
  BY PositionSame
<1>4. Cycle!Restart
  BY <1>2, <1>3 DEF Cycle!Restart, PositionSize
<1>5. QED
  BY <1>4 DEF CycleMoves, Cycle!CycleNext

(* What the exchange executes.                                             *)
LEMMA ExchangeMoves ==
  ASSUME TypeInv, Orderly, OneOrder, CancelsKnown, Exchange,
         NEW flags, flags = Current.now, NEW exec \in Nat, NEW start \in Nat,
         Follows(flags, exec, start), Current'.now = Current.now
  PROVE  CycleMoves
<1>1. PICK w \in Steps : WorksWith(w, flags) /\ InPhase(w, flags, exec)
  BY DEF Follows
<1>2. Working = w /\ Working' = w
  BY <1>1, WorkingIs, WorkingNext
<1>3. CASE fills' = fills
  BY <1>1, <1>3, StandsStill
<1>4. CASE FillSell
  <2>1. PositionSize > 0 /\ PositionSize' = 0 /\ Latest' = 0
    BY <1>4, FillSellFollows
  <2>2. Cycle!Sold
    BY <1>2, <2>1 DEF Cycle!Sold, PositionSize
  <2>3. QED
    BY <2>2 DEF CycleMoves, Cycle!CycleNext
<1>5. ASSUME NEW p \in wire, FillBuy(p)
      PROVE  CycleMoves
  <2> DEFINE f == [side |-> "buy", volume |-> p.volume,
                   born |-> 2 * Len(fills) + 2, step |-> p.step]
  <2>1. f \in Fill /\ f.side = "buy" /\ fills' = Append(fills, f) /\ f.step = p.step
    BY <1>5, PositionTyped, AmountsTyped DEF Fill, Sides, Volumes, FillBuy
  <2> HIDE DEF f
  <2>2. PositionSize' = PositionSize + 1 /\ Latest' = p.step
    BY <2>1, PositionGrows
  <2>3. /\ PositionSize \in Nat /\ Latest \in Nat /\ w \in Nat /\ MaxSteps \in Nat
        /\ p.step \in Nat /\ p.side = "buy" /\ (Position = {} <=> PositionSize = 0)
    <3>1. p.side = "buy" /\ p.step \in Steps
      <4>1. p \in Post
        BY <1>5 DEF TypeInv, TypeOK
      <4>2. QED
        BY <1>5, <4>1 DEF FillBuy, Post
    <3>2. /\ PositionSize \in Nat /\ Latest \in Steps
          /\ (Position = {} <=> PositionSize = 0)
      BY PositionTyped
    <3>3. QED
      BY <3>1, <3>2, BoundsAssumption, TableAssumption DEF Steps
  <2>4. CASE Beginning
    <3>1. PositionSize = 0 /\ p.step = 0
      BY <2>3, <2>4 DEF Beginning
    <3>2. Cycle!Purchase
      BY <1>2, <2>2, <2>3, <3>1 DEF Cycle!Purchase, PositionSize
    <3>3. QED
      BY <3>2 DEF CycleMoves, Cycle!CycleNext
  <2>5. CASE Waits(w, flags, exec)
    <3>1. ToBuy(w, exec)
      BY <2>5 DEF Waits, Purchased
    <3>2. /\ exec > 0 /\ exec <= MaxSteps /\ PositionSize = exec
          /\ Latest < p.step /\ p.step <= w
      BY <2>5, <3>1 DEF Waits, ToBuy
    <3>3. Latest' \in Latest + 1 .. Working
      BY <1>2, <2>2, <2>3, <3>2
    <3>4. PositionSize < MaxSteps + 1 /\ PositionSize # 0
      BY <2>3, <3>2
    <3>5. Cycle!Purchase
      BY <1>2, <2>2, <3>3, <3>4 DEF Cycle!Purchase, PositionSize
    <3>6. QED
      BY <3>5 DEF CycleMoves, Cycle!CycleNext
  <2>6. ~Offers(w, flags, exec)
    BY <1>5, <2>3 DEF Offers, ToSell, NoPosition
  <2>7. QED
    BY <1>1, <2>4, <2>5, <2>6 DEF InPhase
<1>6. QED
  BY <1>3, <1>4, <1>5
     DEF Exchange, AnswerPost, KillBuy, RestSell, RefuseSell, TradeSell, ExecuteCancel,
         LoseCancel, exchangeVars

-----------------------------------------------------------------------------
(* Every step keeps the cycle.                                             *)

CycleInv == TypeInv /\ KnowsSell /\ RowFollows /\ TableFollows /\ CycleFollows

(* What a timer finds.                                                     *)
LEMMA AtTick ==
  ASSUME Orderly, CycleInv, Tick
  PROVE  /\ Informed /\ Current.now = config.flags
         /\ Follows(config.flags, config.exec, config.start)
         /\ config.exec \in Nat /\ config.start \in Nat
<1>1. UpdatesFirst
  BY DEF Orderly, UpdatesFirst
<1>2. Informed
  BY TickInformed DEF CycleInv, CycleFollows
<1>3. Current.now = config.flags
  BY <1>1, TickFollows DEF CycleInv
<1>4. Follows(config.flags, config.exec, config.start)
  BY <1>2 DEF CycleInv, CycleFollows, PhaseFollows, Informed
<1>5. QED
  BY <1>2, <1>3, <1>4 DEF CycleInv, TypeInv, TypeOK, UserConfig

(* A step that closes without a request.                                   *)
LEMMA QuietlyCloses ==
  ASSUME TypeInv, MessagesFollow, NoRequest, NEW flags, NEW exec, NEW start,
         Follows(flags, exec, start), ClosesTo(flags, exec, start)
  PROVE  CycleFollows' /\ Current'.now = flags /\ fills' = fills
<1>1. /\ UNCHANGED <<exchangeVars, wire, posted, news, openSell>>
      /\ canceling' = canceling /\ wire' = wire /\ fills' = fills
  BY DEF NoRequest, exchangeVars, requestVars, storageVars
<1>2. Follows(flags, exec, start)'
  BY <1>1, FailureFollows
<1>3. MessagesFollow'
  BY <1>1, UpdateTells DEF ClosesTo
<1>4. QED
  BY <1>1, <1>2, <1>3, ClosedCopies DEF CycleFollows

(* A step that closes leaves a phase, and goes on or stands still.         *)
LEMMA ClosingFollows ==
  ASSUME Orderly, DistinctPercents, CycleInv, Closing
  PROVE  CycleFollows' /\ CycleMoves
<1>1. TypeInv /\ MessagesFollow /\ SellsSomething /\ Tick
  BY DEF CycleInv, CycleFollows, KnowsSell, Closing, CloseZero, SkipStep, CloseBuy, CloseBuyIf,
         Unlock, CancelFallen, BuyTurn, SellTurn
<1>2. /\ Informed /\ Current.now = config.flags
      /\ Follows(config.flags, config.exec, config.start)
      /\ config.exec \in Nat /\ config.start \in Nat
  BY <1>1, AtTick
<1>3. CASE CloseZero
  <2>1. 0 \in Steps
    BY TableAssumption DEF Steps
  <2>2. PICK flags, exec, start :
          flags = BlockBuy(0) /\ exec = config.exec + 1 /\ start = StartAt(Newest)
    OBVIOUS
  <2>3. /\ Follows(flags, exec, start)
        /\ WorksWith(0, Current.now) /\ WorksWith(0, flags)
    BY <1>1, <1>2, <1>3, <2>2, CloseZeroFollows
  <2>4. Newest \in Nat
    BY <1>1, <1>3, NewestTyped DEF CloseZero, TypeInv
  <2>5. exec \in Nat /\ start \in Nat
    BY <1>2, <2>2, <2>4 DEF StartAt
  <2>6. ClosesTo(flags, exec, start)
    BY <1>1, <1>2, <1>3, <2>1, <2>2, <2>5, MetaConfigCloses DEF CloseZero
  <2>7. CycleFollows' /\ Current'.now = flags /\ fills' = fills
    BY <1>1, <1>3, <2>3, <2>6, QuietlyCloses DEF CloseZero
  <2>8. QED
    BY <2>1, <2>3, <2>7, StandsStill
<1>4. ASSUME NEW s \in Steps, SkipStep(s)
      PROVE  CycleFollows' /\ CycleMoves
  <2>1. PICK flags, exec, start :
          flags = BlockBoth(s) /\ exec = config.exec /\ start = config.start
    OBVIOUS
  <2>2. /\ Follows(flags, exec, start)
        /\ WorksWith(s, Current.now) /\ WorksWith(s + 1, flags)
        /\ s < Last /\ PositionSize > 0
    BY <1>1, <1>2, <1>4, <2>1, SkipStepFollows
  <2>3. ClosesTo(flags, exec, start)
    BY <1>1, <1>2, <1>4, <2>1, MetaConfigCloses DEF SkipStep
  <2>4. CycleFollows' /\ Current'.now = flags /\ fills' = fills
    BY <1>1, <1>4, <2>2, <2>3, QuietlyCloses DEF SkipStep
  <2>5. QED
    BY <2>2, <2>4, GoesOn
<1>5. ASSUME NEW s \in Steps, CloseBuy(s)
      PROVE  CycleFollows' /\ CycleMoves
  <2>1. PICK flags, exec, start :
          flags = BlockBuy(s) /\ exec = config.exec + 1 /\ start = config.start
    OBVIOUS
  <2>2. /\ Follows(flags, exec, start)
        /\ WorksWith(s, Current.now) /\ WorksWith(s, flags)
    BY <1>1, <1>2, <1>5, <2>1, CloseBuyFollows
  <2>3. ClosesTo(flags, exec, start)
    BY <1>1, <1>2, <1>5, <2>1, MetaConfigCloses DEF CloseBuy, CloseBuyIf
  <2>4. CycleFollows' /\ Current'.now = flags /\ fills' = fills
    BY <1>1, <1>5, <2>2, <2>3, QuietlyCloses DEF CloseBuy, CloseBuyIf
  <2>5. QED
    BY <2>2, <2>4, StandsStill
<1>6. ASSUME NEW s \in Steps, Unlock(s)
      PROVE  CycleFollows' /\ CycleMoves
  <2>1. /\ Follows(NoFlags, 0, 0) /\ WorksWith(0, NoFlags) /\ PositionSize = 0
    BY <1>1, <1>2, <1>6, UnlockFollows
  <2>2. ClosesTo(NoFlags, 0, 0)
    BY <1>1, <1>6, UnlockCloses DEF Unlock
  <2>3. CycleFollows' /\ Current'.now = NoFlags /\ fills' = fills
    BY <1>1, <1>6, <2>1, <2>2, QuietlyCloses DEF Unlock
  <2>4. QED
    BY <2>1, <2>3, BeginsAnew
<1>7. ASSUME NEW s \in Steps, CancelFallen(s)
      PROVE  CycleFollows' /\ CycleMoves
  <2>1. PICK flags, exec, start :
          flags = BlockSell(s) /\ exec = config.exec /\ start = config.start
    OBVIOUS
  <2>2. /\ Follows(flags, exec, start)'
        /\ WorksWith(s, Current.now) /\ WorksWith(s + 1, flags)
        /\ s < Last /\ PositionSize > 0
    BY <1>1, <1>2, <1>7, <2>1, CancelFallenFollows
  <2>3. ClosesTo(flags, exec, start)
    BY <1>1, <1>2, <1>7, <2>1, MetaConfigCloses DEF CancelFallen
  <2>4. PhaseFollows' /\ CopiesFollow' /\ Current'.now = flags
    BY <1>1, <2>2, <2>3, ClosedCopies
  <2>5. /\ UNCHANGED <<exchangeVars, wire, posted, news, openSell>> /\ fills' = fills
        /\ canceling' = (sellOrder # NoOrder) /\ openSell # 0
    BY <1>7 DEF CancelFallen, CancelOrder, exchangeVars, storageVars
  <2>6. MessagesFollow'
    BY <1>1, <1>2, <2>3, <2>5, UpdateTells DEF ClosesTo, Informed
  <2>7. QED
    BY <2>2, <2>4, <2>5, <2>6, GoesOn DEF CycleFollows
<1>8. QED
  BY <1>3, <1>4, <1>5, <1>6, <1>7 DEF Closing

(* A start hears everything anew.                                          *)
LEMMA StartTells ==
  ASSUME CancelsKnown, NEW rows, Start(rows)
  PROVE  MessagesFollow'
<1>1. /\ wire' = {} /\ ~canceling' /\ news' = <<>> /\ loop' = <<>>
      /\ sellOrder' = sellOrder /\ openSell' = sellOrder.volume
  BY DEF Start, exchangeVars, requestVars
<1>2. Count(news', "closed") = 0
  BY <1>1, CountEmpty
<1>3. \A bad : NoneIn(news', bad) /\ NoneIn(loop', bad)
  BY <1>1 DEF NoneIn
<1>4. OpenFollows' /\ OneOrder' /\ CancelsKnown'
  BY <1>1, <1>2, <1>3 DEF OpenFollows, OneOrder, CancelsKnown
<1>5. QED
  BY <1>4 DEF MessagesFollow

(* A step that does not close leaves what is due, and a phase.             *)
LEMMA OthersFollow ==
  ASSUME Orderly, CycleInv, [Next]_vars, ~Closing
  PROVE  CycleFollows' /\ CycleMoves
<1>1. /\ TypeInv /\ KnowsSell /\ SellsSomething /\ RowFollows /\ TableFollows
      /\ PhaseFollows /\ MessagesFollow /\ CopiesFollow
  BY DEF CycleInv, CycleFollows, KnowsSell
<1>2. row' = row /\ (traded' = traded \/ traded' = (row # {}))
  BY RowKept
<1>3. SameDue
  <2>1. UpdatesFirst
    BY DEF Orderly, UpdatesFirst
  <2>2. Stays \/ PostsRate \/ Delivers \/ Starts
    BY <1>1, <2>1, OtherSteps
  <2>3. QED
    BY <1>1, <1>2, <2>2, OtherDue
<1>4. Current'.now = Current.now
  BY <1>3 DEF SameDue
<1>5. \A c \in Due : /\ Follows(c.flags, c.exec, c.start) /\ c.flags = Current.now
                     /\ c.exec \in Nat /\ c.start \in Nat
  BY <1>1, DueTyped DEF PhaseFollows, CopiesFollow, UserConfig
<1>6. PICK d : d \in Due
  BY <1>3 DEF SameDue
<1>7. ASSUME MessagesFollow', \A c \in Due : Follows(c.flags, c.exec, c.start)'
      PROVE  CycleFollows'
  <2>1. PhaseFollows' /\ CopiesFollow'
    BY <1>1, <1>2, <1>3, <1>7, SameDueFollows
  <2>2. QED
    BY <1>7, <2>1 DEF CycleFollows
<1>8. ASSUME fills' = fills
      PROVE  CycleMoves
  <2>1. PICK w \in Steps : WorksWith(w, d.flags)
    BY <1>5, <1>6 DEF Follows
  <2>2. WorksWith(w, Current.now) /\ WorksWith(w, Current'.now)
    BY <1>4, <1>5, <1>6, <2>1
  <2>3. QED
    BY <1>8, <2>2, StandsStill
<1>9. ASSUME Tick
      PROVE  /\ Informed /\ Current.now = config.flags
             /\ Follows(config.flags, config.exec, config.start)
             /\ \A c \in Due : c = config
  BY <1>9, AtTick DEF Informed
<1>10. ASSUME UNCHANGED <<exchangeVars, requestVars>>, MessagesFollow'
       PROVE  CycleFollows' /\ CycleMoves
  <2>1. ASSUME NEW c \in Due
        PROVE  Follows(c.flags, c.exec, c.start)'
    BY <1>5, <1>10, HandlerFollows
  <2>2. fills' = fills
    BY <1>10 DEF exchangeVars
  <2>3. QED
    BY <1>7, <1>8, <1>10, <2>1, <2>2
<1>11. CASE BuyZero
  <2>1. Tick /\ SubmitOrder("buy", TradeSum, 0, {}) /\ loop' = loop /\ fills' = fills
    BY <1>11 DEF BuyZero, BuyTurn, LooksAtIt, SubmitOrder, exchangeVars
  <2>2. ASSUME NEW c \in Due
        PROVE  Follows(c.flags, c.exec, c.start)' /\ wire = {}
    BY <1>1, <1>9, <1>11, <2>1, BuyZeroFollows
  <2>3. MessagesFollow'
    BY <1>1, <1>6, <1>9, <2>1, <2>2, SendTells
  <2>4. QED
    BY <1>7, <1>8, <2>1, <2>2, <2>3
<1>12. ASSUME NEW s \in Steps, Buy(s)
       PROVE  CycleFollows' /\ CycleMoves
  <2>1. Tick /\ SubmitOrder("buy", balance.total, s, {}) /\ loop' = loop /\ fills' = fills
    BY <1>12 DEF Buy, BuyTurn, LooksAtIt, SubmitOrder, exchangeVars
  <2>2. ASSUME NEW c \in Due
        PROVE  Follows(c.flags, c.exec, c.start)' /\ wire = {}
    BY <1>1, <1>9, <1>12, <2>1, BuyFollows
  <2>3. MessagesFollow'
    BY <1>1, <1>6, <1>9, <2>1, <2>2, SendTells
  <2>4. QED
    BY <1>7, <1>8, <2>1, <2>2, <2>3
<1>13. ASSUME NEW s \in Steps, Sell(s)
       PROVE  CycleFollows' /\ CycleMoves
  <2>1. /\ Tick /\ SubmitOrder("sell", balance.available, s, Averaged) /\ openSell = 0
        /\ loop' = loop /\ fills' = fills
    BY <1>13 DEF Sell, SellTurn, LooksAtIt, SubmitOrder, exchangeVars
  <2>2. ASSUME NEW c \in Due
        PROVE  Follows(c.flags, c.exec, c.start)' /\ wire = {}
    BY <1>1, <1>9, <1>13, <2>1, SellFollowsPhase
  <2>3. MessagesFollow'
    BY <1>1, <1>6, <1>9, <2>1, <2>2, SendTells
  <2>4. QED
    BY <1>7, <1>8, <2>1, <2>2, <2>3
<1>14. ASSUME NEW s \in Steps, CancelSmall(s)
       PROVE  CycleFollows' /\ CycleMoves
  <2>1. Tick /\ loop' = loop /\ openSell' = openSell
    BY <1>14 DEF CancelSmall, SellTurn, LooksAtIt, CancelOrder, storageVars
  <2>2. UNCHANGED <<exchangeVars, requestVars, posted, news>>
    BY <1>1, <1>9, <1>14, <2>1, CancelSmallFollows DEF MessagesFollow
  <2>3. MessagesFollow'
    BY <1>1, <2>1, <2>2, UpdateTells DEF requestVars
  <2>4. QED
    BY <1>10, <2>2, <2>3
<1>15. ASSUME UNCHANGED <<exchangeVars, requestVars, posted, news, storageVars>>,
              loop' = loop \/ \E e \in Updates : loop' = Append(loop, e)
       PROVE  CycleFollows' /\ CycleMoves
  <2>1. MessagesFollow'
    BY <1>1, <1>15, UpdateTells DEF requestVars, storageVars
  <2>2. QED
    BY <1>10, <1>15, <2>1
<1>16. CASE Wait \/ UNCHANGED vars
  BY <1>15, <1>16 DEF Wait, LooksAtIt, NoRequest, vars
<1>17. CASE Trend
  <2>1. PICK r \in Int : PostRate(r)
    BY <1>17, RatesAssumption DEF Trend
  <2>2. [config EXCEPT !.rate = r] \in UserConfig
    BY <1>1 DEF TypeInv, TypeOK, UserConfig
  <2>3. NoRequest /\ \E e \in Updates : loop' = Append(loop, e)
    BY <2>1, <2>2 DEF PostRate, Updates
  <2>4. QED
    BY <1>15, <2>3 DEF NoRequest
<1>18. CASE Exchange
  <2>1. ASSUME NEW c \in Due
        PROVE  Follows(c.flags, c.exec, c.start)'
    BY <1>1, <1>5, <1>18, ExchangeFollows DEF MessagesFollow
  <2>2. MessagesFollow'
    BY <1>1, <1>5, <1>6, <1>18, ExchangeTells
  <2>3. CycleMoves
    BY <1>1, <1>4, <1>5, <1>6, <1>18, ExchangeMoves DEF MessagesFollow
  <2>4. QED
    BY <1>7, <2>1, <2>2, <2>3
<1>19. CASE HandleNews
  <2>1. MessagesFollow'
    BY <1>1, <1>19, NewsTells
  <2>2. UNCHANGED <<exchangeVars, requestVars>>
    BY <1>19 DEF HandleNews, ReportOpen, ReportFilled, ReportClosed, OutboundAccount, Receive
  <2>3. QED
    BY <1>10, <2>1, <2>2
<1>20. CASE HandlePosted
  <2>1. MessagesFollow'
    BY <1>1, <1>20, PostedTells
  <2>2. UNCHANGED <<exchangeVars, requestVars>>
    BY <1>20 DEF HandlePosted, MergeOpen, MergeHistory, MergeBalance, ForwardUpdate,
                 UpdateMarketUserConfig, Deliver
  <2>3. QED
    BY <1>10, <2>1, <2>2
<1>21. CASE Crash
  <2>1. MessagesFollow'
    BY <1>1, <1>21, StartTells DEF Crash, MessagesFollow
  <2>2. UNCHANGED <<exchangeVars, requestVars>>
    BY <1>21 DEF Crash, Start
  <2>3. QED
    BY <1>10, <2>1, <2>2
<1>22. ~StopAndStart
  BY DEF StopAndStart, Orderly
<1>23. QED
  BY <1>11, <1>12, <1>13, <1>14, <1>16, <1>17, <1>18, <1>19, <1>20, <1>21, <1>22
     DEF Next, Algorithm, Buying, Selling, Closing

-----------------------------------------------------------------------------
(* The invariant, and what it shows.                                       *)

(* A bot that starts for the first time begins a cycle.                    *)
LEMMA InitFollows == Init => KnowsSell /\ RowFollows /\ TableFollows /\ CycleFollows
<1> SUFFICES ASSUME Init
             PROVE  KnowsSell /\ RowFollows /\ TableFollows /\ CycleFollows
  OBVIOUS
<1>1. /\ fills = <<>> /\ held = 0 /\ sellOrder = NoOrder /\ wire = {} /\ ~canceling
      /\ news = <<>> /\ loop = <<>> /\ openSell = 0 /\ config = NewConfig
      /\ session = SessionOf(NewConfig) /\ row = {} /\ traded
      /\ balance.total = 0 /\ balance.available = 0
  BY DEF Init
<1>2. /\ NoOrder.left = 0 /\ NoOrder.volume = 0
      /\ NewConfig.flags = NoFlags /\ NewConfig.exec = 0 /\ NewConfig.start = 0
  BY DEF NoOrder, NewConfig
<1>3. (\A bad : NoneIn(<<>>, bad)) /\ Count(<<>>, "closed") = 0
  BY CountEmpty DEF NoneIn
<1>4. KnowsSell
  BY <1>1, <1>2, <1>3
     DEF KnowsSell, BalanceFollows, SellFollows, SellsSomething, Free, NoRemoval, NoEmptySell,
         NoAccount, NoOpen
<1>5. UnderWay(loop) = {}
  BY <1>1, UnderWayEmpty
<1>6. RowFollows /\ TableFollows
  BY <1>1, <1>5 DEF RowFollows, TableFollows, Fits, InOrder, NewConfig, NoFlags, SessionOf
<1>7. Due = {NewConfig} /\ Current.now = NoFlags
  BY <1>1, <1>2, <1>5 DEF Due, Current, SessionOf
<1>8. CopiesFollow
  BY <1>1, <1>2, <1>7 DEF CopiesFollow
<1>9. MessagesFollow
  BY <1>1, <1>2, <1>3 DEF MessagesFollow, OpenFollows, OneOrder, CancelsKnown
<1>10. Beginning
  BY <1>1 DEF Beginning, Position
<1>11. 0 \in Steps /\ WorksWith(0, NoFlags)
  BY TableAssumption DEF Steps, WorksWith, NoFlags
<1>12. Follows(NoFlags, 0, 0)
  BY <1>10, <1>11 DEF Follows, InPhase
<1>13. PhaseFollows
  BY <1>2, <1>7, <1>12 DEF PhaseFollows
<1>14. QED
  BY <1>4, <1>6, <1>8, <1>9, <1>13 DEF CycleFollows

(* Every step keeps the invariant, and is a step of the cycle.             *)
LEMMA CycleStep ==
  ASSUME Orderly, DistinctPercents, CycleInv, [Next]_vars
  PROVE  CycleInv' /\ CycleMoves
<1>1. UpdatesFirst /\ TypeInv /\ KnowsSell /\ RowFollows /\ TableFollows
  BY DEF Orderly, UpdatesFirst, CycleInv
<1>2. TypeInv' /\ KnowsSell' /\ RowFollows' /\ TableFollows'
  BY <1>1, TypeStep, KnowsStep, RowStep, TableStep
<1>3. CycleFollows' /\ CycleMoves
  BY ClosingFollows, OthersFollow
<1>4. QED
  BY <1>2, <1>3 DEF CycleInv

(* It holds in every behaviour.                                            *)
LEMMA CycleHolds ==
  ASSUME Orderly, DistinctPercents
  PROVE  Spec => []CycleInv
<1>1. Init => CycleInv
  BY InitTyped, InitFollows DEF CycleInv
<1>2. CycleInv /\ [Next]_vars => CycleInv'
  BY CycleStep
<1>3. QED
  BY <1>1, <1>2, PTL DEF Spec

(* What is due has a phase.                                                *)
LEMMA DuePhase ==
  ASSUME CycleInv
  PROVE  \E c \in Due, w \in Steps :
           /\ WorksWith(w, c.flags) /\ InPhase(w, c.flags, c.exec) /\ c.flags = Current.now
           /\ (row = {} => c.exec = 0) /\ c.exec \in Nat
<1>1. PICK c : c \in Due
  BY DueTyped DEF CycleInv
<1>2. /\ Follows(c.flags, c.exec, c.start) /\ c.flags = Current.now
      /\ row = {} => c.exec = 0
  BY <1>1 DEF CycleInv, CycleFollows, PhaseFollows, CopiesFollow
<1>3. c.exec \in Nat
  BY <1>1, DueTyped DEF CycleInv, UserConfig
<1>4. QED
  BY <1>1, <1>2, <1>3 DEF Follows

(* If no timer fires before the news of the pair are merged and no         *)
(* cancellation is ignored or overtaken, a bot that dies forgets a pair    *)
(* with its first purchase at most (i_step.cpp:119-150).                   *)
THEOREM OnlyFirstForgottenHolds ==
  ASSUME Orderly, DistinctPercents
  PROVE  Spec => []OnlyFirstForgotten
<1>1. CycleInv => OnlyFirstForgotten
  <2>1. SUFFICES ASSUME CycleInv, ~traded
                 PROVE  PositionSize <= 1
    BY DEF OnlyFirstForgotten, PositionSize
  <2>2. row = {}
    BY <2>1 DEF CycleInv, CycleFollows, CopiesFollow
  <2>3. Beginning
    BY <2>1, <2>2, DuePhase DEF InPhase, Waits, Offers
  <2>4. PositionSize \in Nat /\ (Position = {} => PositionSize = 0)
    BY <2>1, PositionTyped DEF CycleInv
  <2>5. QED
    BY <2>3, <2>4 DEF Beginning
<1>2. QED
  BY <1>1, CycleHolds, PTL

(* The counter of purchases is that of the position, but for one whose     *)
(* step has not closed (updateMarketMetaConfig, unlockAllSteps).           *)
THEOREM ExecMatchesHolds ==
  ASSUME Orderly, DistinctPercents
  PROVE  Spec => []ExecMatches
<1>1. CycleInv => ExecMatches
  <2>1. SUFFICES ASSUME CycleInv, Quiet, Position # {}
                 PROVE  PositionSize - config.exec \in {0, 1}
    BY DEF ExecMatches, PositionSize
  <2>2. Due = {config}
    BY <2>1, UnderWayEmpty DEF Quiet, Due
  <2>3. PICK w \in Steps : InPhase(w, config.flags, config.exec) /\ config.exec \in Nat
    BY <2>1, <2>2, DuePhase
  <2>4. PositionSize \in Nat
    BY <2>1, PositionTyped DEF CycleInv
  <2>5. PositionSize \in {config.exec, config.exec + 1}
    BY <2>1, <2>3
       DEF InPhase, Beginning, Waits, Purchased, ToBuy, Offers, ToSell, NoPosition
  <2>6. QED
    BY <2>3, <2>4, <2>5
<1>2. QED
  BY <1>1, CycleHolds, PTL

(* A sell of all that is held has the price of the whole position          *)
(* (calculateAverate against cycleTimeStart).                              *)
THEOREM SellCoversCycleHolds ==
  ASSUME Orderly, DistinctPercents
  PROVE  Spec => []SellCoversCycle
<1>1. CycleInv => SellCoversCycle
  <2>1. SUFFICES ASSUME CycleInv, sellOrder # NoOrder, sellOrder.left = held
                 PROVE  sellOrder.over = Position
    BY DEF SellCoversCycle
  <2>2. ~(sellOrder.left < held)
    BY <2>1, AmountsTyped DEF CycleInv
  <2>3. OwnSell \/ OldSell
    BY <2>1, DuePhase
       DEF InPhase, Beginning, Waits, Purchased, ToBuy, Offers, ToSell, NoPosition
  <2>4. QED
    BY <2>2, <2>3 DEF OwnSell, OldSell
<1>2. QED
  BY <1>1, CycleHolds, PTL

(* The cycle begins with nothing bought, at step 0.                        *)
LEMMA CycleBegins == Init => Cycle!CycleInit
<1> SUFFICES ASSUME Init PROVE Cycle!CycleInit
  OBVIOUS
<1>1. Position = {} /\ Latest = 0
  BY DEF Init, Position, Latest
<1>2. Cardinality(Position) = 0
  BY <1>1, FS_EmptySet
<1>3. Current.now = NoFlags
  BY DEF Init, Current, SessionOf, NewConfig
<1>4. 0 \in Steps /\ WorksWith(0, Current.now)
  BY <1>3, TableAssumption DEF Steps, WorksWith, NoFlags
<1>5. Working = 0
  BY <1>4, WorkingIs
<1>6. QED
  BY <1>1, <1>2, <1>5 DEF Cycle!CycleInit

(* The flags in memory, in the configuration and in the database, and what *)
(* the storages say, make together the cycle that TradingCycle promises,   *)
(* whatever the steps of the table and the rates are, through partial      *)
(* trades and crashes (Hanukkah::execLogic and everything it calls).       *)
THEOREM CycleRefinedHolds ==
  ASSUME Orderly, DistinctPercents
  PROVE  Spec => CycleRefined
<1>1. CycleInv /\ [Next]_vars => [Cycle!CycleNext]_(Cycle!cycleVars)
  BY CycleStep DEF CycleMoves
<1>2. QED
  BY <1>1, CycleBegins, CycleHolds, PTL DEF Spec, CycleRefined, Cycle!CycleSpec

(* The bot never goes back to a step that it has left in the cycle, as     *)
(* README.md:40 has it.  An update under way when a timer fires, or when   *)
(* the bot is stopped, would break it (updateMarketUserConfig, saveState). *)
THEOREM NeverBackHolds ==
  ASSUME Orderly, DistinctPercents
  PROVE  Spec => NeverBack
<1>1. CycleInv /\ [Next]_vars => (Position # {} /\ Position' # {} => Working' >= Working)
  <2>1. SUFFICES ASSUME CycleInv, [Next]_vars, Position # {}, Position' # {}
                 PROVE  Working' >= Working
    OBVIOUS
  <2>2. CycleInv' /\ CycleMoves
    BY <2>1, CycleStep
  <2>3. PositionSize # 0 /\ PositionSize' # 0
    <3>1. \A p : Cardinality(p) = 0 /\ IsFiniteSet(p) => p = {}
      BY FS_EmptySet
    <3>2. IsFiniteSet(Position)
      BY <2>1, PositionTyped DEF CycleInv
    <3>3. IsFiniteSet(Position')
      <4>1. fills' \in Seq(Fill)
        BY <2>2 DEF CycleInv, TypeInv, TypeOK
      <4>2. Position' \subseteq 1 .. Len(fills') /\ Len(fills') \in Nat
        BY <4>1, LenProperties DEF Position
      <4>3. IsFiniteSet(1 .. Len(fills'))
        BY <4>2, FS_Interval
      <4>4. QED
        BY <4>2, <4>3, FS_Subset
    <3>4. QED
      BY <2>1, <3>1, <3>2, <3>3 DEF PositionSize
  <2>4. Working \in Nat
    <3>1. PICK w \in Steps : Working = w
      BY <2>1, DuePhase, WorkingIs
    <3>2. QED
      BY <3>1, TableAssumption DEF Steps
  <2>5. QED
    BY <2>2, <2>3, <2>4
       DEF CycleMoves, PositionSize, Cycle!CycleNext, Cycle!Purchase, Cycle!Advance, Cycle!Sold,
           Cycle!Restart, Cycle!cycleVars
<1>2. QED
  BY <1>1, CycleHolds, PTL DEF Spec, NeverBack

-----------------------------------------------------------------------------
(* One purchase at a step.                                                 *)

(* A later purchase of the position is of a later step.                    *)
PurchasesAscend ==
  \A i, j \in Position : i < j => fills[i].step < fills[j].step

(* A step of the cycle buys for a later step than before.                  *)
LEMMA AscendStep ==
  ASSUME TypeInv, PurchasesAscend, CycleMoves, [Next]_vars
  PROVE  PurchasesAscend'
<1>1. CASE fills' = fills
  BY <1>1, PositionSame DEF PurchasesAscend
<1>2. CASE FillSell
  <2> DEFINE f == [side |-> "sell", volume |-> sellOrder.volume,
                   born |-> sellOrder.born, step |-> 0]
  <2>1. sellOrder.born \in Nat /\ 0 \in Steps
    BY TableAssumption DEF TypeInv, TypeOK, SellOrder, Steps
  <2>2. f \in Fill /\ f.side = "sell" /\ fills' = Append(fills, f)
    BY <1>2, <2>1, AmountsTyped DEF Fill, Sides, Volumes, FillSell
  <2> HIDE DEF f
  <2>3. Position' = {}
    BY <2>2, PositionSold
  <2>4. QED
    BY <2>3 DEF PurchasesAscend
<1>3. ASSUME NEW p \in wire, FillBuy(p)
      PROVE  PurchasesAscend'
  <2> DEFINE f == [side |-> "buy", volume |-> p.volume,
                   born |-> 2 * Len(fills) + 2, step |-> p.step]
  <2>1. f \in Fill /\ f.side = "buy" /\ fills' = Append(fills, f) /\ f.step = p.step
    BY <1>3, PositionTyped, AmountsTyped DEF Fill, Sides, Volumes, FillBuy
  <2> HIDE DEF f
  <2>2. /\ Position' = Position \cup {Len(fills) + 1}
        /\ PositionSize' = PositionSize + 1 /\ Latest' = f.step
    BY <2>1, PositionGrows
  <2>3. /\ PositionSize \in Nat /\ (Position = {} <=> PositionSize = 0)
        /\ Position \subseteq 1 .. Len(fills) /\ Len(fills) \in Nat
        /\ fills \in Seq(Fill) /\ Latest \in Nat
        /\ Position # {} => Len(fills) \in Position
    BY PositionTyped DEF Steps
  <2>4. PositionSize # 0 => Latest < f.step
    <3>1. PositionSize' # 0 /\ PositionSize' # PositionSize
      BY <2>2, <2>3
    <3>2. Cycle!Purchase
      BY <3>1 DEF CycleMoves, PositionSize, Cycle!CycleNext, Cycle!Advance, Cycle!Sold,
                  Cycle!Restart, Cycle!cycleVars
    <3>3. PositionSize # 0 => Latest' \in Latest + 1 .. Working
      BY <3>2 DEF Cycle!Purchase, PositionSize
    <3>4. QED
      BY <2>2, <2>3, <3>3
  <2>5. \A i \in 1 .. Len(fills) : fills'[i] = fills[i] /\ fills[i].step \in Nat
    <3>1. ASSUME NEW i \in 1 .. Len(fills)
          PROVE  fills'[i] = fills[i] /\ fills[i] \in Fill
      BY <2>1, <2>3, <3>1, AppendProperties, ElementOfSeq
    <3>2. \A g \in Fill : g.step \in Nat
      BY DEF Fill, Steps
    <3>3. QED
      BY <3>1, <3>2
  <2>6. fills'[Len(fills) + 1] = f
    BY <2>1, <2>3, AppendProperties
  <2>7. \A i \in Position : fills[i].step <= Latest
    BY <2>3, <2>5 DEF PurchasesAscend, Latest
  <2>8. f.step \in Nat
    BY <2>1 DEF Fill, Steps
  <2>9. ASSUME NEW i \in Position', NEW j \in Position', i < j
        PROVE  fills'[i].step < fills'[j].step
    <3>1. i \in Position
      BY <2>2, <2>3, <2>9
    <3>2. CASE j \in Position
      BY <2>3, <2>5, <2>9, <3>1, <3>2 DEF PurchasesAscend
    <3>3. CASE j = Len(fills) + 1
      <4>1. fills[i].step <= Latest /\ Latest < f.step
        BY <2>3, <2>4, <2>7, <3>1
      <4>2. fills[i].step < f.step
        BY <2>3, <2>5, <2>8, <3>1, <4>1
      <4>3. QED
        BY <2>3, <2>5, <2>6, <3>1, <3>3, <4>2
    <3>4. QED
      BY <2>2, <2>9, <3>2, <3>3
  <2>10. QED
    BY <2>9 DEF PurchasesAscend
<1>4. \/ fills' = fills \/ FillSell
      \/ \E p \in wire : FillBuy(p)
  BY DEF Next, Algorithm, Buying, Selling, CloseZero, BuyZero, Wait, SkipStep, CloseBuy, CloseBuyIf,
         Buy, Unlock, Sell, CancelSmall, CancelFallen, CancelOrder, NoRequest, SubmitOrder,
         Trend, PostRate, Exchange, AnswerPost, KillBuy, RestSell, RefuseSell, TradeSell,
         ExecuteCancel, LoseCancel, HandleNews, ReportOpen, ReportFilled, ReportClosed,
         OutboundAccount, Receive, HandlePosted, MergeOpen, MergeHistory, MergeBalance,
         ForwardUpdate, UpdateMarketUserConfig, Deliver, Crash, StopAndStart, Start,
         exchangeVars, vars
<1>5. QED
  BY <1>1, <1>2, <1>3, <1>4

(* No step of the table buys twice in a cycle, as README.md:38 has it.  A  *)
(* timer that fires while the history is behind the reports would break it *)
(* (Step::executeBuyLogic).                                                *)
THEOREM OnePurchasePerStepHolds ==
  ASSUME Orderly, DistinctPercents
  PROVE  Spec => []OnePurchasePerStep
<1>1. Init => PurchasesAscend
  BY DEF Init, PurchasesAscend, Position
<1>2. CycleInv /\ PurchasesAscend /\ [Next]_vars => PurchasesAscend'
  BY CycleStep, AscendStep DEF CycleInv
<1>3. CycleInv /\ PurchasesAscend => OnePurchasePerStep
  <2>1. SUFFICES ASSUME CycleInv, PurchasesAscend,
                        NEW i \in Position, NEW j \in Position, fills[i].step = fills[j].step
                 PROVE  i = j
    BY DEF OnePurchasePerStep
  <2>2. i \in 1 .. Len(fills) /\ j \in 1 .. Len(fills) /\ fills \in Seq(Fill)
    BY <2>1, PositionTyped DEF CycleInv
  <2>3. fills[i].step \in Nat /\ fills[j].step \in Nat
    <3>1. fills[i] \in Fill /\ fills[j] \in Fill
      BY <2>2, ElementOfSeq
    <3>2. QED
      BY <3>1 DEF Fill, Steps
  <2>4. ~(i < j) /\ ~(j < i)
    BY <2>1, <2>3 DEF PurchasesAscend
  <2>5. QED
    BY <2>2, <2>4
<1>4. QED
  BY <1>1, <1>2, <1>3, CycleHolds, PTL DEF Spec
=============================================================================
