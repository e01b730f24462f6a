---------------------------- MODULE HanukkahProofs ----------------------------
(***************************************************************************)
(* Proofs about Hanukkah, for any table of steps and any rates.            *)
(*                                                                         *)
(* TypeInv adds to TypeOK what a step needs to stay within the types:      *)
(* every entry of the history stands for an execution of its own, a sell   *)
(* that rests locks no more than is held, and no two orders were created   *)
(* at once, so that the history has a newest entry.                        *)
(*                                                                         *)
(* RowFollows and TableFollows say what the row, the session and the       *)
(* updates under way have to do with the configuration.  They hold while a *)
(* timer does not fire before an update is merged.  KnowsSell says that    *)
(* the last that the bot heard, or will hear, of its balance and of its    *)
(* sell is true.                                                           *)
(***************************************************************************)
EXTENDS Hanukkah, SequenceTheorems, FiniteSetTheorems, TLAPS

OfKind(q, kind) == {k \in DOMAIN q : q[k].kind = kind}
Count(q, kind) == Cardinality(OfKind(q, kind))

(* Each execution is in the history, or on its way there.                  *)
HistoryCounted == history + Count(loop, "history") + Count(news, "filled") = Len(fills)

SellHeld == sellOrder.left <= held

(* Purchases are created when they are executed, sells when they come to   *)
(* rest, one after the other.                                              *)
BornInOrder ==
  /\ \A i \in DOMAIN fills :
       IF IsBuy(i) THEN fills[i].born = 2 * i
       ELSE \E k \in 0 .. i - 1 : fills[i].born = 2 * k + 1
  /\ \A i, j \in DOMAIN fills : IsSell(i) /\ IsSell(j) /\ i < j => Before(i, j)
  /\ sellOrder # NoOrder =>
       /\ \E k \in 0 .. Len(fills) : sellOrder.born = 2 * k + 1
       /\ \A i \in DOMAIN fills : IsSell(i) => fills[i].born < sellOrder.born

TypeInv == TypeOK /\ HistoryCounted /\ SellHeld /\ BornInOrder

-----------------------------------------------------------------------------
(* Sequences of events.                                                    *)

(* The events of a kind can be counted.                                    *)
LEMMA CountTyped ==
  ASSUME NEW S, NEW q \in Seq(S), NEW kind
  PROVE  IsFiniteSet(OfKind(q, kind)) /\ Count(q, kind) \in Nat
<1>1. OfKind(q, kind) \subseteq 1 .. Len(q) /\ IsFiniteSet(1 .. Len(q))
  BY FS_Interval DEF OfKind
<1>2. IsFiniteSet(OfKind(q, kind))
  BY <1>1, FS_Subset
<1>3. QED
  BY <1>2, FS_CardinalityType DEF Count

(* One event more of a kind, if it is of that kind.                        *)
LEMMA CountAppend ==
  ASSUME NEW S, NEW q \in Seq(S), NEW e \in S, NEW kind
  PROVE  Count(Append(q, e), kind) = Count(q, kind) + (IF e.kind = kind THEN 1 ELSE 0)
<1> DEFINE n == Len(q) + 1
<1>1. /\ DOMAIN Append(q, e) = 1 .. n /\ DOMAIN q = 1 .. Len(q) /\ Len(q) \in Nat
      /\ \A k \in 1 .. Len(q) : Append(q, e)[k] = q[k]
      /\ Append(q, e)[n] = e
  BY AppendProperties
<1>2. IsFiniteSet(OfKind(q, kind)) /\ Count(q, kind) \in Nat
  BY CountTyped
<1>3. CASE e.kind = kind
  <2>1. OfKind(Append(q, e), kind) = OfKind(q, kind) \cup {n}
    BY <1>1, <1>3 DEF OfKind
  <2>2. n \notin OfKind(q, kind)
    BY <1>1 DEF OfKind
  <2>3. QED
    BY ZenonT(40), <1>2, <1>3, <2>1, <2>2, FS_AddElement DEF Count
<1>4. CASE e.kind # kind
  <2>1. OfKind(Append(q, e), kind) = OfKind(q, kind)
    BY <1>1, <1>4 DEF OfKind
  <2>2. QED
    BY <1>2, <1>4, <2>1 DEF Count
<1>5. QED
  BY <1>3, <1>4

(* One event less, if the first is of that kind.                           *)
LEMMA CountTail ==
  ASSUME NEW S, NEW q \in Seq(S), q # <<>>, NEW kind
  PROVE  Count(q, kind) = Count(Tail(q), kind) + (IF Head(q).kind = kind THEN 1 ELSE 0)
<1> DEFINE rest == OfKind(Tail(q), kind)
           moved == {k + 1 : k \in rest}
           move == [k \in rest |-> k + 1]
<1>1. /\ DOMAIN q = 1 .. Len(q) /\ Len(q) \in Nat /\ Len(q) >= 1 /\ q[1] = Head(q)
      /\ Tail(q) \in Seq(S)
      /\ DOMAIN Tail(q) = 1 .. Len(q) - 1
      /\ \A k \in 1 .. Len(q) - 1 : Tail(q)[k] = q[k + 1]
  BY HeadTailProperties
<1>2. IsFiniteSet(rest) /\ Cardinality(rest) = Count(Tail(q), kind)
      /\ Cardinality(rest) \in Nat
  BY <1>1, CountTyped DEF Count
<1>3. rest \subseteq Nat
  BY <1>1 DEF OfKind
<1>4. IsFiniteSet(moved) /\ Cardinality(moved) = Cardinality(rest)
  <2>1. move \in Bijection(rest, moved)
    BY <1>3 DEF Bijection, Injection, Surjection, IsInjective
  <2>2. ExistsBijection(rest, moved)
    BY <2>1 DEF ExistsBijection
  <2>3. QED
    BY <1>2, <2>2, FS_Bijection
<1>5. \A k \in 2 .. Len(q) : k \in OfKind(q, kind) <=> k \in moved
  <2>1. ASSUME NEW k \in 2 .. Len(q)
        PROVE  k \in OfKind(q, kind) <=> k \in moved
    <3>1. k - 1 \in 1 .. Len(q) - 1 /\ Tail(q)[k - 1] = q[k]
      BY <1>1
    <3>2. k \in OfKind(q, kind) <=> k - 1 \in rest
      BY <1>1, <3>1 DEF OfKind
    <3>3. k \in moved <=> k - 1 \in rest
      BY <1>3
    <3>4. QED
      BY <3>2, <3>3
  <2>2. QED
    BY <2>1
<1>6. moved \subseteq 2 .. Len(q)
  BY <1>1 DEF OfKind
<1>7. CASE Head(q).kind = kind
  <2>1. OfKind(q, kind) = moved \cup {1} /\ 1 \notin moved
    BY <1>1, <1>5, <1>6, <1>7 DEF OfKind
  <2>2. QED
    BY ZenonT(40), <1>2, <1>4, <1>7, <2>1, FS_AddElement DEF Count
<1>8. CASE Head(q).kind # kind
  <2>1. OfKind(q, kind) = moved
    BY <1>1, <1>5, <1>6, <1>8 DEF OfKind
  <2>2. QED
    BY <1>2, <1>4, <1>8, <2>1 DEF Count
<1>9. QED
  BY <1>7, <1>8

(* No event, no count.                                                     *)
LEMMA CountEmpty ==
  ASSUME NEW kind
  PROVE  Count(<<>>, kind) = 0
<1>1. OfKind(<<>>, kind) = {}
  BY DEF OfKind
<1>2. QED
  BY <1>1, FS_EmptySet DEF Count

(* A set of numbers has a least one.                                       *)
LEMMA Least ==
  ASSUME NEW T, T \subseteq Nat, T # {}
  PROVE  \E x \in T : \A y \in T : x <= y
<1> DEFINE Below == {pair \in Nat \X Nat : pair[1] < pair[2]}
<1>1. IsWellFoundedOn(Below, Nat)
  BY NatLessThanWellFounded DEF OpToRel
<1>2. PICK x \in T : \A y \in T : ~(<<y, x>> \in Below)
  <2> HIDE DEF Below
  <2>1. \E x \in T : \A y \in T : ~(<<y, x>> \in Below)
    BY <1>1, WFMin
  <2>2. QED
    BY <2>1
<1>3. ASSUME NEW y \in T
      PROVE  x <= y
  <2>1. x \in Nat /\ y \in Nat /\ ~(<<y, x>> \in Below)
    BY <1>2
  <2>2. QED
    BY <2>1
<1>4. QED
  BY <1>3

-----------------------------------------------------------------------------
(* What the steps read.                                                    *)

(* The entries of the history were created one after the other, so that    *)
(* one is the newest.                                                      *)
LEMMA NewestTyped ==
  ASSUME TypeInv, history > 0
  PROVE  Newest \in Known /\ Newest \in Nat
<1>1. /\ fills \in Seq(Fill) /\ DOMAIN fills = 1 .. Len(fills) /\ Len(fills) \in Nat
      /\ history \in 1 .. Len(fills)
      /\ \A i \in Known : i \in DOMAIN fills /\ i \in Nat /\ fills[i] \in Fill
                          /\ fills[i].side \in Sides
  <2>1. fills \in Seq(Fill) /\ history \in 0 .. Len(fills)
    BY DEF TypeInv, TypeOK
  <2>2. DOMAIN fills = 1 .. Len(fills) /\ Len(fills) \in Nat
    BY <2>1
  <2>3. \A i \in DOMAIN fills : fills[i] \in Fill
    BY <2>1, <2>2, ElementOfSeq
  <2>4. history \in 1 .. Len(fills) /\ \A i \in Known : i \in DOMAIN fills /\ i \in Nat
    BY <2>1, <2>2 DEF Known
  <2>5. \A f \in Fill : f.side \in Sides
    BY DEF Fill
  <2>6. QED
    BY <2>1, <2>2, <2>3, <2>4, <2>5
<1>2. \A i \in Known : fills[i].born \in Nat /\ fills[i].born <= 2 * Len(fills)
  <2>1. SUFFICES ASSUME NEW i \in Known
                 PROVE  fills[i].born \in Nat /\ fills[i].born <= 2 * Len(fills)
    OBVIOUS
  <2>2. CASE IsBuy(i)
    <3>1. fills[i].born = 2 * i
      BY <1>1, <2>2 DEF TypeInv, BornInOrder
    <3>2. QED
      BY <1>1, <3>1 DEF Known
  <2>3. CASE ~IsBuy(i)
    <3>1. PICK k \in 0 .. i - 1 : fills[i].born = 2 * k + 1
      BY <1>1, <2>3 DEF TypeInv, BornInOrder
    <3>2. QED
      BY <1>1, <3>1 DEF Known
  <2>4. QED
    BY <2>2, <2>3
<1>3. \A i, j \in Known : i # j => fills[i].born # fills[j].born
  <2>1. SUFFICES ASSUME NEW i \in Known, NEW j \in Known, i < j
                 PROVE  fills[i].born # fills[j].born
    BY <1>1
  <2>2. CASE IsBuy(i) /\ IsBuy(j)
    BY <1>1, <2>1, <2>2 DEF TypeInv, BornInOrder
  <2>3. CASE ~IsBuy(i) /\ ~IsBuy(j)
    <3>1. IsSell(i) /\ IsSell(j)
      BY <1>1, <2>3 DEF IsBuy, IsSell, Sides
    <3>2. fills[i].born < fills[j].born
      BY <1>1, <2>1, <3>1 DEF TypeInv, BornInOrder, Before
    <3>3. QED
      BY <1>2, <3>2
  <2>4. CASE IsBuy(i) /\ ~IsBuy(j)
    <3>1. PICK k \in 0 .. j - 1 : fills[j].born = 2 * k + 1
      BY <1>1, <2>4 DEF TypeInv, BornInOrder
    <3>2. fills[i].born = 2 * i
      BY <1>1, <2>4 DEF TypeInv, BornInOrder
    <3>3. QED
      BY <1>1, <3>1, <3>2
  <2>5. CASE ~IsBuy(i) /\ IsBuy(j)
    <3>1. PICK k \in 0 .. i - 1 : fills[i].born = 2 * k + 1
      BY <1>1, <2>5 DEF TypeInv, BornInOrder
    <3>2. fills[j].born = 2 * j
      BY <1>1, <2>5 DEF TypeInv, BornInOrder
    <3>3. QED
      BY <1>1, <3>1, <3>2
  <2>6. QED
    BY <2>2, <2>3, <2>4, <2>5
<1>4. PICK i \in Known : \A j \in Known :
        2 * Len(fills) - fills[i].born <= 2 * Len(fills) - fills[j].born
  <2> DEFINE ages == {2 * Len(fills) - fills[i].born : i \in Known}
  <2>1. ages \subseteq Nat /\ ages # {}
    BY <1>1, <1>2 DEF Known
  <2>2. PICK x \in ages : \A y \in ages : x <= y
    BY <2>1, Least
  <2>3. QED
    BY <2>2
<1>5. \A j \in Known \ {i} : Before(j, i)
  <2>1. SUFFICES ASSUME NEW j \in Known \ {i}
                 PROVE  fills[j].born < fills[i].born
    BY DEF Before
  <2>2. fills[i].born # fills[j].born
    BY <1>3
  <2>3. QED
    BY <1>1, <1>2, <1>4, <2>2
<1>6. Newest \in Known
  BY <1>5 DEF Newest
<1>7. QED
  BY <1>1, <1>6

(* The row of a step is a row of the table.                                *)
LEMMA RowOfTyped ==
  ASSUME NEW s \in Steps
  PROVE  RowOf(s) \in Steps
<1> DEFINE T == {t \in Steps : Percents(t) = Percents(s)}
<1>1. Steps \subseteq Nat
  BY TableAssumption DEF Steps
<1>2. \E t \in T : \A u \in T : t <= u
  BY <1>1, Least
<1>3. \E t \in Steps : /\ Percents(t) = Percents(s)
                       /\ \A u \in Steps : Percents(u) = Percents(s) => t <= u
  BY <1>2
<1>4. QED
  BY <1>3 DEF RowOf

(* The configuration of a new pair is one.                                 *)
LEMMA NoFlagsTyped == NoFlags \in Flags /\ NewConfig \in UserConfig
BY DEF NoFlags, Flags, NewConfig, UserConfig

(* A session is made of the flags of the configuration.                    *)
LEMMA SessionOfTyped ==
  ASSUME NEW c \in UserConfig
  PROVE  SessionOf(c) \in StepGenerator
BY DEF SessionOf, UserConfig, StepGenerator

(* So is the session a tick works with, whichever it is.                   *)
LEMMA CurrentTyped ==
  ASSUME TypeOK
  PROVE  /\ Current \in StepGenerator /\ Current.now \in Flags
         /\ Current.now.buy \subseteq Steps /\ Current.now.sell \subseteq Steps
<1>1. Current \in StepGenerator
  BY SessionOfTyped DEF TypeOK, Current
<1>2. QED
  BY <1>1 DEF StepGenerator, Flags

(* Blocking a step.                                                        *)
LEMMA BlocksTyped ==
  ASSUME TypeOK, NEW s \in Steps
  PROVE  BlockBuy(s) \in Flags /\ BlockSell(s) \in Flags /\ BlockBoth(s) \in Flags
BY CurrentTyped DEF BlockBuy, BlockSell, BlockBoth, Flags

(* The configuration that a step leaves.                                   *)
LEMMA ConfigWithTyped ==
  ASSUME TypeOK, NEW s \in Steps, NEW flags \in Flags, NEW exec \in Nat, NEW start \in Nat
  PROVE  ConfigWith(s, flags, exec, start) \in UserConfig
<1>1. RowOf(s) \in Steps
  BY RowOfTyped
<1>2. config \in UserConfig /\ config.flags \in Flags
  BY DEF TypeOK, UserConfig
<1>3. /\ Written(config.flags.buy, s, flags.buy) \subseteq Steps
      /\ Written(config.flags.sell, s, flags.sell) \subseteq Steps
  BY <1>1, <1>2 DEF Written, Flags
<1>4. QED
  BY <1>2, <1>3 DEF ConfigWith, UserConfig, Flags

-----------------------------------------------------------------------------
(* The steps of the bot keep the types.                                    *)

(* What a tick or the trend changes.                                       *)
ConfigTyped ==
  /\ loop \in Seq(Merges \cup Updates)
  /\ config \in UserConfig
  /\ session \in StepGenerator
  /\ row \subseteq UserConfig
  /\ traded \in BOOLEAN

RequestsTyped == wire \subseteq Post /\ canceling \in BOOLEAN /\ posted \subseteq Sides

(* An update posted is no merge of a trade.                                *)
LEMMA PostedUpdate ==
  ASSUME TypeOK, NEW kind \in {"update", "forward"}, NEW c \in UserConfig,
         loop' = Append(loop, [kind |-> kind, config |-> c])
  PROVE  /\ loop' \in Seq(Merges \cup Updates)
         /\ Count(loop', "history") = Count(loop, "history")
<1> DEFINE e == [kind |-> kind, config |-> c]
<1>1. e \in Merges \cup Updates /\ e.kind # "history"
  BY DEF Updates
<1>2. loop \in Seq(Merges \cup Updates)
  BY DEF TypeOK
<1>3. loop' \in Seq(Merges \cup Updates)
  BY <1>1, <1>2, AppendProperties
<1>4. Count(loop', "history") = Count(loop, "history") + 0
  BY <1>1, <1>2, CountAppend
<1>5. Count(loop, "history") \in Nat
  BY <1>2, CountTyped
<1>6. QED
  BY <1>3, <1>4, <1>5

(* A step that changes the configuration keeps it typed.                   *)
LEMMA UpdateTyped ==
  ASSUME TypeOK, NEW flags \in Flags, NEW c \in UserConfig,
         NEW rows \in SUBSET UserConfig, Update(flags, c, rows)
  PROVE  ConfigTyped' /\ Count(loop', "history") = Count(loop, "history")
<1>1. session' \in StepGenerator
  BY CurrentTyped DEF Update, StepGenerator
<1>2. /\ loop' \in Seq(Merges \cup Updates)
      /\ Count(loop', "history") = Count(loop, "history")
  BY PostedUpdate DEF Update
<1>3. QED
  BY <1>1, <1>2 DEF Update, ConfigTyped, TypeOK

(* A step of the bot leaves the exchange and the storages alone.           *)
LEMMA BotKeeps ==
  ASSUME TypeInv, UNCHANGED <<exchangeVars, news, storageVars>>,
         ConfigTyped', RequestsTyped', Count(loop', "history") = Count(loop, "history")
  PROVE  TypeInv'
<1>1. TypeOK'
  BY DEF TypeInv, TypeOK, exchangeVars, storageVars, ConfigTyped, RequestsTyped
<1>2. HistoryCounted'
  <2>1. Count(news', "filled") = Count(news, "filled") /\ fills' = fills /\ history' = history
    BY DEF exchangeVars, storageVars
  <2>2. QED
    BY <2>1 DEF TypeInv, HistoryCounted
<1>3. SellHeld' /\ BornInOrder'
  BY DEF TypeInv, SellHeld, BornInOrder, exchangeVars, IsBuy, IsSell, Before
<1>4. QED
  BY <1>1, <1>2, <1>3 DEF TypeInv

(* So does every tick, whatever step it gives the turn.                    *)
LEMMA TicksTyped ==
  ASSUME TypeInv, Algorithm
  PROVE  TypeInv'
<1>1. TypeOK /\ config \in UserConfig /\ config.exec \in Nat /\ config.start \in Nat
      /\ balance.total \in Nat /\ balance.available \in Nat
      /\ config.exec + 1 \in Nat
  BY DEF TypeInv, TypeOK, UserConfig, Volumes
<1>2. 0 \in Steps
  BY TableAssumption DEF Steps
<1>3. ASSUME LooksAtIt
      PROVE  ConfigTyped' /\ Count(loop', "history") = Count(loop, "history")
  BY <1>1, <1>3, CurrentTyped DEF LooksAtIt, ConfigTyped, configVars, TypeOK
<1>4. ASSUME NEW s \in Steps, NEW flags \in Flags, NEW exec \in Nat, NEW start \in Nat,
             UpdateMarketMetaConfig(s, flags, exec, start)
      PROVE  ConfigTyped' /\ Count(loop', "history") = Count(loop, "history")
  <2>1. ConfigWith(s, flags, exec, start) \in UserConfig
    BY <1>1, ConfigWithTyped
  <2>2. QED
    BY <1>1, <1>4, <2>1, UpdateTyped DEF UpdateMarketMetaConfig
<1>5. ASSUME UnlockAllSteps
      PROVE  ConfigTyped' /\ Count(loop', "history") = Count(loop, "history")
  <2>1. [config EXCEPT !.flags = NoFlags, !.exec = 0, !.start = 0] \in UserConfig
    BY <1>1, NoFlagsTyped DEF UserConfig
  <2>2. QED
    BY <1>1, <1>5, <2>1, NoFlagsTyped, UpdateTyped DEF UnlockAllSteps, UnlockWith
<1>6. ASSUME NEW side \in Sides, NEW volume \in Nat, NEW s \in Steps, NEW over \in SUBSET Nat,
             SubmitOrder(side, volume, s, over)
      PROVE  RequestsTyped' /\ UNCHANGED <<exchangeVars, news, storageVars>>
  <2>1. [side |-> side, volume |-> volume, step |-> s, over |-> over] \in Post
    BY DEF Post, Volumes
  <2>2. QED
    BY <1>1, <1>6, <2>1 DEF SubmitOrder, RequestsTyped, TypeOK
<1>7. ASSUME NoRequest
      PROVE  RequestsTyped' /\ UNCHANGED <<exchangeVars, news, storageVars>>
  BY <1>1, <1>7 DEF NoRequest, requestVars, RequestsTyped, TypeOK
<1>8. ASSUME CancelOrder
      PROVE  RequestsTyped' /\ UNCHANGED <<exchangeVars, news, storageVars>>
  BY <1>1, <1>8 DEF CancelOrder, RequestsTyped, TypeOK
<1>9. \A s \in Steps : BlockBuy(s) \in Flags /\ BlockSell(s) \in Flags /\ BlockBoth(s) \in Flags
  BY <1>1, BlocksTyped
<1>10. CASE CloseZero
  <2>1. StartAt(Newest) \in Nat
    BY <1>1, <1>10, NewestTyped DEF CloseZero, StartAt
  <2>2. ConfigTyped' /\ Count(loop', "history") = Count(loop, "history")
    BY <1>1, <1>2, <1>4, <1>9, <1>10, <2>1 DEF CloseZero
  <2>3. QED
    BY <1>7, <1>10, <2>2, BotKeeps DEF CloseZero
<1>11. CASE BuyZero
  BY <1>2, <1>3, <1>6, <1>11, BotKeeps DEF BuyZero, Sides, TradeSum
<1>12. CASE Wait
  BY <1>3, <1>7, <1>12, BotKeeps DEF Wait
<1>13. ASSUME NEW s \in Steps, SkipStep(s) \/ CloseBuy(s)
       PROVE  TypeInv'
  <2>1. ConfigTyped' /\ Count(loop', "history") = Count(loop, "history")
    BY <1>1, <1>4, <1>9, <1>13 DEF SkipStep, CloseBuy, CloseBuyIf
  <2>2. QED
    BY <1>7, <1>13, <2>1, BotKeeps DEF SkipStep, CloseBuy, CloseBuyIf
<1>14. ASSUME NEW s \in Steps, Buy(s)
       PROVE  TypeInv'
  BY <1>1, <1>3, <1>6, <1>14, BotKeeps DEF Buy, Sides
<1>15. ASSUME NEW s \in Steps, Unlock(s)
       PROVE  TypeInv'
  BY <1>5, <1>7, <1>15, BotKeeps DEF Unlock
<1>16. ASSUME NEW s \in Steps, Sell(s)
       PROVE  TypeInv'
  <2>1. Averaged \in SUBSET Nat
    BY <1>1 DEF Averaged, Known, TypeOK
  <2>2. QED
    BY <1>1, <1>3, <1>6, <1>16, <2>1, BotKeeps DEF Sell, Sides
<1>17. ASSUME NEW s \in Steps, CancelSmall(s)
       PROVE  TypeInv'
  BY <1>3, <1>8, <1>17, BotKeeps DEF CancelSmall
<1>18. ASSUME NEW s \in Steps, CancelFallen(s)
       PROVE  TypeInv'
  <2>1. ConfigTyped' /\ Count(loop', "history") = Count(loop, "history")
    BY <1>1, <1>4, <1>9, <1>18 DEF CancelFallen
  <2>2. QED
    BY <1>8, <1>18, <2>1, BotKeeps DEF CancelFallen
<1>19. QED
  BY <1>10, <1>11, <1>12, <1>13, <1>14, <1>15, <1>16, <1>17, <1>18
     DEF Algorithm, Buying, Selling

(* So does the trend: it posts the configuration with another rate.        *)
LEMMA TrendTyped ==
  ASSUME TypeInv, Trend
  PROVE  TypeInv'
<1>1. PICK r \in Int : PostRate(r)
  BY RatesAssumption DEF Trend
<1>2. TypeOK /\ config \in UserConfig
  BY DEF TypeInv, TypeOK
<1>3. [config EXCEPT !.rate = r] \in UserConfig
  BY <1>2 DEF UserConfig
<1>4. /\ loop' \in Seq(Merges \cup Updates)
      /\ Count(loop', "history") = Count(loop, "history")
  BY <1>1, <1>2, <1>3, PostedUpdate DEF PostRate
<1>5. ConfigTyped' /\ RequestsTyped'
  BY <1>1, <1>2, <1>4 DEF PostRate, NoRequest, requestVars, configVars, ConfigTyped,
                          RequestsTyped, TypeOK
<1>6. QED
  BY <1>1, <1>4, <1>5, BotKeeps DEF PostRate, NoRequest

-----------------------------------------------------------------------------
(* The exchange keeps the types.                                           *)

(* A report and the balance after it.                                      *)
LEMMA TellEffect ==
  ASSUME TypeOK, NEW report \in Reports, NEW total \in Nat, NEW locked \in Nat,
         locked <= total, Tell(report, total, locked)
  PROVE  /\ news' \in Seq(Reports \cup Accounts)
         /\ Count(news', "filled") = Count(news, "filled")
                                     + (IF report.kind = "filled" THEN 1 ELSE 0)
<1> DEFINE account == [kind |-> "account", total |-> total, available |-> total - locked]
           Both == Reports \cup Accounts
           filled(e) == IF e.kind = "filled" THEN 1 ELSE 0
<1>1. account \in Both /\ report \in Both /\ account.kind # "filled"
  BY DEF Accounts, Volumes
<1>2. news \in Seq(Both) /\ Count(news, "filled") \in Nat
  BY CountTyped DEF TypeOK
<1>3. ASSUME NEW a \in Both, NEW b \in Both
      PROVE  /\ news \o <<a, b>> \in Seq(Both)
             /\ Count(news \o <<a, b>>, "filled")
                = Count(news, "filled") + filled(a) + filled(b)
  <2> HIDE DEF account, Both
  <2>1. news \o <<a, b>> = Append(Append(news, a), b)
    BY <1>2
  <2>2. Append(news, a) \in Seq(Both) /\ Append(Append(news, a), b) \in Seq(Both)
    BY <1>2, AppendProperties
  <2>3. Count(Append(news, a), "filled") = Count(news, "filled") + filled(a)
    BY <1>2, CountAppend
  <2>4. Count(Append(Append(news, a), b), "filled")
        = Count(Append(news, a), "filled") + filled(b)
    BY <2>2, CountAppend
  <2>5. QED
    BY <2>1, <2>2, <2>3, <2>4
<1>4. news' = news \o <<report, account>> \/ news' = news \o <<account, report>>
  BY DEF Tell
<1>5. filled(account) = 0 /\ filled(report) \in {0, 1}
  BY <1>1
<1> HIDE DEF account, Both, filled
<1>6. CASE news' = news \o <<report, account>>
  <2>1. /\ news' \in Seq(Both)
        /\ Count(news', "filled") = Count(news, "filled") + filled(report) + filled(account)
    BY <1>1, <1>3, <1>6
  <2>2. QED
    BY <1>2, <1>5, <2>1 DEF filled, Both
<1>7. CASE news' = news \o <<account, report>>
  <2>1. /\ news' \in Seq(Both)
        /\ Count(news', "filled") = Count(news, "filled") + filled(account) + filled(report)
    BY <1>1, <1>3, <1>7
  <2>2. QED
    BY <1>2, <1>5, <2>1 DEF filled, Both
<1>8. QED
  BY <1>4, <1>6, <1>7

(* One execution more.                                                     *)
LEMMA FillAppended ==
  ASSUME TypeInv, NEW f \in Fill, fills' = Append(fills, f)
  PROVE  /\ fills' \in Seq(Fill) /\ Len(fills) \in Nat /\ Len(fills') = Len(fills) + 1
         /\ DOMAIN fills = 1 .. Len(fills)
         /\ DOMAIN fills' = 1 .. Len(fills) + 1
         /\ \A i \in 1 .. Len(fills) : fills'[i] = fills[i] /\ fills[i].side \in Sides
         /\ fills'[Len(fills) + 1] = f
<1>1. fills \in Seq(Fill) /\ DOMAIN fills = 1 .. Len(fills) /\ Len(fills) \in Nat
  BY DEF TypeInv, TypeOK
<1>2. /\ fills' \in Seq(Fill) /\ Len(fills') = Len(fills) + 1
      /\ \A i \in 1 .. Len(fills) : fills'[i] = fills[i]
      /\ fills'[Len(fills) + 1] = f
  BY <1>1, AppendProperties
<1>3. DOMAIN fills' = 1 .. Len(fills) + 1
  BY <1>2
<1>4. \A i \in 1 .. Len(fills) : fills[i] \in Fill
  BY <1>1, ElementOfSeq
<1>5. \A g \in Fill : g.side \in Sides
  BY DEF Fill
<1>6. QED
  BY <1>1, <1>2, <1>3, <1>4, <1>5

(* The exchange does not touch the storages nor the configuration.         *)
LEMMA ExchangeKeeps ==
  ASSUME TypeInv, BotUnchanged, fills' \in Seq(Fill), held' \in Nat,
         sellOrder' \in SellOrder, wire' \subseteq Post, canceling' \in BOOLEAN,
         news' \in Seq(Reports \cup Accounts), posted' \subseteq Sides,
         Len(fills') - Count(news', "filled") = Len(fills) - Count(news, "filled"),
         SellHeld', BornInOrder'
  PROVE  TypeInv'
<1>1. /\ fills \in Seq(Fill) /\ Len(fills) \in Nat /\ Len(fills') \in Nat
      /\ news \in Seq(Reports \cup Accounts) /\ loop \in Seq(Merges \cup Updates)
      /\ history \in Nat
  BY DEF TypeInv, TypeOK
<1>2. /\ Count(news, "filled") \in Nat /\ Count(news', "filled") \in Nat
      /\ Count(loop, "history") \in Nat
  BY <1>1, CountTyped
<1>3. Count(loop', "history") = Count(loop, "history") /\ history' = history
  BY DEF BotUnchanged, storageVars
<1>4. HistoryCounted'
  <2>1. history + Count(loop, "history") + Count(news, "filled") = Len(fills)
    BY DEF TypeInv, HistoryCounted
  <2>2. history + Count(loop, "history") + Count(news', "filled") = Len(fills')
    BY SMTT(30), <1>1, <1>2, <2>1
  <2>3. QED
    BY <1>3, <2>2 DEF HistoryCounted
<1>5. history' \in 0 .. Len(fills')
  BY <1>1, <1>2, <1>3, <1>4 DEF HistoryCounted
<1>6. TypeOK'
  BY <1>5 DEF TypeInv, TypeOK, BotUnchanged, storageVars, configVars, Volumes
<1>7. QED
  BY <1>4, <1>6 DEF TypeInv

(* Executions, refusals and cancellations.                                 *)
LEMMA ExchangeTyped ==
  ASSUME TypeInv, Exchange
  PROVE  TypeInv'
<1>1. /\ TypeOK /\ fills \in Seq(Fill) /\ Len(fills) \in Nat
      /\ DOMAIN fills = 1 .. Len(fills) /\ held \in Nat
      /\ sellOrder \in SellOrder /\ sellOrder.left \in Nat /\ sellOrder.volume \in Nat
      /\ sellOrder.born \in Nat
      /\ wire \subseteq Post /\ canceling \in BOOLEAN /\ posted \subseteq Sides
      /\ news \in Seq(Reports \cup Accounts) /\ sellOrder.left <= held
  BY DEF TypeInv, TypeOK, SellOrder, Volumes, SellHeld
<1>2. Count(news, "filled") \in Nat
  BY <1>1, CountTyped
<1>3. NoOrder \in SellOrder /\ NoOrder.left = 0
  BY DEF NoOrder, SellOrder, Volumes
<1>4. ASSUME UNCHANGED exchangeVars
      PROVE  SellHeld' /\ BornInOrder'
  BY <1>4 DEF TypeInv, SellHeld, BornInOrder, exchangeVars, IsBuy, IsSell, Before
<1>5. ASSUME fills' = fills, sellOrder # NoOrder, sellOrder'.born = sellOrder.born
      PROVE  BornInOrder'
  BY <1>5 DEF TypeInv, BornInOrder, IsBuy, IsSell, Before
<1>6. ASSUME NEW p \in wire, FillBuy(p)
      PROVE  TypeInv'
  <2> DEFINE f == [side |-> "buy", volume |-> p.volume,
                   born |-> 2 * Len(fills) + 2, step |-> p.step]
             total == held + p.volume
             report == [kind |-> "filled", side |-> "buy"]
  <2>1. p.volume \in Nat /\ p.step \in Steps
    BY <1>1 DEF Post, Volumes
  <2>2. f \in Fill /\ total \in Nat /\ sellOrder.left <= total
    BY <1>1, <2>1 DEF Fill, Sides, Volumes
  <2>3. fills' = Append(fills, f) /\ held' = total /\ Tell(report, total, sellOrder.left)
        /\ UNCHANGED <<sellOrder, canceling, posted>> /\ BotUnchanged /\ wire' \subseteq wire
    BY <1>6 DEF FillBuy
  <2>4. report \in Reports /\ report.kind = "filled"
    BY DEF Reports, Sides
  <2>5. /\ news' \in Seq(Reports \cup Accounts)
        /\ Count(news', "filled") = Count(news, "filled") + 1
    <3> HIDE DEF report, total
    <3>1. QED
      BY <1>1, <2>2, <2>3, <2>4, TellEffect
  <2>6. /\ fills' \in Seq(Fill) /\ Len(fills') = Len(fills) + 1
        /\ DOMAIN fills' = 1 .. Len(fills) + 1
        /\ \A i \in 1 .. Len(fills) : fills'[i] = fills[i] /\ fills[i].side \in Sides
        /\ fills'[Len(fills) + 1] = f
    <3> HIDE DEF f
    <3>1. QED
      BY <2>2, <2>3, FillAppended
  <2>7. BornInOrder'
    <3>1. \A i \in DOMAIN fills' :
            IF (fills'[i]).side = "buy" THEN (fills'[i]).born = 2 * i
            ELSE \E k \in 0 .. i - 1 : (fills'[i]).born = 2 * k + 1
      <4>1. SUFFICES ASSUME NEW i \in 1 .. Len(fills) + 1
                     PROVE  IF (fills'[i]).side = "buy" THEN (fills'[i]).born = 2 * i
                            ELSE \E k \in 0 .. i - 1 : (fills'[i]).born = 2 * k + 1
        BY <2>6
      <4>2. CASE i = Len(fills) + 1
        BY <1>1, <2>6, <4>2
      <4>3. CASE i \in 1 .. Len(fills)
        BY <1>1, <2>6, <4>3 DEF TypeInv, BornInOrder, IsBuy
      <4>4. QED
        BY <1>1, <4>2, <4>3
    <3>2. \A i, j \in DOMAIN fills' :
            (fills'[i]).side = "sell" /\ (fills'[j]).side = "sell" /\ i < j
              => (fills'[i]).born < (fills'[j]).born
      <4>1. \A i \in DOMAIN fills' : (fills'[i]).side = "sell" => i \in 1 .. Len(fills)
        BY <1>1, <2>6
      <4>2. QED
        BY <1>1, <2>6, <4>1 DEF TypeInv, BornInOrder, IsSell, Before
    <3>3. sellOrder' # NoOrder =>
            /\ \E k \in 0 .. Len(fills') : sellOrder'.born = 2 * k + 1
            /\ \A i \in DOMAIN fills' :
                 (fills'[i]).side = "sell" => (fills'[i]).born < sellOrder'.born
      <4>1. \A i \in DOMAIN fills' : (fills'[i]).side = "sell" => i \in 1 .. Len(fills)
        BY <1>1, <2>6
      <4>2. QED
        BY <1>1, <2>3, <2>6, <4>1 DEF TypeInv, BornInOrder, IsSell
    <3>4. QED
      BY <3>1, <3>2, <3>3 DEF BornInOrder, IsBuy, IsSell, Before
  <2>8. SellHeld'
    BY <2>2, <2>3 DEF SellHeld
  <2>9. Len(fills') - Count(news', "filled") = Len(fills) - Count(news, "filled")
    BY <1>1, <1>2, <2>5, <2>6
  <2>10. held' \in Nat /\ sellOrder' \in SellOrder /\ wire' \subseteq Post
         /\ canceling' \in BOOLEAN /\ posted' \subseteq Sides
    BY <1>1, <2>2, <2>3
  <2>11. QED
    BY <2>3, <2>5, <2>6, <2>7, <2>8, <2>9, <2>10, ExchangeKeeps
<1>7. ASSUME NEW p \in wire, KillBuy(p) \/ RefuseSell(p)
      PROVE  TypeInv'
  <2>1. /\ UNCHANGED <<exchangeVars, canceling, news>> /\ BotUnchanged
        /\ wire' \subseteq wire /\ posted' \subseteq posted
    BY <1>7 DEF KillBuy, RefuseSell
  <2>2. QED
    BY <1>1, <1>2, <1>4, <2>1, ExchangeKeeps DEF exchangeVars
<1>8. CASE LoseCancel
  <2>1. /\ UNCHANGED <<exchangeVars, wire, news, posted>> /\ BotUnchanged
        /\ canceling' \in BOOLEAN
    BY <1>8 DEF LoseCancel
  <2>2. SellHeld' /\ BornInOrder'
    BY <1>4, <2>1
  <2>3. /\ fills' = fills /\ held' = held /\ sellOrder' = sellOrder /\ wire' = wire
        /\ news' = news /\ posted' = posted
    BY <2>1 DEF exchangeVars
  <2>4. QED
    BY <1>1, <1>2, <2>1, <2>2, <2>3, ExchangeKeeps
<1>9. ASSUME NEW p \in wire, RestSell(p)
      PROVE  TypeInv'
  <2> DEFINE report == [kind |-> "open", volume |-> p.volume]
  <2>1. p.volume \in Nat /\ p.over \in SUBSET Nat
    BY <1>1 DEF Post, Volumes
  <2>2. p.volume <= held
    BY <1>1, <1>9, <2>1 DEF RestSell, Free
  <2>3. /\ sellOrder' = [volume |-> p.volume, left |-> p.volume,
                         born |-> 2 * Len(fills) + 1, over |-> p.over]
        /\ Tell(report, held, p.volume)
        /\ UNCHANGED <<fills, held, canceling, posted>> /\ BotUnchanged /\ wire' \subseteq wire
    BY <1>9 DEF RestSell
  <2>4. report \in Reports /\ report.kind # "filled"
    BY <2>1 DEF Reports, Volumes
  <2>5. /\ news' \in Seq(Reports \cup Accounts)
        /\ Count(news', "filled") = Count(news, "filled") + 0
    <3> HIDE DEF report
    <3>1. QED
      BY <1>1, <2>1, <2>2, <2>3, <2>4, TellEffect
  <2>6. sellOrder' \in SellOrder /\ sellOrder'.left <= held
    BY <1>1, <2>1, <2>2, <2>3 DEF SellOrder, Volumes
  <2>7. BornInOrder'
    <3>1. \A i \in DOMAIN fills : IsSell(i) => fills[i].born < 2 * Len(fills) + 1
      <4>1. SUFFICES ASSUME NEW i \in 1 .. Len(fills), IsSell(i)
                     PROVE  fills[i].born < 2 * Len(fills) + 1
        BY <1>1
      <4>2. PICK k \in 0 .. i - 1 : fills[i].born = 2 * k + 1
        BY <1>1, <4>1 DEF TypeInv, BornInOrder, IsBuy, IsSell
      <4>3. QED
        BY <1>1, <4>2
    <3>2. /\ \E k \in 0 .. Len(fills') : sellOrder'.born = 2 * k + 1
          /\ \A i \in DOMAIN fills' : IsSell(i)' => (fills'[i]).born < sellOrder'.born
      BY <1>1, <2>3, <3>1 DEF IsSell
    <3>3. QED
      BY <2>3, <3>2 DEF TypeInv, BornInOrder, IsBuy, IsSell, Before
  <2>8. QED
    BY <1>1, <1>2, <2>3, <2>5, <2>6, <2>7, ExchangeKeeps DEF SellHeld
<1>10. CASE TradeSell
  <2> DEFINE report == [kind |-> "open", volume |-> sellOrder.volume]
             rest == sellOrder.left \div 2
             total == held - sellOrder.left + rest
  <2>1. rest \in Nat /\ rest <= sellOrder.left
    BY <1>1
  <2>2. total \in Nat /\ rest <= total
    BY <1>1, <2>1
  <2>3. sellOrder' = [sellOrder EXCEPT !.left = rest] /\ sellOrder # NoOrder
    BY <1>10 DEF TradeSell
  <2>4. sellOrder'.left = rest /\ sellOrder' \in SellOrder /\ sellOrder'.born = sellOrder.born
    BY <1>1, <2>1, <2>3 DEF SellOrder, Volumes
  <2>5. /\ held' = total /\ Tell(report, total, rest)
        /\ UNCHANGED <<fills, requestVars, posted>> /\ BotUnchanged
    BY <1>10, <2>4 DEF TradeSell
  <2>6. report \in Reports /\ report.kind # "filled"
    BY <1>1 DEF Reports, Volumes
  <2>7. /\ news' \in Seq(Reports \cup Accounts)
        /\ Count(news', "filled") = Count(news, "filled") + 0
    <3> HIDE DEF report, total, rest
    <3>1. QED
      BY <1>1, <2>1, <2>2, <2>5, <2>6, TellEffect
  <2>8. SellHeld' /\ BornInOrder'
    BY <1>5, <2>2, <2>3, <2>4, <2>5 DEF SellHeld
  <2>9. QED
    BY <1>1, <1>2, <2>2, <2>4, <2>5, <2>7, <2>8, ExchangeKeeps DEF requestVars
<1>11. CASE FillSell
  <2> DEFINE f == [side |-> "sell", volume |-> sellOrder.volume,
                   born |-> sellOrder.born, step |-> 0]
             total == held - sellOrder.left
             report == [kind |-> "filled", side |-> "sell"]
  <2>1. f \in Fill /\ total \in Nat
    BY <1>1, TableAssumption DEF Fill, Sides, Volumes, Steps
  <2>2. /\ fills' = Append(fills, f) /\ held' = total /\ Tell(report, total, 0)
        /\ sellOrder # NoOrder /\ sellOrder' = NoOrder /\ canceling' = FALSE
        /\ UNCHANGED <<wire, posted>> /\ BotUnchanged
    BY <1>11 DEF FillSell
  <2>3. report \in Reports /\ report.kind = "filled"
    BY DEF Reports, Sides
  <2>4. /\ news' \in Seq(Reports \cup Accounts)
        /\ Count(news', "filled") = Count(news, "filled") + 1
    <3> HIDE DEF report, total
    <3>1. QED
      BY <1>1, <2>1, <2>2, <2>3, TellEffect
  <2>5. /\ fills' \in Seq(Fill) /\ Len(fills') = Len(fills) + 1
        /\ DOMAIN fills' = 1 .. Len(fills) + 1
        /\ \A i \in 1 .. Len(fills) : fills'[i] = fills[i] /\ fills[i].side \in Sides
        /\ fills'[Len(fills) + 1] = f
    <3> HIDE DEF f
    <3>1. QED
      BY <2>1, <2>2, FillAppended
  <2>6. /\ \E k \in 0 .. Len(fills) : sellOrder.born = 2 * k + 1
        /\ \A i \in 1 .. Len(fills) : IsSell(i) => fills[i].born < sellOrder.born
    BY <1>1, <2>2 DEF TypeInv, BornInOrder
  <2>7. BornInOrder'
    <3>1. \A i \in DOMAIN fills' :
            IF (fills'[i]).side = "buy" THEN (fills'[i]).born = 2 * i
            ELSE \E k \in 0 .. i - 1 : (fills'[i]).born = 2 * k + 1
      <4>1. SUFFICES ASSUME NEW i \in 1 .. Len(fills) + 1
                     PROVE  IF (fills'[i]).side = "buy" THEN (fills'[i]).born = 2 * i
                            ELSE \E k \in 0 .. i - 1 : (fills'[i]).born = 2 * k + 1
        BY <2>5
      <4>2. CASE i = Len(fills) + 1
        BY <1>1, <2>5, <2>6, <4>2
      <4>3. CASE i \in 1 .. Len(fills)
        BY <1>1, <2>5, <4>3 DEF TypeInv, BornInOrder, IsBuy
      <4>4. QED
        BY <1>1, <4>2, <4>3
    <3>2. \A i, j \in DOMAIN fills' :
            (fills'[i]).side = "sell" /\ (fills'[j]).side = "sell" /\ i < j
              => (fills'[i]).born < (fills'[j]).born
      <4>1. SUFFICES ASSUME NEW i \in 1 .. Len(fills) + 1, NEW j \in 1 .. Len(fills) + 1,
                            (fills'[i]).side = "sell", (fills'[j]).side = "sell", i < j
                     PROVE  (fills'[i]).born < (fills'[j]).born
        BY <2>5
      <4>2. i \in 1 .. Len(fills) /\ IsSell(i)
        BY <1>1, <2>5, <4>1 DEF IsSell
      <4>3. CASE j = Len(fills) + 1
        BY <2>5, <2>6, <4>2, <4>3
      <4>4. CASE j \in 1 .. Len(fills)
        BY <1>1, <2>5, <4>1, <4>2, <4>4 DEF TypeInv, BornInOrder, IsSell, Before
      <4>5. QED
        BY <1>1, <4>3, <4>4
    <3>3. QED
      BY <2>2, <3>1, <3>2 DEF BornInOrder, IsBuy, IsSell, Before
  <2>8. SellHeld'
    BY <1>3, <2>1, <2>2 DEF SellHeld
  <2>9. /\ held' \in Nat /\ sellOrder' \in SellOrder /\ wire' = wire /\ posted' = posted
        /\ canceling' \in BOOLEAN /\ BotUnchanged
    BY <1>3, <2>1, <2>2
  <2>10. Len(fills') - Count(news', "filled") = Len(fills) - Count(news, "filled")
    BY <1>1, <1>2, <2>4, <2>5
  <2>11. QED
    BY <1>1, <2>4, <2>5, <2>7, <2>8, <2>9, <2>10, ExchangeKeeps
<1>12. CASE ExecuteCancel
  <2> DEFINE report == [kind |-> "closed"]
  <2>1. /\ canceling' = FALSE /\ sellOrder' = NoOrder /\ Tell(report, held, 0)
        /\ UNCHANGED <<fills, held, wire, posted>> /\ BotUnchanged
    BY <1>12 DEF ExecuteCancel
  <2>2. report \in Reports /\ report.kind # "filled"
    BY DEF Reports
  <2>3. /\ news' \in Seq(Reports \cup Accounts)
        /\ Count(news', "filled") = Count(news, "filled") + 0
    <3> HIDE DEF report
    <3>1. QED
      BY <1>1, <2>1, <2>2, TellEffect
  <2>4. /\ fills' = fills /\ held' = held /\ sellOrder' = NoOrder /\ canceling' = FALSE
        /\ wire' = wire /\ posted' = posted /\ BotUnchanged
    BY <2>1
  <2>5. BornInOrder'
    BY <2>4 DEF TypeInv, BornInOrder, IsBuy, IsSell, Before
  <2>6. SellHeld'
    BY <1>1, <1>3, <2>4 DEF SellHeld
  <2>7. Len(fills') - Count(news', "filled") = Len(fills) - Count(news, "filled")
    BY <1>1, <1>2, <2>3, <2>4
  <2>8. QED
    BY <1>1, <1>3, <2>3, <2>4, <2>5, <2>6, <2>7, ExchangeKeeps
<1>13. QED
  BY <1>6, <1>7, <1>8, <1>9, <1>10, <1>11, <1>12 DEF Exchange, AnswerPost

-----------------------------------------------------------------------------
(* The handlers keep the types.                                            *)

(* A message received is one message less.                                 *)
LEMMA ReceiveEffect ==
  ASSUME TypeOK, NEW kind, Receive(kind)
  PROVE  /\ Head(news) \in Reports \cup Accounts /\ Head(news).kind = kind
         /\ news' \in Seq(Reports \cup Accounts)
         /\ Count(news, "filled") = Count(news', "filled")
                                    + (IF kind = "filled" THEN 1 ELSE 0)
<1>1. news \in Seq(Reports \cup Accounts) /\ news # <<>> /\ news' = Tail(news)
      /\ Head(news).kind = kind
  BY DEF TypeOK, Receive
<1>2. Head(news) \in Reports \cup Accounts /\ news' \in Seq(Reports \cup Accounts)
  BY <1>1, HeadTailProperties
<1>3. Count(news, "filled") = Count(Tail(news), "filled")
                              + (IF Head(news).kind = "filled" THEN 1 ELSE 0)
  BY <1>1, CountTail
<1>4. QED
  BY <1>1, <1>2, <1>3

(* A handler takes from what is on its way to the history what it adds.    *)
LEMMA HandlerKeeps ==
  ASSUME TypeInv, UNCHANGED <<exchangeVars, requestVars, row, traded, session>>,
         news' \in Seq(Reports \cup Accounts), loop' \in Seq(Merges \cup Updates),
         posted' \subseteq Sides, history' \in Nat, openSell' \in Nat,
         balance' \in [total : Volumes, available : Volumes], config' \in UserConfig,
         history' + Count(loop', "history") + Count(news', "filled")
           = history + Count(loop, "history") + Count(news, "filled")
  PROVE  TypeInv'
<1>1. /\ fills' = fills /\ Len(fills) \in Nat /\ history \in Nat
      /\ news \in Seq(Reports \cup Accounts) /\ loop \in Seq(Merges \cup Updates)
  BY DEF TypeInv, TypeOK, exchangeVars
<1>2. /\ Count(news, "filled") \in Nat /\ Count(news', "filled") \in Nat
      /\ Count(loop, "history") \in Nat /\ Count(loop', "history") \in Nat
  BY <1>1, CountTyped
<1>3. history + Count(loop, "history") + Count(news, "filled") = Len(fills)
  BY DEF TypeInv, HistoryCounted
<1>4. history' + Count(loop', "history") + Count(news', "filled") = Len(fills')
  BY SMTT(30), <1>1, <1>2, <1>3
<1>5. HistoryCounted' /\ history' \in 0 .. Len(fills')
  BY SMTT(30), <1>1, <1>2, <1>4 DEF HistoryCounted
<1>6. TypeOK'
  BY <1>5 DEF TypeInv, TypeOK, exchangeVars, requestVars, Volumes
<1>7. SellHeld' /\ BornInOrder'
  BY DEF TypeInv, SellHeld, BornInOrder, exchangeVars, IsBuy, IsSell, Before
<1>8. QED
  BY <1>5, <1>6, <1>7 DEF TypeInv

(* Each report is handled as it comes from the stream.                     *)
LEMMA NewsTyped ==
  ASSUME TypeInv, HandleNews
  PROVE  TypeInv'
<1>1. /\ TypeOK /\ news \in Seq(Reports \cup Accounts) /\ loop \in Seq(Merges \cup Updates)
      /\ posted \subseteq Sides /\ history \in Nat /\ openSell \in Nat
      /\ balance \in [total : Volumes, available : Volumes] /\ config \in UserConfig
  BY DEF TypeInv, TypeOK, Volumes
<1>2. /\ Count(news, "filled") \in Nat /\ Count(loop, "history") \in Nat
      /\ (news' \in Seq(Reports \cup Accounts) => Count(news', "filled") \in Nat)
  BY <1>1, CountTyped
<1>3. ASSUME NEW e \in Merges, loop' = Append(loop, e)
      PROVE  /\ loop' \in Seq(Merges \cup Updates)
             /\ Count(loop', "history") = Count(loop, "history")
                                          + (IF e.kind = "history" THEN 1 ELSE 0)
  <2>1. e \in Merges \cup Updates
    OBVIOUS
  <2>2. loop' \in Seq(Merges \cup Updates)
    BY <1>1, <1>3, <2>1, AppendProperties
  <2>3. Count(Append(loop, e), "history") = Count(loop, "history")
                                            + (IF e.kind = "history" THEN 1 ELSE 0)
    BY <1>1, <2>1, CountAppend
  <2>4. QED
    BY <1>3, <2>2, <2>3
<1>4. ASSUME NEW kind, Receive(kind)
      PROVE  UNCHANGED <<exchangeVars, requestVars, row, traded, session>> /\ config' = config
  BY <1>4 DEF Receive, configVars
<1>5. CASE ReportOpen
  <2>1. Receive("open") /\ loop' = Append(loop, Head(news)) /\ UNCHANGED storageVars
        /\ posted' \subseteq posted
    BY <1>5 DEF ReportOpen
  <2>2. /\ Head(news) \in Reports \cup Accounts /\ Head(news).kind = "open"
        /\ news' \in Seq(Reports \cup Accounts)
        /\ Count(news, "filled") = Count(news', "filled") + 0
    BY <1>1, <2>1, ReceiveEffect
  <2>3. Head(news) \in Merges
    BY <2>2 DEF Reports, Accounts, Merges
  <2>4. /\ loop' \in Seq(Merges \cup Updates)
        /\ Count(loop', "history") = Count(loop, "history") + 0
    BY <1>3, <2>1, <2>2, <2>3
  <2>5. history' = history /\ openSell' = openSell /\ balance' = balance
    BY <2>1 DEF storageVars
  <2>6. QED
    BY <1>1, <1>2, <1>4, <2>1, <2>2, <2>4, <2>5, HandlerKeeps
<1>6. CASE ReportFilled
  <2> DEFINE e == [kind |-> "history"]
  <2>1. Receive("filled") /\ loop' = Append(loop, e) /\ history' = history
        /\ balance' = balance /\ posted' \subseteq posted
    BY <1>6 DEF ReportFilled
  <2>2. openSell' \in Nat
    BY <1>1, <1>6 DEF ReportFilled, RemoveOrder
  <2>3. /\ news' \in Seq(Reports \cup Accounts)
        /\ Count(news, "filled") = Count(news', "filled") + 1
    BY <1>1, <2>1, ReceiveEffect
  <2>4. e \in Merges /\ e.kind = "history"
    BY DEF Merges
  <2>5. /\ loop' \in Seq(Merges \cup Updates)
        /\ Count(loop', "history") = Count(loop, "history") + 1
    <3> HIDE DEF e
    <3>1. QED
      BY <1>3, <2>1, <2>4
  <2>6. history' + Count(loop', "history") + Count(news', "filled")
        = history + Count(loop, "history") + Count(news, "filled")
    <3>1. history' = history /\ history \in Nat
      BY <1>1, <1>6 DEF ReportFilled
    <3>2. Count(news', "filled") \in Nat /\ Count(loop, "history") \in Nat
      BY <1>1, <2>3, CountTyped
    <3>3. QED
      BY <2>3, <2>5, <3>1, <3>2
  <2>7. QED
    BY <1>1, <1>2, <1>4, <2>1, <2>2, <2>3, <2>5, <2>6, HandlerKeeps
<1>7. CASE ReportClosed
  <2>1. Receive("closed") /\ UNCHANGED <<loop, posted, history, balance>> /\ openSell' = 0
    BY <1>7 DEF ReportClosed, RemoveOrder
  <2>2. /\ news' \in Seq(Reports \cup Accounts)
        /\ Count(news, "filled") = Count(news', "filled") + 0
    BY <1>1, <2>1, ReceiveEffect
  <2>3. Count(loop', "history") = Count(loop, "history")
    BY <2>1
  <2>4. QED
    BY <1>1, <1>2, <1>4, <2>1, <2>2, <2>3, HandlerKeeps
<1>8. CASE OutboundAccount
  <2>1. Receive("account") /\ loop' = Append(loop, Head(news))
        /\ UNCHANGED <<posted, storageVars>>
    BY <1>8 DEF OutboundAccount
  <2>2. /\ Head(news) \in Reports \cup Accounts /\ Head(news).kind = "account"
        /\ news' \in Seq(Reports \cup Accounts)
        /\ Count(news, "filled") = Count(news', "filled") + 0
    BY <1>1, <2>1, ReceiveEffect
  <2>3. Head(news) \in Merges
    BY <2>2 DEF Reports, Accounts, Merges
  <2>4. /\ loop' \in Seq(Merges \cup Updates)
        /\ Count(loop', "history") = Count(loop, "history") + 0
    BY <1>3, <2>1, <2>2, <2>3
  <2>5. history' = history /\ openSell' = openSell /\ balance' = balance
    BY <2>1 DEF storageVars
  <2>6. QED
    BY <1>1, <1>2, <1>4, <2>1, <2>2, <2>4, <2>5, HandlerKeeps
<1>9. QED
  BY <1>5, <1>6, <1>7, <1>8 DEF HandleNews

(* What is delivered is the first event of the loop.                       *)
LEMMA DeliverEffect ==
  ASSUME TypeOK, NEW kind, Deliver(kind)
  PROVE  /\ Head(loop) \in Merges \cup Updates /\ Head(loop).kind = kind
         /\ loop # <<>>
         /\ Tail(loop) \in Seq(Merges \cup Updates)
         /\ Count(loop, "history") = Count(Tail(loop), "history")
                                     + (IF kind = "history" THEN 1 ELSE 0)
<1>1. loop \in Seq(Merges \cup Updates) /\ loop # <<>> /\ Head(loop).kind = kind
  BY DEF TypeOK, Deliver
<1>2. Head(loop) \in Merges \cup Updates /\ Tail(loop) \in Seq(Merges \cup Updates)
  BY <1>1, HeadTailProperties
<1>3. Count(loop, "history") = Count(Tail(loop), "history")
                               + (IF Head(loop).kind = "history" THEN 1 ELSE 0)
  BY <1>1, CountTail
<1>4. QED
  BY <1>1, <1>2, <1>3

(* Merges and updates, as the loop delivers them.                          *)
LEMMA PostedTyped ==
  ASSUME TypeInv, HandlePosted
  PROVE  TypeInv'
<1>1. /\ TypeOK /\ news \in Seq(Reports \cup Accounts) /\ loop \in Seq(Merges \cup Updates)
      /\ posted \subseteq Sides /\ history \in Nat /\ openSell \in Nat
      /\ balance \in [total : Volumes, available : Volumes] /\ config \in UserConfig
  BY DEF TypeInv, TypeOK, Volumes
<1>2. /\ Count(news, "filled") \in Nat /\ Count(loop, "history") \in Nat
      /\ (Tail(loop) \in Seq(Merges \cup Updates) => Count(Tail(loop), "history") \in Nat)
  BY <1>1, CountTyped
<1>3. ASSUME NEW kind, Deliver(kind)
      PROVE  UNCHANGED <<exchangeVars, requestVars, news, posted, row, traded, session>>
             /\ Count(news', "filled") = Count(news, "filled")
  BY <1>3 DEF Deliver
<1>4. CASE MergeOpen
  <2>1. Deliver("open") /\ loop' = Tail(loop) /\ openSell' = Head(loop).volume
        /\ UNCHANGED <<history, balance, config>>
    BY <1>4 DEF MergeOpen
  <2>2. /\ Head(loop) \in Merges \cup Updates /\ Head(loop).kind = "open"
        /\ Tail(loop) \in Seq(Merges \cup Updates)
        /\ Count(loop, "history") = Count(Tail(loop), "history") + 0
    BY <1>1, <2>1, DeliverEffect
  <2>3. openSell' \in Nat
    BY <2>1, <2>2 DEF Merges, Updates, Accounts, Volumes
  <2>4. QED
    BY <1>1, <1>2, <1>3, <2>1, <2>2, <2>3, HandlerKeeps
<1>5. CASE MergeHistory
  <2>1. Deliver("history") /\ loop' = Tail(loop) /\ history' = history + 1
        /\ UNCHANGED <<balance, openSell, config>>
    BY <1>5 DEF MergeHistory
  <2>2. /\ Tail(loop) \in Seq(Merges \cup Updates)
        /\ Count(loop, "history") = Count(Tail(loop), "history") + 1
    BY <1>1, <2>1, DeliverEffect
  <2>3. history' + Count(loop', "history") = history + Count(loop, "history")
    <3>1. Count(Tail(loop), "history") \in Nat /\ history \in Nat
      BY <1>1, <2>2, CountTyped
    <3>2. QED
      BY <2>1, <2>2, <3>1
  <2>4. history' \in Nat
    BY <1>1, <2>1
  <2>5. QED
    BY <1>1, <1>2, <1>3, <2>1, <2>2, <2>3, <2>4, HandlerKeeps
<1>6. CASE MergeBalance
  <2>1. Deliver("account") /\ loop' = Tail(loop)
        /\ balance' = [total |-> Head(loop).total, available |-> Head(loop).available]
        /\ UNCHANGED <<history, openSell, config>>
    BY <1>6 DEF MergeBalance
  <2>2. /\ Head(loop) \in Merges \cup Updates /\ Head(loop).kind = "account"
        /\ Tail(loop) \in Seq(Merges \cup Updates)
        /\ Count(loop, "history") = Count(Tail(loop), "history") + 0
    BY <1>1, <2>1, DeliverEffect
  <2>3. Head(loop) \in Accounts
    BY <2>2 DEF Merges, Updates
  <2>4. balance' \in [total : Volumes, available : Volumes]
    BY <2>1, <2>3 DEF Accounts
  <2>5. QED
    BY <1>1, <1>2, <1>3, <2>1, <2>2, <2>4, HandlerKeeps
<1>7. CASE ForwardUpdate
  <2> DEFINE e == [kind |-> "update", config |-> Head(loop).config]
  <2>1. Deliver("forward") /\ loop' = Append(Tail(loop), e)
        /\ UNCHANGED <<storageVars, config>>
    BY <1>7 DEF ForwardUpdate
  <2>2. /\ Head(loop) \in Merges \cup Updates /\ Head(loop).kind = "forward"
        /\ Tail(loop) \in Seq(Merges \cup Updates)
        /\ Count(loop, "history") = Count(Tail(loop), "history") + 0
    BY <1>1, <2>1, DeliverEffect
  <2>3. e \in Merges \cup Updates /\ e.kind # "history"
    BY <2>2 DEF Merges, Updates, Accounts
  <2>4. /\ loop' \in Seq(Merges \cup Updates)
        /\ Count(loop', "history") = Count(Tail(loop), "history") + 0
    <3> HIDE DEF e
    <3>1. Append(Tail(loop), e) \in Seq(Merges \cup Updates)
      BY <2>2, <2>3, AppendProperties
    <3>2. Count(Append(Tail(loop), e), "history")
          = Count(Tail(loop), "history") + (IF e.kind = "history" THEN 1 ELSE 0)
      BY <2>2, <2>3, CountAppend
    <3>3. QED
      BY <2>1, <2>3, <3>1, <3>2
  <2>5. history' = history /\ openSell' = openSell /\ balance' = balance
    BY <2>1 DEF storageVars
  <2>6. QED
    BY <1>1, <1>2, <1>3, <2>1, <2>2, <2>4, <2>5, HandlerKeeps
<1>8. CASE UpdateMarketUserConfig
  <2>1. Deliver("update") /\ loop' = Tail(loop) /\ config' = Head(loop).config
        /\ UNCHANGED storageVars
    BY <1>8 DEF UpdateMarketUserConfig
  <2>2. /\ Head(loop) \in Merges \cup Updates /\ Head(loop).kind = "update"
        /\ Tail(loop) \in Seq(Merges \cup Updates)
        /\ Count(loop, "history") = Count(Tail(loop), "history") + 0
    BY <1>1, <2>1, DeliverEffect
  <2>3. config' \in UserConfig
    BY <2>1, <2>2 DEF Merges, Updates, Accounts
  <2>4. history' = history /\ openSell' = openSell /\ balance' = balance
    BY <2>1 DEF storageVars
  <2>5. QED
    BY <1>1, <1>2, <1>3, <2>1, <2>2, <2>3, <2>4, HandlerKeeps
<1>9. QED
  BY <1>4, <1>5, <1>6, <1>7, <1>8 DEF HandlePosted

(* A start reads everything again.                                         *)
LEMMA StartTyped ==
  ASSUME TypeInv, NEW rows \in SUBSET UserConfig, Start(rows)
  PROVE  TypeInv'
<1>1. /\ fills' = fills /\ held' = held /\ sellOrder' = sellOrder
      /\ wire' = wire /\ canceling' = canceling /\ Len(fills) \in Nat
      /\ sellOrder.left <= held /\ held \in Nat /\ sellOrder.left \in Nat
      /\ sellOrder.volume \in Nat
  BY DEF TypeInv, TypeOK, Start, exchangeVars, requestVars, SellHeld, SellOrder, Volumes
<1>2. config' \in UserConfig
  BY NoFlagsTyped DEF Start
<1>3. session' \in StepGenerator
  BY <1>2, SessionOfTyped DEF Start
<1>4. /\ history' = Len(fills) /\ news' = <<>> /\ loop' = <<>> /\ posted' = {}
      /\ balance' \in [total : Volumes, available : Volumes]
      /\ openSell' \in Volumes /\ row' \subseteq UserConfig /\ traded' \in BOOLEAN
  BY <1>1 DEF Start, Volumes
<1>5. TypeOK'
  BY <1>1, <1>2, <1>3, <1>4 DEF TypeInv, TypeOK
<1>6. HistoryCounted'
  <2>1. Count(loop', "history") = 0 /\ Count(news', "filled") = 0
    BY <1>4, CountEmpty
  <2>2. QED
    BY <1>1, <1>4, <2>1 DEF HistoryCounted
<1>7. SellHeld' /\ BornInOrder'
  BY <1>1 DEF TypeInv, SellHeld, BornInOrder, IsBuy, IsSell, Before
<1>8. QED
  BY <1>5, <1>6, <1>7 DEF TypeInv

(* The first start.                                                        *)
LEMMA InitTyped == Init => TypeInv
<1> SUFFICES ASSUME Init
             PROVE  TypeInv
  OBVIOUS
<1>1. fills = <<>> /\ Len(fills) = 0 /\ DOMAIN fills = {} /\ NoOrder \in SellOrder
      /\ NoOrder.left = 0
  BY DEF Init, NoOrder, SellOrder, Volumes
<1>2. config \in UserConfig /\ session \in StepGenerator
  BY NoFlagsTyped, SessionOfTyped DEF Init
<1>3. TypeOK
  <2>1. fills \in Seq(Fill) /\ news \in Seq(Reports \cup Accounts)
        /\ loop \in Seq(Merges \cup Updates)
    BY DEF Init
  <2>2. balance \in [total : Volumes, available : Volumes] /\ history \in 0 .. Len(fills)
    BY <1>1 DEF Init, Volumes
  <2>3. QED
    BY <1>1, <1>2, <2>1, <2>2 DEF Init, TypeOK, Volumes
<1>4. HistoryCounted
  <2>1. Count(loop, "history") = 0 /\ Count(news, "filled") = 0
    BY CountEmpty DEF Init
  <2>2. QED
    BY <1>1, <2>1 DEF Init, HistoryCounted
<1>5. SellHeld /\ BornInOrder
  BY <1>1 DEF Init, SellHeld, BornInOrder
<1>6. QED
  BY <1>3, <1>4, <1>5 DEF TypeInv

(* No step leaves the types.                                               *)
LEMMA TypeStep == TypeInv /\ [Next]_vars => TypeInv'
<1> SUFFICES ASSUME TypeInv, [Next]_vars
             PROVE  TypeInv'
  OBVIOUS
<1>1. CASE Algorithm
  BY <1>1, TicksTyped
<1>2. CASE Trend
  BY <1>2, TrendTyped
<1>3. CASE Exchange
  BY <1>3, ExchangeTyped
<1>4. CASE HandleNews
  BY <1>4, NewsTyped
<1>5. CASE HandlePosted
  BY <1>5, PostedTyped
<1>6. CASE Crash \/ StopAndStart
  <2>1. row \subseteq UserConfig /\ {config} \subseteq UserConfig
    BY DEF TypeInv, TypeOK
  <2>2. QED
    BY <1>6, <2>1, StartTyped DEF Crash, StopAndStart
<1>7. CASE UNCHANGED vars
  <2>1. TypeOK' /\ SellHeld' /\ BornInOrder'
    BY <1>7 DEF vars, exchangeVars, requestVars, storageVars, configVars, TypeInv, TypeOK,
                SellHeld, BornInOrder, IsBuy, IsSell, Before
  <2>2. HistoryCounted'
    BY <1>7 DEF vars, exchangeVars, storageVars, TypeInv, HistoryCounted
  <2>3. QED
    BY <2>1, <2>2 DEF TypeInv
<1>8. QED
  BY <1>1, <1>2, <1>3, <1>4, <1>5, <1>6, <1>7 DEF Next

(* The types hold always.                                                  *)
LEMMA TypesCorrect == Spec => []TypeInv
BY InitTyped, TypeStep, PTL DEF Spec

(* Whatever a timer outruns, whatever a sell trades before it is canceled  *)
(* and whenever the bot is stopped or dies, the history has no more        *)
(* entries than orders were executed, no balance is negative, and a step   *)
(* that looks for the newest entry of the history, or for its row of the   *)
(* table, finds one (getLastTradeHistory, updateMarketMetaConfig).         *)
THEOREM TypeCorrect == Spec => []TypeOK
BY TypesCorrect, PTL DEF TypeInv

-----------------------------------------------------------------------------
(* The updates under way.                                                  *)

(* No timer fires before an update that is under way is merged.            *)
UpdatesFirst == "update" \notin Races

UnderWay(q) == {q[k].config : k \in {k \in DOMAIN q : q[k].kind \in {"update", "forward"}}}

(* An update posted is under way, another event is not.                    *)
LEMMA UnderWayAppend ==
  ASSUME NEW S, NEW q \in Seq(S), NEW e \in S
  PROVE  UnderWay(Append(q, e))
         = UnderWay(q) \cup (IF e.kind \in {"update", "forward"} THEN {e.config} ELSE {})
<1>1. /\ DOMAIN Append(q, e) = (DOMAIN q) \cup {Len(q) + 1}
      /\ \A k \in DOMAIN q : Append(q, e)[k] = q[k]
      /\ Append(q, e)[Len(q) + 1] = e
  <2>1. DOMAIN Append(q, e) = 1 .. Len(q) + 1 /\ DOMAIN q = 1 .. Len(q) /\ Len(q) \in Nat
    BY AppendProperties
  <2>2. 1 .. Len(q) + 1 = (1 .. Len(q)) \cup {Len(q) + 1}
    BY <2>1
  <2>3. QED
    BY <2>1, <2>2, AppendProperties
<1>2. QED
  BY <1>1 DEF UnderWay

(* What is under way is the first event, if it is an update, and the rest. *)
LEMMA UnderWayTail ==
  ASSUME NEW S, NEW q \in Seq(S), q # <<>>
  PROVE  UnderWay(q) = UnderWay(Tail(q))
           \cup (IF Head(q).kind \in {"update", "forward"} THEN {Head(q).config} ELSE {})
<1>1. /\ DOMAIN q = 1 .. Len(q) /\ Len(q) \in Nat /\ Len(q) >= 1 /\ q[1] = Head(q)
      /\ DOMAIN Tail(q) = 1 .. Len(q) - 1
      /\ \A k \in 1 .. Len(q) - 1 : Tail(q)[k] = q[k + 1]
  BY HeadTailProperties
<1> DEFINE updates(s) == {k \in DOMAIN s : s[k].kind \in {"update", "forward"}}
<1>2. ASSUME NEW c \in UnderWay(q)
      PROVE  \/ c \in UnderWay(Tail(q))
             \/ Head(q).kind \in {"update", "forward"} /\ c = Head(q).config
  <2>1. PICK k \in updates(q) : c = q[k].config
    BY <1>2 DEF UnderWay
  <2>2. CASE k = 1
    BY <1>1, <2>1, <2>2
  <2>3. CASE k # 1
    <3>1. k - 1 \in 1 .. Len(q) - 1 /\ Tail(q)[k - 1] = q[k]
      BY <1>1, <2>1, <2>3
    <3>2. k - 1 \in updates(Tail(q)) /\ c = Tail(q)[k - 1].config
      BY <1>1, <2>1, <3>1
    <3>3. QED
      BY <3>2 DEF UnderWay
  <2>4. QED
    BY <2>2, <2>3
<1>3. ASSUME NEW c \in UnderWay(Tail(q))
      PROVE  c \in UnderWay(q)
  <2>1. PICK k \in updates(Tail(q)) : c = Tail(q)[k].config
    BY <1>3 DEF UnderWay
  <2>2. k + 1 \in updates(q) /\ c = q[k + 1].config
    BY <1>1, <2>1
  <2>3. QED
    BY <2>2 DEF UnderWay
<1>4. Head(q).kind \in {"update", "forward"} => Head(q).config \in UnderWay(q)
  <2>1. Head(q).kind \in {"update", "forward"} => 1 \in updates(q)
    BY <1>1
  <2>2. QED
    BY <1>1, <2>1 DEF UnderWay
<1>5. QED
  BY <1>2, <1>3, <1>4

(* Nothing is under way in an empty loop.                                  *)
LEMMA UnderWayEmpty == UnderWay(<<>>) = {}
BY DEF UnderWay

(* When a timer fires, every update is merged.                             *)
LEMMA TickSettled ==
  ASSUME UpdatesFirst, Tick
  PROVE  UnderWay(loop) = {}
<1>1. SUFFICES ASSUME NEW k \in DOMAIN loop, loop[k].kind \in {"update", "forward"}
               PROVE  FALSE
  BY DEF UnderWay
<1>2. loop[k].kind \in KindsUnderWay
  BY <1>1 DEF KindsUnderWay
<1>3. "update" \in (KindsUnderWay \ {"forward"})
                   \cup (IF "forward" \in KindsUnderWay THEN {"update"} ELSE {})
  BY <1>1, <1>2
<1>4. "update" \in Awaited
  BY DEF Awaited
<1>5. QED
  BY <1>3, <1>4 DEF UpdatesFirst, Tick, Timely

-----------------------------------------------------------------------------
(* What a step does to the configuration and its copies.                   *)

Closing ==
  CloseZero \/ \E s \in Steps : SkipStep(s) \/ CloseBuy(s) \/ Unlock(s) \/ CancelFallen(s)

Posts(c) == UnderWay(loop) = {} /\ UnderWay(loop') = {c} /\ config' = config

Closes == \E c \in UserConfig : Posts(c) /\ row' \in {{}, {c}}

Stays ==
  /\ UnderWay(loop') = UnderWay(loop) /\ config' = config /\ row' = row
  /\ session' \in {session, Current}

PostsRate ==
  /\ \E r \in Int : Posts([config EXCEPT !.rate = r])
  /\ row' = row /\ session' = session

Delivers ==
  /\ config' \in UnderWay(loop) /\ UnderWay(loop') \subseteq UnderWay(loop)
  /\ row' = row /\ session' = session

Starts ==
  /\ UnderWay(loop') = {} /\ session' = SessionOf(config')
  /\ row' \in {row, {}, {config}}
  /\ IF row' = {} THEN config' = NewConfig ELSE config' \in row'

(* Update posts one configuration when none is under way.                  *)
LEMMA UpdatePosts ==
  ASSUME TypeInv, UpdatesFirst, Tick, NEW flags, NEW c \in UserConfig, NEW rows,
         Update(flags, c, rows)
  PROVE  Posts(c) /\ row' = rows /\ session' = [Current EXCEPT !.now = flags]
<1> DEFINE e == [kind |-> "forward", config |-> c]
<1>1. loop \in Seq(Merges \cup Updates) /\ loop' = Append(loop, e)
  BY DEF TypeInv, TypeOK, Update
<1>2. e \in Merges \cup Updates /\ e.kind = "forward" /\ e.config = c
  BY DEF Updates
<1>3. UnderWay(loop') = UnderWay(loop) \cup {c}
  <2> HIDE DEF e
  <2>1. QED
    BY <1>1, <1>2, UnderWayAppend
<1>4. QED
  BY <1>3, TickSettled DEF Update, Posts

(* A step that closes writes the row that it posts, unlockAllSteps erases  *)
(* it.                                                                     *)
LEMMA ClosingCloses ==
  ASSUME TypeInv, UpdatesFirst, Closing
  PROVE  Closes
<1>1. TypeOK /\ config \in UserConfig /\ config.exec \in Nat /\ config.start \in Nat
      /\ config.exec + 1 \in Nat
  BY DEF TypeInv, TypeOK, UserConfig
<1>2. ASSUME NEW s \in Steps, NEW flags \in Flags, NEW exec \in Nat, NEW start \in Nat,
             Tick, UpdateMarketMetaConfig(s, flags, exec, start)
      PROVE  Closes
  <2> DEFINE c == ConfigWith(s, flags, exec, start)
  <2>1. c \in UserConfig
    BY <1>1, ConfigWithTyped
  <2>2. Update(flags, c, {c})
    BY <1>2 DEF UpdateMarketMetaConfig
  <2>3. Posts(c) /\ row' = {c}
    BY <1>2, <2>1, <2>2, UpdatePosts
  <2>4. QED
    BY <2>1, <2>3 DEF Closes
<1>3. \A s \in Steps : BlockBuy(s) \in Flags /\ BlockSell(s) \in Flags /\ BlockBoth(s) \in Flags
  BY <1>1, BlocksTyped
<1>4. CASE CloseZero
  <2>1. StartAt(Newest) \in Nat /\ 0 \in Steps /\ Tick
    BY <1>1, <1>4, NewestTyped, TableAssumption DEF CloseZero, StartAt, Steps, BuyTurn
  <2>2. QED
    BY <1>1, <1>2, <1>3, <1>4, <2>1 DEF CloseZero
<1>5. ASSUME NEW s \in Steps, SkipStep(s) \/ CloseBuy(s) \/ CancelFallen(s)
      PROVE  Closes
  BY <1>1, <1>2, <1>3, <1>5
     DEF SkipStep, CloseBuy, CloseBuyIf, CancelFallen, BuyTurn, SellTurn
<1>6. ASSUME NEW s \in Steps, Unlock(s)
      PROVE  Closes
  <2> DEFINE c == [config EXCEPT !.flags = NoFlags, !.exec = 0, !.start = 0]
  <2>1. c \in UserConfig
    BY <1>1, NoFlagsTyped DEF UserConfig
  <2>2. Tick /\ Update(NoFlags, c, {})
    BY <1>6 DEF Unlock, SellTurn, UnlockAllSteps, UnlockWith
  <2>3. Posts(c) /\ row' = {}
    BY <2>1, <2>2, UpdatePosts
  <2>4. QED
    BY <2>1, <2>3 DEF Closes
<1>7. QED
  BY <1>4, <1>5, <1>6 DEF Closing

(* What the other steps do.                                                *)
LEMMA OtherSteps ==
  ASSUME TypeInv, UpdatesFirst, [Next]_vars, ~Closing
  PROVE  Stays \/ PostsRate \/ Delivers \/ Starts
<1>1. TypeOK /\ config \in UserConfig /\ loop \in Seq(Merges \cup Updates)
      /\ row \subseteq UserConfig
  BY DEF TypeInv, TypeOK
<1>2. CASE Algorithm
  <2>1. LooksAtIt
    BY <1>2 DEF Algorithm, Closing, Buying, Selling, BuyZero, Wait, Buy, Sell, CancelSmall
  <2>2. QED
    BY <2>1 DEF LooksAtIt, Stays, configVars
<1>3. CASE Trend
  <2>1. PICK r \in Int : PostRate(r)
    BY <1>3, RatesAssumption DEF Trend
  <2> DEFINE c == [config EXCEPT !.rate = r]
             e == [kind |-> "update", config |-> c]
  <2>2. c \in UserConfig
    BY <1>1 DEF UserConfig
  <2>3. e \in Merges \cup Updates /\ e.kind = "update" /\ e.config = c
    BY <2>2 DEF Updates
  <2>4. loop' = Append(loop, e) /\ UNCHANGED <<configVars, session>>
    BY <2>1 DEF PostRate
  <2>5. UnderWay(loop') = UnderWay(loop) \cup {c}
    <3> HIDE DEF e, c
    <3>1. QED
      BY <1>1, <2>3, <2>4, UnderWayAppend
  <2>6. UnderWay(loop) = {}
    BY <1>3, TickSettled DEF Trend
  <2>7. QED
    BY <2>4, <2>5, <2>6 DEF PostsRate, Posts, configVars
<1>4. CASE Exchange
  <2>1. BotUnchanged
    BY <1>4 DEF Exchange, AnswerPost, FillBuy, KillBuy, RestSell, RefuseSell, TradeSell,
                FillSell, ExecuteCancel, LoseCancel
  <2>2. QED
    BY <2>1 DEF BotUnchanged, Stays, configVars
<1>5. CASE HandleNews
  <2>1. UNCHANGED <<configVars, session>>
    BY <1>5 DEF HandleNews, ReportOpen, ReportFilled, ReportClosed, OutboundAccount, Receive
  <2>2. ASSUME NEW e \in Merges, loop' = Append(loop, e)
        PROVE  UnderWay(loop') = UnderWay(loop)
    <3>1. e \in Merges \cup Updates /\ e.kind \notin {"update", "forward"}
      BY DEF Merges, Accounts
    <3>2. UnderWay(Append(loop, e)) = UnderWay(loop)
            \cup (IF e.kind \in {"update", "forward"} THEN {e.config} ELSE {})
      BY <1>1, <3>1, UnderWayAppend
    <3>3. QED
      BY <2>2, <3>1, <3>2
  <2>3. CASE ReportOpen \/ OutboundAccount
    <3>1. PICK kind \in {"open", "account"} : Receive(kind)
      BY <2>3 DEF ReportOpen, OutboundAccount
    <3>2. Head(news) \in Reports \cup Accounts /\ Head(news).kind = kind
      BY <1>1, <3>1, ReceiveEffect
    <3>3. Head(news) \in Merges
      BY <3>1, <3>2 DEF Reports, Accounts, Merges
    <3>4. UnderWay(loop') = UnderWay(loop)
      BY <2>2, <2>3, <3>3 DEF ReportOpen, OutboundAccount
    <3>5. QED
      BY <2>1, <3>4 DEF Stays, configVars
  <2>4. CASE ReportFilled
    <3>1. [kind |-> "history"] \in Merges
      BY DEF Merges
    <3>2. UnderWay(loop') = UnderWay(loop)
      BY <2>2, <2>4, <3>1 DEF ReportFilled
    <3>3. QED
      BY <2>1, <3>2 DEF Stays, configVars
  <2>5. CASE ReportClosed
    BY <2>1, <2>5 DEF ReportClosed, Stays, configVars
  <2>6. QED
    BY <1>5, <2>3, <2>4, <2>5 DEF HandleNews
<1>6. CASE HandlePosted
  <2>1. ASSUME NEW kind, Deliver(kind)
        PROVE  /\ Head(loop) \in Merges \cup Updates /\ Head(loop).kind = kind
               /\ Tail(loop) \in Seq(Merges \cup Updates)
               /\ row' = row /\ session' = session
               /\ UnderWay(loop) = UnderWay(Tail(loop))
                    \cup (IF kind \in {"update", "forward"} THEN {Head(loop).config} ELSE {})
    <3>1. /\ Head(loop) \in Merges \cup Updates /\ Head(loop).kind = kind
          /\ Tail(loop) \in Seq(Merges \cup Updates) /\ loop # <<>>
      BY <1>1, <2>1, DeliverEffect
    <3>2. QED
      BY <1>1, <2>1, <3>1, UnderWayTail DEF Deliver
  <2>2. CASE MergeOpen \/ MergeHistory \/ MergeBalance
    <3>1. PICK kind \in {"open", "history", "account"} : Deliver(kind)
      BY <2>2 DEF MergeOpen, MergeHistory, MergeBalance
    <3>2. loop' = Tail(loop) /\ config' = config
      BY <2>2 DEF MergeOpen, MergeHistory, MergeBalance
    <3>3. UnderWay(loop) = UnderWay(Tail(loop)) /\ row' = row /\ session' = session
      BY <2>1, <3>1
    <3>4. QED
      BY <3>2, <3>3 DEF Stays
  <2>3. CASE ForwardUpdate
    <3> DEFINE e == [kind |-> "update", config |-> Head(loop).config]
    <3>1. Deliver("forward") /\ loop' = Append(Tail(loop), e) /\ config' = config
      BY <2>3 DEF ForwardUpdate
    <3>2. /\ Head(loop) \in Merges \cup Updates /\ Head(loop).kind = "forward"
          /\ Tail(loop) \in Seq(Merges \cup Updates)
          /\ row' = row /\ session' = session
          /\ UnderWay(loop) = UnderWay(Tail(loop)) \cup {Head(loop).config}
      BY <2>1, <3>1
    <3>3. e \in Merges \cup Updates /\ e.kind = "update" /\ e.config = Head(loop).config
      BY <3>2 DEF Merges, Updates, Accounts
    <3>4. UnderWay(loop') = UnderWay(Tail(loop)) \cup {Head(loop).config}
      <4> HIDE DEF e
      <4>1. QED
        BY <3>1, <3>2, <3>3, UnderWayAppend
    <3>5. QED
      BY <3>1, <3>2, <3>4 DEF Stays
  <2>4. CASE UpdateMarketUserConfig
    <3>1. Deliver("update") /\ loop' = Tail(loop) /\ config' = Head(loop).config
      BY <2>4 DEF UpdateMarketUserConfig
    <3>2. /\ row' = row /\ session' = session
          /\ UnderWay(loop) = UnderWay(Tail(loop)) \cup {Head(loop).config}
      BY <2>1, <3>1
    <3>3. QED
      BY <3>1, <3>2 DEF Delivers
  <2>5. QED
    BY <1>6, <2>2, <2>3, <2>4 DEF HandlePosted
<1>7. CASE Crash \/ StopAndStart
  <2>1. PICK rows \in {row, {}, {config}} : Start(rows)
    BY <1>7 DEF Crash, StopAndStart
  <2>2. UnderWay(loop') = {}
    BY <2>1, UnderWayEmpty DEF Start
  <2>3. rows # {} => config' \in rows
    BY <2>1 DEF Start
  <2>4. QED
    BY <2>1, <2>2, <2>3 DEF Starts, Start
<1>8. CASE UNCHANGED vars
  BY <1>8 DEF vars, configVars, Stays
<1>9. QED
  BY <1>2, <1>3, <1>4, <1>5, <1>6, <1>7, <1>8 DEF Next

-----------------------------------------------------------------------------
(* The row follows the configuration.                                      *)

Like(c, d) == [c EXCEPT !.rate = d.rate] = d

(* The row is that of the update under way, or of the configuration when   *)
(* there is none.                                                          *)
RowFollows ==
  /\ \A c, d \in row : c = d
  /\ \A c \in row : \A d \in UnderWay(loop) : Like(c, d)
  /\ UnderWay(loop) = {} => \A c \in row : Like(c, config)

(* Configurations that differ in the rate only.                            *)
LEMMA LikeIs ==
  ASSUME NEW c \in UserConfig, NEW d \in UserConfig
  PROVE  Like(c, d) <=> c.flags = d.flags /\ c.exec = d.exec /\ c.start = d.start
BY DEF Like, UserConfig

(* A step writes the row that it posts, a start reads it.                  *)
LEMMA RowStep ==
  ASSUME TypeInv, UpdatesFirst, RowFollows, [Next]_vars
  PROVE  RowFollows'
<1>1. config \in UserConfig /\ row \subseteq UserConfig
  BY DEF TypeInv, TypeOK
<1>2. \A c \in UserConfig : Like(c, c)
  BY LikeIs
<1>3. CASE Closing
  <2>1. PICK c \in UserConfig : Posts(c) /\ row' \in {{}, {c}}
    BY <1>3, ClosingCloses DEF Closes
  <2>2. QED
    BY <1>2, <2>1 DEF Posts, RowFollows
<1>4. CASE Stays
  BY <1>4 DEF Stays, RowFollows
<1>5. CASE PostsRate
  <2>1. PICK r \in Int : Posts([config EXCEPT !.rate = r])
    BY <1>5 DEF PostsRate
  <2> DEFINE d == [config EXCEPT !.rate = r]
  <2>2. d \in UserConfig /\ d.flags = config.flags /\ d.exec = config.exec
        /\ d.start = config.start
    BY <1>1 DEF UserConfig
  <2>3. \A c \in row : Like(c, config)
    BY <2>1 DEF Posts, RowFollows
  <2>4. \A c \in row : Like(c, d)
    BY <1>1, <2>2, <2>3, LikeIs
  <2>5. row' = row /\ UnderWay(loop') = {d}
    BY <1>5, <2>1 DEF PostsRate, Posts
  <2>6. QED
    BY <2>4, <2>5 DEF RowFollows
<1>6. CASE Delivers
  BY <1>6 DEF Delivers, RowFollows
<1>7. CASE Starts
  <2>1. \A c \in row' : c = config' /\ c \in UserConfig
    BY <1>1, <1>7 DEF Starts, RowFollows
  <2>2. QED
    BY <1>2, <1>7, <2>1 DEF Starts, RowFollows
<1>8. QED
  BY <1>3, <1>4, <1>5, <1>6, <1>7, OtherSteps

(* Across any number of crashes and orderly restarts, the row of the pair  *)
(* is its configuration, but for the rate, as soon as nothing is under     *)
(* way, if no timer fires before an update is merged                       *)
(* (updateMarketMetaConfig, unlockAllSteps, TrendSearcher::timerEvent).    *)
THEOREM RowMatchesHolds ==
  ASSUME UpdatesFirst
  PROVE  Spec => []RowMatches
<1>1. Init => RowFollows
  BY DEF Init, RowFollows
<1>2. TypeInv /\ RowFollows /\ [Next]_vars => RowFollows'
  BY RowStep
<1>3. RowFollows => RowMatches
  BY UnderWayEmpty DEF RowFollows, RowMatches, Quiet, Like
<1>4. QED
  BY <1>1, <1>2, <1>3, TypesCorrect, PTL DEF Spec

-----------------------------------------------------------------------------
(* The steps are closed in order.                                          *)

(* No two rows of the table have the same percents: with two such rows the *)
(* flags of the second are written to the first (RowOf).                   *)
DistinctPercents == \A s, t \in Steps : Percents(s) = Percents(t) => s = t

InOrder(flags) ==
  \A s \in flags.sell : \A t \in Steps : t <= s => t \in flags.buy \cap flags.sell

(* A configuration that counts a purchase has step 0 closed for buying:    *)
(* when maxSteps is reached no step may buy, closed or not.                *)
Fits(c) == InOrder(c.flags) /\ (c.exec > 0 => 0 \in c.flags.buy)

(* All copies of the table fit, and the session has not other flags than   *)
(* the table it was built from will have once the updates are merged.      *)
TableFollows ==
  /\ \A c \in {config} \cup row \cup UnderWay(loop) : Fits(c)
  /\ InOrder(session.now)
  /\ UnderWay(loop) = {} /\ session.table = config.flags => session.now = config.flags
  /\ \A c \in UnderWay(loop) : session.table = c.flags => session.now = c.flags

(* Each step has a row of its own.                                         *)
LEMMA RowOfStep ==
  ASSUME DistinctPercents, NEW s \in Steps
  PROVE  RowOf(s) = s
<1>1. \E t \in Steps : /\ Percents(t) = Percents(s)
                       /\ \A u \in Steps : Percents(u) = Percents(s) => t <= u
  <2>1. s <= s
    BY TableAssumption DEF Steps
  <2>2. QED
    BY <2>1 DEF DistinctPercents
<1>2. Percents(RowOf(s)) = Percents(s) /\ RowOf(s) \in Steps
  BY <1>1 DEF RowOf
<1>3. QED
  BY <1>2 DEF DistinctPercents

(* The configuration that a step posts has the flags that it set in        *)
(* memory.                                                                 *)
LEMMA BlockedFlags ==
  ASSUME TypeInv, DistinctPercents, Current.now = config.flags, NEW s \in Steps,
         NEW flags \in {BlockBuy(s), BlockSell(s), BlockBoth(s)}, NEW exec, NEW start
  PROVE  /\ ConfigWith(s, flags, exec, start).flags = flags
         /\ ConfigWith(s, flags, exec, start).exec = exec
<1>1. config \in UserConfig /\ config.flags \in Flags
  BY DEF TypeInv, TypeOK, UserConfig
<1>2. RowOf(s) = s
  BY RowOfStep
<1>3. flags \in Flags
  BY BlocksTyped DEF TypeInv
<1>4. /\ flags.buy \in {config.flags.buy, config.flags.buy \cup {s}}
      /\ flags.sell \in {config.flags.sell, config.flags.sell \cup {s}}
  BY <1>1 DEF BlockBuy, BlockSell, BlockBoth, Flags
<1>5. /\ Written(config.flags.buy, s, flags.buy) = flags.buy
      /\ Written(config.flags.sell, s, flags.sell) = flags.sell
  BY <1>2, <1>4 DEF Written
<1>6. flags = [buy |-> flags.buy, sell |-> flags.sell]
  BY <1>3 DEF Flags
<1>7. QED
  BY <1>1, <1>5, <1>6 DEF ConfigWith, UserConfig

(* When a timer fires the session has the flags of the configuration.      *)
LEMMA TickFollows ==
  ASSUME TypeInv, UpdatesFirst, TableFollows, Tick
  PROVE  Current.now = config.flags /\ Current = SessionOf(config)
<1>1. UnderWay(loop) = {}
  BY TickSettled
<1>2. session \in StepGenerator
  BY DEF TypeInv, TypeOK
<1>3. CASE session.table = config.flags
  <2>1. session.now = config.flags /\ Current = session
    BY <1>1, <1>3 DEF TableFollows, Current
  <2>2. QED
    BY <1>2, <1>3, <2>1 DEF SessionOf, StepGenerator
<1>4. CASE session.table # config.flags
  BY <1>4 DEF Current, SessionOf
<1>5. QED
  BY <1>3, <1>4

(* What a step posts fits, and the session has its flags.                  *)
LEMMA ClosingFits ==
  ASSUME TypeInv, UpdatesFirst, DistinctPercents, TableFollows, Closing
  PROVE  \E c \in UserConfig :
           /\ Posts(c) /\ row' \in {{}, {c}} /\ Fits(c)
           /\ session' = [table |-> config.flags, now |-> c.flags]
<1>1. /\ TypeOK /\ config \in UserConfig /\ config.exec \in Nat /\ config.start \in Nat
      /\ config.exec + 1 \in Nat /\ config.flags \in Flags /\ MaxSteps \in Nat
      /\ Fits(config) /\ Steps \subseteq Nat /\ 0 \in Steps /\ Last \in Nat
  BY SMTT(30), TableAssumption, BoundsAssumption
     DEF TypeInv, TypeOK, UserConfig, TableFollows, Steps
<1>2. ASSUME Tick
      PROVE  /\ Current.now = config.flags /\ Current = SessionOf(config)
             /\ \A flags : [Current EXCEPT !.now = flags]
                           = [table |-> config.flags, now |-> flags]
             /\ \A s : BlockBuy(s) = [buy |-> config.flags.buy \cup {s},
                                      sell |-> config.flags.sell]
             /\ \A s : BlockSell(s) = [buy |-> config.flags.buy,
                                       sell |-> config.flags.sell \cup {s}]
             /\ \A s : BlockBoth(s) = [buy |-> config.flags.buy \cup {s},
                                       sell |-> config.flags.sell \cup {s}]
  <2>1. Current.now = config.flags /\ Current = SessionOf(config)
    BY <1>2, TickFollows
  <2>2. \A flags : [Current EXCEPT !.now = flags] = [table |-> config.flags, now |-> flags]
    BY <2>1 DEF SessionOf
  <2>3. config.flags = [buy |-> config.flags.buy, sell |-> config.flags.sell]
    BY <1>1 DEF Flags
  <2>4. QED
    BY <2>1, <2>2, <2>3 DEF BlockBuy, BlockSell, BlockBoth
<1>3. ASSUME NEW s \in Steps, NEW flags \in {BlockBuy(s), BlockSell(s), BlockBoth(s)},
             NEW exec \in Nat, NEW start \in Nat, Tick,
             UpdateMarketMetaConfig(s, flags, exec, start),
             InOrder(flags), exec > 0 => 0 \in flags.buy
      PROVE  \E c \in UserConfig :
               /\ Posts(c) /\ row' \in {{}, {c}} /\ Fits(c)
               /\ session' = [table |-> config.flags, now |-> c.flags]
  <2> DEFINE c == ConfigWith(s, flags, exec, start)
  <2>1. flags \in Flags
    BY <1>1, BlocksTyped
  <2>2. c \in UserConfig
    BY <1>1, <2>1, ConfigWithTyped
  <2>3. Update(flags, c, {c})
    BY <1>3 DEF UpdateMarketMetaConfig
  <2>4. Posts(c) /\ row' = {c} /\ session' = [Current EXCEPT !.now = flags]
    BY <1>3, <2>2, <2>3, UpdatePosts
  <2>5. c.flags = flags /\ c.exec = exec
    BY <1>2, <1>3, BlockedFlags
  <2>6. session' = [table |-> config.flags, now |-> c.flags]
    BY <1>2, <1>3, <2>4, <2>5
  <2>7. Fits(c)
    BY <1>3, <2>5 DEF Fits
  <2>8. QED
    BY <2>2, <2>4, <2>6, <2>7
<1>4. ASSUME NEW s \in Steps, Tick, First(s)
      PROVE  \A t \in Steps : t < s => t \in config.flags.buy \cap config.flags.sell
  <2>1. SUFFICES ASSUME NEW t \in Steps, t < s
                 PROVE  t \in config.flags.buy \cap config.flags.sell
    OBVIOUS
  <2>2. t \in config.flags.sell
    BY <1>2, <1>4, <2>1 DEF First, MaySell
  <2>3. t <= t
    BY <1>1
  <2>4. QED
    BY <1>1, <2>2, <2>3 DEF Fits, InOrder
<1>5. CASE CloseZero
  <2>1. StartAt(Newest) \in Nat /\ Tick
    BY <1>1, <1>5, NewestTyped DEF CloseZero, StartAt, BuyTurn
  <2>2. BlockBuy(0) = [buy |-> config.flags.buy \cup {0}, sell |-> config.flags.sell]
    BY <1>2, <2>1
  <2>3. InOrder(BlockBuy(0)) /\ 0 \in BlockBuy(0).buy
    BY <1>1, <2>2 DEF Fits, InOrder
  <2>4. QED
    BY <1>1, <1>3, <1>5, <2>1, <2>3 DEF CloseZero
<1>6. ASSUME NEW s \in Steps, CloseBuy(s)
      PROVE  \E c \in UserConfig :
               /\ Posts(c) /\ row' \in {{}, {c}} /\ Fits(c)
               /\ session' = [table |-> config.flags, now |-> c.flags]
  <2>1. /\ Tick /\ First(s) /\ s # 0
        /\ UpdateMarketMetaConfig(s, BlockBuy(s), config.exec + 1, config.start)
    BY <1>6 DEF CloseBuy, CloseBuyIf, BuyTurn
  <2>2. BlockBuy(s) = [buy |-> config.flags.buy \cup {s}, sell |-> config.flags.sell]
    BY <1>2, <2>1
  <2>3. 0 < s
    BY <2>1, TableAssumption DEF Steps
  <2>4. 0 \in BlockBuy(s).buy
    BY <1>1, <1>4, <2>1, <2>2, <2>3
  <2>5. InOrder(BlockBuy(s))
    BY <1>1, <2>2 DEF Fits, InOrder
  <2>6. QED
    BY <1>1, <1>3, <2>1, <2>4, <2>5
<1>7. ASSUME NEW s \in Steps, SkipStep(s)
      PROVE  \E c \in UserConfig :
               /\ Posts(c) /\ row' \in {{}, {c}} /\ Fits(c)
               /\ session' = [table |-> config.flags, now |-> c.flags]
  <2>1. /\ Tick /\ First(s)
        /\ UpdateMarketMetaConfig(s, BlockBoth(s), config.exec, config.start)
    BY <1>7 DEF SkipStep, BuyTurn
  <2>2. BlockBoth(s) = [buy |-> config.flags.buy \cup {s},
                        sell |-> config.flags.sell \cup {s}]
    BY <1>2, <2>1
  <2>3. InOrder(BlockBoth(s))
    <3>1. SUFFICES ASSUME NEW u \in config.flags.sell \cup {s}, NEW t \in Steps, t <= u
                   PROVE  t \in (config.flags.buy \cup {s}) \cap (config.flags.sell \cup {s})
      BY <2>2 DEF InOrder
    <3>2. CASE u \in config.flags.sell
      BY <1>1, <3>1, <3>2 DEF Fits, InOrder
    <3>3. CASE u = s
      <4>1. t = s \/ t < s
        BY <1>1, <3>1, <3>3
      <4>2. QED
        BY <1>4, <2>1, <4>1
    <3>4. QED
      BY <3>1, <3>2, <3>3
  <2>4. config.exec > 0 => 0 \in BlockBoth(s).buy
    BY <1>1, <2>2 DEF Fits
  <2>5. QED
    BY <1>1, <1>3, <2>1, <2>3, <2>4
<1>8. ASSUME NEW s \in Steps, CancelFallen(s)
      PROVE  \E c \in UserConfig :
               /\ Posts(c) /\ row' \in {{}, {c}} /\ Fits(c)
               /\ session' = [table |-> config.flags, now |-> c.flags]
  <2>1. /\ Tick /\ First(s) /\ ~MayBuy(s) /\ FallenBehind(s)
        /\ UpdateMarketMetaConfig(s, BlockSell(s), config.exec, config.start)
    BY <1>8 DEF CancelFallen, SellTurn
  <2>2. BlockSell(s) = [buy |-> config.flags.buy, sell |-> config.flags.sell \cup {s}]
    BY <1>2, <2>1
  <2>3. s \in config.flags.buy
    <3>1. s \in config.flags.buy \/ config.exec > MaxSteps
      BY <1>1, <1>2, <2>1 DEF MayBuy
    <3>2. CASE s = 0
      BY <1>1, <3>1, <3>2 DEF Fits
    <3>3. CASE s # 0
      <4>1. config.exec < MaxSteps
        BY <2>1, <3>3 DEF FallenBehind
      <4>2. QED
        BY <1>1, <3>1, <4>1
    <3>4. QED
      BY <3>2, <3>3
  <2>4. InOrder(BlockSell(s))
    <3>1. SUFFICES ASSUME NEW u \in config.flags.sell \cup {s}, NEW t \in Steps, t <= u
                   PROVE  t \in config.flags.buy \cap (config.flags.sell \cup {s})
      BY <2>2 DEF InOrder
    <3>2. CASE u \in config.flags.sell
      BY <1>1, <3>1, <3>2 DEF Fits, InOrder
    <3>3. CASE u = s
      <4>1. t = s \/ t < s
        BY <1>1, <3>1, <3>3
      <4>2. QED
        BY <1>4, <2>1, <2>3, <4>1
    <3>4. QED
      BY <3>1, <3>2, <3>3
  <2>5. config.exec > 0 => 0 \in BlockSell(s).buy
    BY <1>1, <2>2 DEF Fits
  <2>6. QED
    BY <1>1, <1>3, <2>1, <2>4, <2>5
<1>9. ASSUME NEW s \in Steps, Unlock(s)
      PROVE  \E c \in UserConfig :
               /\ Posts(c) /\ row' \in {{}, {c}} /\ Fits(c)
               /\ session' = [table |-> config.flags, now |-> c.flags]
  <2> DEFINE c == [config EXCEPT !.flags = NoFlags, !.exec = 0, !.start = 0]
  <2>1. c \in UserConfig /\ c.flags = NoFlags /\ c.exec = 0
    BY <1>1, NoFlagsTyped DEF UserConfig
  <2>2. Tick /\ Update(NoFlags, c, {})
    BY <1>9 DEF Unlock, SellTurn, UnlockAllSteps, UnlockWith
  <2>3. Posts(c) /\ row' = {} /\ session' = [Current EXCEPT !.now = NoFlags]
    BY <2>1, <2>2, UpdatePosts
  <2>4. Fits(c)
    BY <2>1 DEF Fits, InOrder, NoFlags
  <2>5. QED
    BY <1>2, <2>1, <2>2, <2>3, <2>4
<1>10. QED
  BY <1>5, <1>6, <1>7, <1>8, <1>9 DEF Closing

(* No step closes a step of the table out of order.                        *)
LEMMA TableStep ==
  ASSUME TypeInv, UpdatesFirst, DistinctPercents, TableFollows, [Next]_vars
  PROVE  TableFollows'
<1>1. config \in UserConfig /\ row \subseteq UserConfig
  BY DEF TypeInv, TypeOK
<1>2. Fits(NewConfig)
  BY DEF Fits, InOrder, NewConfig, NoFlags
<1>3. CASE Closing
  <2>1. PICK c \in UserConfig :
          /\ Posts(c) /\ row' \in {{}, {c}} /\ Fits(c)
          /\ session' = [table |-> config.flags, now |-> c.flags]
    BY <1>3, ClosingFits
  <2>2. UnderWay(loop') = {c} /\ config' = config /\ session'.now = c.flags
    BY <2>1 DEF Posts
  <2>3. \A d \in {config'} \cup row' \cup UnderWay(loop') : Fits(d)
    BY <2>1, <2>2 DEF TableFollows
  <2>4. InOrder(session'.now)
    BY <2>1, <2>2 DEF Fits
  <2>5. QED
    BY <2>2, <2>3, <2>4 DEF TableFollows
<1>4. CASE Stays
  <2>1. CASE session' = session
    BY <1>4, <2>1 DEF Stays, TableFollows
  <2>2. CASE session' # session
    <3>1. session' = SessionOf(config)
      BY <1>4, <2>2 DEF Stays, Current
    <3>2. session'.table = config.flags /\ session'.now = config.flags
      BY <3>1 DEF SessionOf
    <3>3. InOrder(config.flags)
      BY DEF TableFollows, Fits
    <3>4. UnderWay(loop') = UnderWay(loop) /\ config' = config /\ row' = row
      BY <1>4 DEF Stays
    <3>5. QED
      BY <3>2, <3>3, <3>4 DEF TableFollows
  <2>3. QED
    BY <2>1, <2>2
<1>5. CASE PostsRate
  <2>1. PICK r \in Int : Posts([config EXCEPT !.rate = r])
    BY <1>5 DEF PostsRate
  <2> DEFINE d == [config EXCEPT !.rate = r]
  <2>2. d.flags = config.flags /\ d.exec = config.exec
    BY <1>1 DEF UserConfig
  <2>3. /\ UnderWay(loop) = {} /\ UnderWay(loop') = {d} /\ config' = config
        /\ row' = row /\ session' = session
    BY <1>5, <2>1 DEF PostsRate, Posts
  <2>4. Fits(d)
    BY <2>2 DEF TableFollows, Fits
  <2> HIDE DEF d
  <2>5. QED
    BY <2>2, <2>3, <2>4 DEF TableFollows
<1>6. CASE Delivers
  BY <1>6 DEF Delivers, TableFollows
<1>7. CASE Starts
  <2>1. Fits(config') /\ \A c \in row' : Fits(c)
    BY <1>2, <1>7 DEF Starts, TableFollows
  <2>2. session'.table = config'.flags /\ session'.now = config'.flags
    BY <1>7 DEF Starts, SessionOf
  <2>3. UnderWay(loop') = {} /\ InOrder(session'.now)
    BY <1>7, <2>1, <2>2 DEF Starts, Fits
  <2>4. QED
    BY <2>1, <2>2, <2>3 DEF TableFollows
<1>8. QED
  BY <1>3, <1>4, <1>5, <1>6, <1>7, OtherSteps

(* Whichever copy of the table the session is built from, no step is       *)
(* closed for selling before one above it, even when maxSteps ends the     *)
(* buying, if the rows of the table differ and no timer fires before an    *)
(* update is merged (StepGenerator::update, updateMarketMetaConfig).       *)
THEOREM StepsInOrderHolds ==
  ASSUME UpdatesFirst, DistinctPercents
  PROVE  Spec => []StepsInOrder
<1>1. Init => TableFollows
  BY UnderWayEmpty
     DEF Init, TableFollows, Fits, InOrder, NewConfig, NoFlags, SessionOf
<1>2. TypeInv /\ TableFollows /\ [Next]_vars => TableFollows'
  BY TableStep
<1>3. TypeInv /\ TableFollows => StepsInOrder
  <2>1. SUFFICES ASSUME TypeInv, TableFollows, NEW s \in Current.now.sell,
                        NEW t \in Steps, t < s
                 PROVE  t \in Current.now.sell \cap Current.now.buy
    BY DEF StepsInOrder
  <2>2. InOrder(Current.now)
    BY <2>1 DEF TableFollows, Fits, Current, SessionOf
  <2>3. s \in Nat /\ t \in Nat
    BY <2>1, CurrentTyped, TableAssumption DEF TypeInv, Steps
  <2>4. t <= s
    BY <2>1, <2>3
  <2>5. QED
    BY <2>1, <2>2, <2>4 DEF InOrder
<1>4. QED
  BY <1>1, <1>2, <1>3, TypesCorrect, PTL DEF Spec

-----------------------------------------------------------------------------
(* What the bot knows of its balance and of the sell that rests.           *)

(* No timer fires before the news that a sell rests, or of the balance,    *)
(* has been merged.                                                        *)
NewsFirst == {"open", "account"} \cap Races = {}

(* After the last message that decides something comes none that decides   *)
(* something else.                                                         *)
LastIn(q, good, bad) ==
  \E k \in DOMAIN q : q[k] \in good /\ \A j \in DOMAIN q : j > k => q[j] \notin bad

NoneIn(q, bad) == \A k \in DOMAIN q : q[k] \notin bad

Saying(total, available) == {[kind |-> "account", total |-> total, available |-> available]}
Opens == [kind : {"open"}, volume : Volumes]

EmptySells == [kind : {"open"}, volume : {0}]

(* A report that takes the sell from the open orders.                      *)
Removals == [kind : {"closed"}] \cup [kind : {"filled"}, side : {"sell"}]

LastSays(q, total, available) == LastIn(q, Saying(total, available), Accounts)
LastOpens(q) == LastIn(q, Opens, Removals)
NoAccount(q) == NoneIn(q, Accounts)
NoOpen(q) == NoneIn(q, Opens)
NoEmptySell(q) == NoneIn(q, EmptySells)
NoRemoval(q) == NoneIn(q, Removals)

(* The last that was heard of the balance, or will be, is true.            *)
BalanceFollows ==
  \/ LastSays(news, held, Free)
  \/ NoAccount(news) /\ LastSays(loop, held, Free)
  \/ /\ NoAccount(news) /\ NoAccount(loop)
     /\ balance.total = held /\ balance.available = Free

(* A sell that rests is an open order, or will be.                         *)
SellFollows ==
  sellOrder # NoOrder =>
    \/ LastOpens(news)
    \/ NoRemoval(news) /\ (~NoOpen(loop) \/ openSell # 0)

(* No empty sell is sent.                                                  *)
SellsSomething ==
  /\ \A p \in wire : p.side = "sell" => p.volume # 0
  /\ sellOrder # NoOrder => sellOrder.volume # 0
  /\ NoEmptySell(news) /\ NoEmptySell(loop)

KnowsSell == BalanceFollows /\ SellFollows /\ SellsSomething

(* The last message decides, if it matters.                                *)
LEMMA LastAppended ==
  ASSUME NEW S, NEW q \in Seq(S), NEW e \in S, NEW good, NEW bad
  PROVE  /\ LastIn(Append(q, e), good, bad) <=> e \in good \/ (LastIn(q, good, bad) /\ e \notin bad)
         /\ NoneIn(Append(q, e), bad) <=> NoneIn(q, bad) /\ e \notin bad
<1>1. PICK n \in Nat : n = Len(q)
  OBVIOUS
<1>2. PICK p : p = Append(q, e)
  OBVIOUS
<1>3. /\ DOMAIN p = 1 .. n + 1 /\ DOMAIN q = 1 .. n
      /\ \A k \in 1 .. n : p[k] = q[k]
      /\ p[n + 1] = e
  BY <1>1, <1>2, AppendProperties
<1>4. \A k \in 1 .. n + 1 : k = n + 1 \/ k \in 1 .. n
  BY <1>1
<1>5. n + 1 \in 1 .. n + 1 /\ (\A k \in 1 .. n : k \in 1 .. n + 1 /\ n + 1 > k)
      /\ \A k \in 1 .. n + 1 : ~(k > n + 1)
  BY <1>1
<1>6. LastIn(p, good, bad) <=> e \in good \/ (LastIn(q, good, bad) /\ e \notin bad)
  BY <1>3, <1>4, <1>5 DEF LastIn
<1>7. NoneIn(p, bad) <=> NoneIn(q, bad) /\ e \notin bad
  BY <1>3, <1>4, <1>5 DEF NoneIn
<1>8. QED
  BY <1>2, <1>6, <1>7

(* The first message decides if no other matters.                          *)
LEMMA FirstTaken ==
  ASSUME NEW S, NEW q \in Seq(S), q # <<>>, NEW good, NEW bad
  PROVE  /\ LastIn(q, good, bad)
            <=> LastIn(Tail(q), good, bad) \/ (Head(q) \in good /\ NoneIn(Tail(q), bad))
         /\ NoneIn(q, bad) <=> Head(q) \notin bad /\ NoneIn(Tail(q), bad)
<1>1. PICK p \in Seq(S) : p = Tail(q)
  BY HeadTailProperties
<1>2. PICK e : e = Head(q)
  OBVIOUS
<1>3. PICK n \in Nat : n = Len(p)
  BY <1>1
<1>4. Len(q) = n + 1 /\ e = q[1] /\ \A k \in 1 .. n : p[k] = q[k + 1]
  BY <1>1, <1>2, <1>3, HeadTailProperties
<1>5. DOMAIN q = 1 .. n + 1 /\ DOMAIN p = 1 .. n
  BY <1>1, <1>3, <1>4
<1>6. /\ 1 \in DOMAIN q
      /\ \A k \in DOMAIN q : k = 1 \/ \E i \in DOMAIN p : k = i + 1
      /\ \A i \in DOMAIN p : i + 1 \in DOMAIN q /\ i + 1 > 1 /\ ~(1 > i + 1)
      /\ \A i, j \in DOMAIN p : i + 1 > j + 1 <=> i > j
      /\ ~(1 > 1)
  <2>1. \A k \in 1 .. n + 1 : k = 1 \/ (k - 1 \in 1 .. n /\ k = (k - 1) + 1)
    OBVIOUS
  <2>2. \A k \in 1 .. n + 1 : k = 1 \/ \E i \in 1 .. n : k = i + 1
    BY <2>1
  <2>3. /\ 1 \in 1 .. n + 1 /\ ~(1 > 1)
        /\ \A i \in 1 .. n : i + 1 \in 1 .. n + 1 /\ i + 1 > 1 /\ ~(1 > i + 1)
        /\ \A i, j \in 1 .. n : i + 1 > j + 1 <=> i > j
    OBVIOUS
  <2>4. QED
    BY <1>5, <2>2, <2>3
<1>7. \A i \in DOMAIN p : q[i + 1] = p[i]
  BY <1>4, <1>5
<1>8. LastIn(q, good, bad) <=> LastIn(p, good, bad) \/ (e \in good /\ NoneIn(p, bad))
  <2>1. ASSUME LastIn(q, good, bad), ~(e \in good /\ NoneIn(p, bad))
        PROVE  LastIn(p, good, bad)
    <3>1. PICK k \in DOMAIN q : q[k] \in good
                                /\ \A j \in DOMAIN q : j > k => q[j] \notin bad
      BY <2>1 DEF LastIn
    <3>2. k # 1
      BY <1>4, <1>6, <1>7, <2>1, <3>1 DEF NoneIn
    <3>3. PICK i \in DOMAIN p : k = i + 1
      BY <1>6, <3>2
    <3>4. p[i] \in good /\ \A j \in DOMAIN p : j > i => p[j] \notin bad
      BY <1>6, <1>7, <3>1, <3>3
    <3>5. QED
      BY <3>4 DEF LastIn
  <2>2. ASSUME LastIn(p, good, bad)
        PROVE  LastIn(q, good, bad)
    <3>1. PICK i \in DOMAIN p : p[i] \in good
                                /\ \A j \in DOMAIN p : j > i => p[j] \notin bad
      BY <2>2 DEF LastIn
    <3>2. ASSUME NEW j \in DOMAIN q, j > i + 1
          PROVE  q[j] \notin bad
      <4>1. j # 1
        BY <1>6, <3>2
      <4>2. PICK m \in DOMAIN p : j = m + 1
        BY <1>6, <4>1
      <4>3. m > i /\ q[j] = p[m]
        BY <1>6, <1>7, <3>2, <4>2
      <4>4. QED
        BY <3>1, <4>3
    <3>3. i + 1 \in DOMAIN q /\ q[i + 1] \in good
      BY <1>6, <1>7, <3>1
    <3>4. QED
      BY <3>2, <3>3 DEF LastIn
  <2>3. ASSUME e \in good, NoneIn(p, bad)
        PROVE  LastIn(q, good, bad)
    <3>1. q[1] \in good /\ \A j \in DOMAIN q : j > 1 => q[j] \notin bad
      BY <1>4, <1>6, <1>7, <2>3 DEF NoneIn
    <3>2. QED
      BY <1>6, <3>1 DEF LastIn
  <2>4. QED
    BY <2>1, <2>2, <2>3
<1>9. NoneIn(q, bad) <=> e \notin bad /\ NoneIn(p, bad)
  <2>1. ASSUME NoneIn(q, bad)
        PROVE  e \notin bad /\ NoneIn(p, bad)
    BY <1>4, <1>6, <1>7, <2>1 DEF NoneIn
  <2>2. ASSUME e \notin bad, NoneIn(p, bad), NEW k \in DOMAIN q
        PROVE  q[k] \notin bad
    <3>1. CASE k = 1
      BY <1>4, <2>2, <3>1
    <3>2. CASE k # 1
      BY <1>6, <1>7, <2>2, <3>2 DEF NoneIn
    <3>3. QED
      BY <3>1, <3>2
  <2>3. QED
    BY <2>1, <2>2 DEF NoneIn
<1>10. QED
  BY <1>1, <1>2, <1>8, <1>9

(* What the messages are, by their kinds.                                  *)
LEMMA MessageKinds ==
  ASSUME NEW e \in (Reports \cup Accounts) \cup (Merges \cup Updates)
  PROVE  /\ e \in Accounts <=> e.kind = "account"
         /\ \A t, a : e \in Saying(t, a) <=> e.kind = "account" /\ e.total = t /\ e.available = a
         /\ e \in Opens <=> e.kind = "open"
         /\ e \in EmptySells <=> e.kind = "open" /\ e.volume = 0
         /\ e \in Removals <=> e.kind = "closed" \/ (e.kind = "filled" /\ e.side = "sell")
<1>1. CASE e.kind \in {"account"}
  <2>1. e \in Accounts
    BY <1>1 DEF Reports, Merges, Updates, Accounts
  <2>2. e = [kind |-> e.kind, total |-> e.total, available |-> e.available]
    BY <2>1 DEF Accounts
  <2>3. QED
    BY <1>1, <2>1, <2>2 DEF Accounts, Saying, Opens, EmptySells, Removals
<1>2. CASE e.kind # "account"
  BY <1>2 DEF Reports, Merges, Updates, Accounts, Saying, Opens, EmptySells, Removals, Sides
<1>3. QED
  BY <1>1, <1>2

(* What the last message of a queue changes.                               *)
LEMMA KnownAppend ==
  ASSUME NEW S \in {Reports \cup Accounts, Merges \cup Updates}, NEW q \in Seq(S), NEW e \in S
  PROVE  /\ \A t, a : LastSays(Append(q, e), t, a)
                      <=> IF e.kind = "account" THEN e \in Saying(t, a) ELSE LastSays(q, t, a)
         /\ LastOpens(Append(q, e)) <=> e.kind = "open" \/ (LastOpens(q) /\ e \notin Removals)
         /\ NoRemoval(Append(q, e)) <=> NoRemoval(q) /\ e \notin Removals
         /\ NoEmptySell(Append(q, e))
            <=> NoEmptySell(q) /\ (e.kind = "open" => e.volume # 0)
         /\ NoAccount(Append(q, e)) <=> NoAccount(q) /\ e.kind # "account"
         /\ NoOpen(Append(q, e)) <=> NoOpen(q) /\ e.kind # "open"
<1>1. PICK p \in Seq(S) : p = Append(q, e)
  BY AppendProperties
<1>2. \A good, bad :
        /\ LastIn(p, good, bad) <=> e \in good \/ (LastIn(q, good, bad) /\ e \notin bad)
        /\ NoneIn(p, bad) <=> NoneIn(q, bad) /\ e \notin bad
  BY <1>1, LastAppended
<1>3. /\ e \in Accounts <=> e.kind = "account"
      /\ \A t, a : e \in Saying(t, a) => e.kind = "account"
      /\ e \in Opens <=> e.kind = "open"
      /\ e \in EmptySells <=> e.kind = "open" /\ e.volume = 0
  BY MessageKinds
<1>4. QED
  BY <1>1, <1>2, <1>3 DEF LastSays, LastOpens, NoRemoval, NoEmptySell, NoAccount, NoOpen

(* What the first message of a queue tells.                                *)
LEMMA KnownTail ==
  ASSUME NEW S \in {Reports \cup Accounts, Merges \cup Updates}, NEW q \in Seq(S), q # <<>>
  PROVE  /\ \A t, a : LastSays(q, t, a)
                      <=> \/ LastSays(Tail(q), t, a)
                          \/ Head(q) \in Saying(t, a) /\ NoAccount(Tail(q))
         /\ LastOpens(q) <=> \/ LastOpens(Tail(q))
                             \/ Head(q).kind = "open" /\ NoRemoval(Tail(q))
         /\ NoRemoval(q) <=> Head(q) \notin Removals /\ NoRemoval(Tail(q))
         /\ NoEmptySell(q)
            <=> (Head(q).kind = "open" => Head(q).volume # 0) /\ NoEmptySell(Tail(q))
         /\ NoAccount(q) <=> Head(q).kind # "account" /\ NoAccount(Tail(q))
         /\ NoOpen(q) <=> Head(q).kind # "open" /\ NoOpen(Tail(q))
<1>1. PICK p \in Seq(S), e \in S : p = Tail(q) /\ e = Head(q)
  BY HeadTailProperties
<1>2. \A good, bad :
        /\ LastIn(q, good, bad) <=> LastIn(p, good, bad) \/ (e \in good /\ NoneIn(p, bad))
        /\ NoneIn(q, bad) <=> e \notin bad /\ NoneIn(p, bad)
  BY <1>1, FirstTaken
<1>3. /\ e \in Accounts <=> e.kind = "account"
      /\ e \in Opens <=> e.kind = "open"
      /\ e \in EmptySells <=> e.kind = "open" /\ e.volume = 0
  BY MessageKinds
<1>4. QED
  BY <1>1, <1>2, <1>3 DEF LastSays, LastOpens, NoRemoval, NoEmptySell, NoAccount, NoOpen

(* When a timer fires the bot knows its balance and its open order.        *)
LEMMA TickKnows ==
  ASSUME TypeInv, NewsFirst, KnowsSell, Tick
  PROVE  /\ balance.total = held /\ balance.available = held - sellOrder.left
         /\ sellOrder # NoOrder => openSell # 0
<1>1. ASSUME NEW kind \in {"open", "account"}
      PROVE  kind \notin KindsUnderWay
  <2>1. kind \in Awaited /\ kind # "forward" /\ kind \notin Races
    BY DEF Awaited, NewsFirst
  <2>2. QED
    BY <2>1 DEF Tick, Timely
<1>2. \A k \in DOMAIN news : news[k].kind \notin {"open", "account"}
  BY <1>1 DEF KindsUnderWay
<1>3. \A k \in DOMAIN loop : loop[k].kind \notin {"open", "account"}
  BY <1>1 DEF KindsUnderWay
<1>4. ~LastSays(news, held, Free) /\ ~LastSays(loop, held, Free) /\ ~LastOpens(news) /\ NoOpen(loop)
  BY <1>2, <1>3 DEF LastSays, LastOpens, LastIn, NoOpen, NoneIn, Saying, Opens
<1>5. QED
  BY <1>4 DEF KnowsSell, BalanceFollows, SellFollows, Free

(* The exchange tells the balance as it is.                                *)
LEMMA TellSays ==
  ASSUME TypeOK, NEW report \in Reports, NEW total \in Nat, NEW locked \in Nat,
         locked <= total, Tell(report, total, locked)
  PROVE  /\ LastSays(news', total, total - locked)
         /\ LastOpens(news') <=> report.kind = "open" \/ (LastOpens(news) /\ report \notin Removals)
         /\ NoRemoval(news') <=> NoRemoval(news) /\ report \notin Removals
         /\ NoEmptySell(news')
            <=> NoEmptySell(news) /\ (report.kind = "open" => report.volume # 0)
<1> DEFINE account == [kind |-> "account", total |-> total, available |-> total - locked]
           Both == Reports \cup Accounts
<1>1. /\ Both \in {Reports \cup Accounts, Merges \cup Updates}
      /\ account \in Both /\ report \in Both /\ report.kind # "account"
      /\ account.kind = "account" /\ account \notin Removals
      /\ account \in Saying(total, total - locked)
  BY DEF Reports, Accounts, Volumes, Removals, Saying
<1>2. news \in Seq(Both)
  BY DEF TypeOK
<1>3. news' = news \o <<report, account>> \/ news' = news \o <<account, report>>
  BY DEF Tell
<1> HIDE DEF account, Both
<1>4. ASSUME NEW d \in Both, NEW e \in Both
      PROVE  /\ news \o <<d, e>> = Append(Append(news, d), e)
             /\ Append(news, d) \in Seq(Both)
  BY <1>2, <1>4, AppendProperties
<1>5. CASE news' = news \o <<report, account>>
  <2>1. PICK p \in Seq(Both) : p = Append(news, report)
    BY <1>1, <1>4
  <2>2. news' = Append(p, account)
    BY <1>1, <1>4, <1>5, <2>1
  <2>3. /\ LastOpens(p) <=> report.kind = "open" \/ (LastOpens(news) /\ report \notin Removals)
        /\ NoRemoval(p) <=> NoRemoval(news) /\ report \notin Removals
        /\ NoEmptySell(p) <=> NoEmptySell(news) /\ (report.kind = "open" => report.volume # 0)
    BY <1>1, <1>2, <2>1, KnownAppend
  <2>4. /\ LastSays(news', total, total - locked)
        /\ LastOpens(news') <=> LastOpens(p)
        /\ NoRemoval(news') <=> NoRemoval(p)
        /\ NoEmptySell(news') <=> NoEmptySell(p)
    BY <1>1, <2>2, KnownAppend
  <2>5. QED
    BY <2>3, <2>4
<1>6. CASE news' = news \o <<account, report>>
  <2>1. PICK p \in Seq(Both) : p = Append(news, account)
    BY <1>1, <1>4
  <2>2. news' = Append(p, report)
    BY <1>1, <1>4, <1>6, <2>1
  <2>3. /\ LastSays(p, total, total - locked)
        /\ LastOpens(p) <=> LastOpens(news)
        /\ NoRemoval(p) <=> NoRemoval(news)
        /\ NoEmptySell(p) <=> NoEmptySell(news)
    BY <1>1, <1>2, <2>1, KnownAppend
  <2>4. /\ LastSays(news', total, total - locked)
        /\ LastOpens(news') <=> report.kind = "open" \/ (LastOpens(p) /\ report \notin Removals)
        /\ NoRemoval(news') <=> NoRemoval(p) /\ report \notin Removals
        /\ NoEmptySell(news')
           <=> NoEmptySell(p) /\ (report.kind = "open" => report.volume # 0)
    BY <1>1, <2>2, <2>3, KnownAppend
  <2>5. QED
    BY <2>3, <2>4
<1>7. QED
  BY <1>3, <1>5, <1>6

(* What happens at the exchange is told.                                   *)
LEMMA ExchangeKnows ==
  ASSUME TypeInv, KnowsSell, Exchange
  PROVE  KnowsSell'
<1>1. /\ TypeOK /\ SellHeld /\ held \in Nat /\ sellOrder \in SellOrder /\ wire \subseteq Post
      /\ sellOrder.left \in Nat /\ sellOrder.volume \in Nat /\ sellOrder.left <= held
  BY DEF TypeInv, TypeOK, SellHeld, SellOrder, Volumes
<1>2. /\ SellFollows /\ BalanceFollows
      /\ \A p \in wire : p.side = "sell" => p.volume # 0
      /\ sellOrder # NoOrder => sellOrder.volume # 0
      /\ NoEmptySell(news) /\ NoEmptySell(loop)
  BY DEF KnowsSell, SellsSomething
<1>3. /\ NoOrder.left = 0 /\ loop' = loop /\ balance' = balance /\ openSell' = openSell
  BY DEF NoOrder, Exchange, AnswerPost, FillBuy, KillBuy, RestSell, RefuseSell, TradeSell,
         FillSell, ExecuteCancel, LoseCancel, BotUnchanged, storageVars
<1>4. ASSUME NEW report \in Reports, NEW total \in Nat, NEW locked \in Nat, locked <= total,
             Tell(report, total, locked), held' = total, sellOrder'.left = locked,
             sellOrder' # NoOrder =>
               \/ report.kind = "open" /\ report.volume # 0 /\ sellOrder'.volume # 0
               \/ sellOrder' = sellOrder /\ report.kind # "open" /\ report \notin Removals,
             sellOrder' = NoOrder => report.kind # "open",
             wire' \subseteq wire
      PROVE  KnowsSell'
  <2>1. /\ LastSays(news', total, total - locked)
        /\ LastOpens(news') <=> report.kind = "open" \/ (LastOpens(news) /\ report \notin Removals)
        /\ NoRemoval(news') <=> NoRemoval(news) /\ report \notin Removals
        /\ NoEmptySell(news')
           <=> NoEmptySell(news) /\ (report.kind = "open" => report.volume # 0)
    BY <1>1, <1>4, TellSays
  <2>2. BalanceFollows'
    BY <1>4, <2>1 DEF BalanceFollows, Free
  <2>3. SellFollows'
    BY <1>2, <1>3, <1>4, <2>1 DEF SellFollows
  <2>4. SellsSomething'
    BY <1>2, <1>3, <1>4, <2>1 DEF SellsSomething
  <2>5. QED
    BY <2>2, <2>3, <2>4 DEF KnowsSell
<1>5. ASSUME UNCHANGED <<held, sellOrder, news>>, wire' \subseteq wire
      PROVE  KnowsSell'
  <2>1. BalanceFollows' /\ SellFollows'
    BY <1>2, <1>3, <1>5 DEF BalanceFollows, SellFollows, Free
  <2>2. SellsSomething'
    BY <1>2, <1>3, <1>5 DEF SellsSomething
  <2>3. QED
    BY <2>1, <2>2 DEF KnowsSell
<1>6. ASSUME NEW p \in wire, FillBuy(p)
      PROVE  KnowsSell'
  <2> DEFINE report == [kind |-> "filled", side |-> "buy"]
  <2>1. report \in Reports /\ report.kind = "filled" /\ report \notin Removals
    BY DEF Reports, Sides, Removals
  <2>2. p.volume \in Nat /\ held' = held + p.volume /\ sellOrder' = sellOrder
        /\ wire' \subseteq wire /\ Tell(report, held', sellOrder.left)
    BY <1>1, <1>6 DEF FillBuy, Post, Volumes
  <2>3. held' \in Nat /\ sellOrder.left <= held'
    BY <1>1, <2>2
  <2>4. sellOrder = NoOrder => report.kind # "open"
    BY <2>1
  <2> HIDE DEF report
  <2>5. QED
    BY <1>1, <1>4, <2>1, <2>2, <2>3
<1>7. ASSUME NEW p \in wire, KillBuy(p) \/ RefuseSell(p)
      PROVE  KnowsSell'
  BY <1>5, <1>7 DEF KillBuy, RefuseSell, exchangeVars
<1>8. ASSUME NEW p \in wire, RestSell(p)
      PROVE  KnowsSell'
  <2> DEFINE report == [kind |-> "open", volume |-> p.volume]
  <2>1. p.volume \in Nat /\ p.volume # 0 /\ p.volume <= held
    BY <1>1, <1>2, <1>3, <1>8 DEF RestSell, Post, Volumes, Free
  <2>2. report \in Reports /\ report.kind = "open" /\ report.volume = p.volume
    BY <2>1 DEF Reports, Volumes
  <2>3. /\ sellOrder'.volume = p.volume /\ sellOrder'.left = p.volume
        /\ held' = held /\ wire' \subseteq wire /\ Tell(report, held, p.volume)
    BY <1>8 DEF RestSell
  <2>4. sellOrder' # NoOrder
    BY <2>1, <2>3 DEF NoOrder
  <2> HIDE DEF report
  <2>5. QED
    BY <1>1, <1>4, <2>1, <2>2, <2>3, <2>4
<1>9. CASE TradeSell
  <2> DEFINE report == [kind |-> "open", volume |-> sellOrder.volume]
  <2>1. report \in Reports /\ report.kind = "open" /\ report.volume = sellOrder.volume
    BY <1>1 DEF Reports, Volumes
  <2>2. sellOrder # NoOrder /\ sellOrder.volume # 0
    BY <1>2, <1>9 DEF TradeSell
  <2>3. /\ sellOrder'.left = sellOrder.left \div 2 /\ sellOrder'.volume = sellOrder.volume
        /\ held' = held - sellOrder.left + sellOrder'.left /\ wire' = wire
        /\ Tell(report, held', sellOrder'.left)
    BY <1>1, <1>9 DEF TradeSell, SellOrder, requestVars
  <2>4. PICK left \in Nat : left = sellOrder.left \div 2
    BY <1>1
  <2>5. PICK rest \in Nat : rest = held - sellOrder.left
    BY <1>1
  <2>6. held' = rest + left /\ held' \in Nat /\ left <= held'
    BY <2>3, <2>4, <2>5
  <2>7. sellOrder' # NoOrder
    BY <2>2, <2>3 DEF NoOrder
  <2> HIDE DEF report
  <2>8. QED
    BY <1>4, <2>1, <2>2, <2>3, <2>4, <2>6, <2>7
<1>10. CASE FillSell
  <2> DEFINE report == [kind |-> "filled", side |-> "sell"]
  <2>1. report \in Reports /\ report.kind = "filled"
    BY DEF Reports, Sides
  <2>2. /\ sellOrder' = NoOrder /\ held' = held - sellOrder.left /\ wire' = wire
        /\ Tell(report, held', 0)
    BY <1>10 DEF FillSell
  <2>3. held' \in Nat /\ 0 <= held' /\ 0 \in Nat
    BY <1>1, <2>2
  <2> HIDE DEF report
  <2>4. QED
    BY <1>3, <1>4, <2>1, <2>2, <2>3
<1>11. CASE ExecuteCancel
  <2> DEFINE report == [kind |-> "closed"]
  <2>1. report \in Reports /\ report.kind = "closed"
    BY DEF Reports
  <2>2. sellOrder' = NoOrder /\ held' = held /\ wire' = wire /\ Tell(report, held, 0)
    BY <1>11 DEF ExecuteCancel
  <2>3. 0 <= held /\ 0 \in Nat
    BY <1>1
  <2> HIDE DEF report
  <2>4. QED
    BY <1>1, <1>3, <1>4, <2>1, <2>2, <2>3
<1>12. CASE LoseCancel
  BY <1>5, <1>12 DEF LoseCancel, exchangeVars
<1>13. QED
  BY <1>6, <1>7, <1>8, <1>9, <1>10, <1>11, <1>12 DEF Exchange, AnswerPost

(* A message handled is passed on, an order removed was rested before.     *)
LEMMA NewsKnows ==
  ASSUME TypeInv, KnowsSell, HandleNews
  PROVE  KnowsSell'
<1>1. /\ TypeOK /\ news \in Seq(Reports \cup Accounts) /\ loop \in Seq(Merges \cup Updates)
  BY DEF TypeInv, TypeOK
<1>2. /\ SellFollows /\ BalanceFollows
      /\ \A p \in wire : p.side = "sell" => p.volume # 0
      /\ sellOrder # NoOrder => sellOrder.volume # 0
      /\ NoEmptySell(news) /\ NoEmptySell(loop)
  BY DEF KnowsSell, SellsSomething
<1>3. PICK kind \in {"open", "filled", "closed", "account"} : Receive(kind)
  BY DEF HandleNews, ReportOpen, ReportFilled, ReportClosed, OutboundAccount
<1>4. PICK m \in Reports \cup Accounts : m = Head(news) /\ m.kind = kind
  BY <1>1, <1>3, ReceiveEffect
<1>4a. \A t, a : m \in Saying(t, a) => kind = "account"
  BY <1>4, MessageKinds
<1>5. /\ news # <<>> /\ news' = Tail(news) /\ held' = held /\ sellOrder' = sellOrder
      /\ wire' = wire
  BY <1>3 DEF Receive, exchangeVars, requestVars
<1>6. /\ \A t, a : LastSays(news, t, a)
                   <=> \/ LastSays(news', t, a)
                       \/ m \in Saying(t, a) /\ NoAccount(news')
      /\ LastOpens(news) <=> LastOpens(news') \/ (kind = "open" /\ NoRemoval(news'))
      /\ NoRemoval(news) <=> m \notin Removals /\ NoRemoval(news')
      /\ NoEmptySell(news) <=> (kind = "open" => m.volume # 0) /\ NoEmptySell(news')
      /\ NoAccount(news)
         <=> kind # "account" /\ NoAccount(news')
  BY <1>1, <1>4, <1>5, KnownTail
<1>7. NoEmptySell(news')
  BY <1>2, <1>6
<1>8. CASE kind \in {"open", "account"}
  <2>1. loop' = Append(loop, m) /\ UNCHANGED storageVars
    BY <1>3, <1>4, <1>8 DEF HandleNews, ReportOpen, ReportFilled, ReportClosed,
                            OutboundAccount, Receive
  <2>2. m \in Merges \cup Updates
    BY <1>4, <1>8 DEF Reports, Accounts, Merges
  <2>3. /\ \A t, a : LastSays(loop', t, a)
                     <=> IF kind = "account" THEN m \in Saying(t, a) ELSE LastSays(loop, t, a)
        /\ NoEmptySell(loop') <=> NoEmptySell(loop) /\ (kind = "open" => m.volume # 0)
        /\ NoAccount(loop') <=> NoAccount(loop) /\ kind # "account"
        /\ NoOpen(loop') <=> NoOpen(loop) /\ kind # "open"
    BY <1>1, <1>4, <2>1, <2>2, KnownAppend
  <2>4. BalanceFollows'
    <3>1. balance' = balance /\ Free' = Free /\ BalanceFollows
      BY <1>2, <1>5, <2>1 DEF storageVars, Free
    <3>2. CASE kind = "account"
      <4>1. LastSays(news, held, Free)
        BY <1>6, <3>1, <3>2 DEF BalanceFollows
      <4>2. LastSays(news', held, Free)
            \/ (NoAccount(news') /\ LastSays(loop', held, Free))
        BY <1>6, <2>3, <3>2, <4>1
      <4>3. QED
        BY <1>5, <3>1, <4>2 DEF BalanceFollows
    <3>3. CASE kind = "open"
      <4>1. m \notin Saying(held, Free)
        BY <1>4, <3>3 DEF Saying
      <4>2. QED
        BY <1>5, <1>6, <2>3, <3>1, <3>3, <4>1 DEF BalanceFollows
    <3>4. QED
      BY <1>8, <3>2, <3>3
  <2>5. m \notin Removals
    BY <1>4, <1>8 DEF Removals
  <2>6. SellFollows'
    BY <1>2, <1>5, <1>6, <1>8, <2>1, <2>3, <2>5 DEF SellFollows, storageVars
  <2>7. SellsSomething'
    BY <1>2, <1>5, <1>6, <1>7, <2>3 DEF SellsSomething
  <2>8. QED
    BY <2>4, <2>6, <2>7 DEF KnowsSell
<1>9. CASE kind \in {"filled", "closed"}
  <2> DEFINE e == [kind |-> "history"]
  <2>1. /\ loop' = loop \/ loop' = Append(loop, e)
        /\ balance' = balance
        /\ m \in Removals \/ openSell' = openSell
    BY <1>3, <1>4, <1>9 DEF HandleNews, ReportOpen, ReportFilled, ReportClosed, OutboundAccount,
                            Receive, Removals, Reports, Accounts, Sides
  <2>2. e \in Merges \cup Updates /\ e.kind = "history"
    BY DEF Merges
  <2>3. /\ \A t, a : LastSays(loop', t, a) <=> LastSays(loop, t, a)
        /\ NoEmptySell(loop') <=> NoEmptySell(loop)
        /\ NoAccount(loop') <=> NoAccount(loop)
        /\ NoOpen(loop') <=> NoOpen(loop)
    <3> HIDE DEF e
    <3>1. CASE loop' = Append(loop, e)
      BY <1>1, <2>2, <3>1, KnownAppend
    <3>2. QED
      BY <2>1, <3>1
  <2>4. BalanceFollows'
    BY <1>2, <1>4a, <1>5, <1>6, <1>9, <2>1, <2>3 DEF BalanceFollows, Free
  <2>5. SellFollows'
    BY <1>2, <1>5, <1>6, <1>9, <2>1, <2>3 DEF SellFollows
  <2>6. SellsSomething'
    BY <1>2, <1>5, <1>7, <2>3 DEF SellsSomething
  <2>7. QED
    BY <2>4, <2>5, <2>6 DEF KnowsSell
<1>10. QED
  BY <1>3, <1>8, <1>9

(* A merge makes known what was on its way.                                *)
LEMMA PostedKnows ==
  ASSUME TypeInv, KnowsSell, HandlePosted
  PROVE  KnowsSell'
<1>1. TypeOK /\ loop \in Seq(Merges \cup Updates)
  BY DEF TypeInv, TypeOK
<1>2. /\ SellFollows /\ BalanceFollows
      /\ \A p \in wire : p.side = "sell" => p.volume # 0
      /\ sellOrder # NoOrder => sellOrder.volume # 0
      /\ NoEmptySell(news) /\ NoEmptySell(loop)
  BY DEF KnowsSell, SellsSomething
<1>3. PICK kind \in {"open", "history", "account", "forward", "update"} : Deliver(kind)
  BY DEF HandlePosted, MergeOpen, MergeHistory, MergeBalance, ForwardUpdate,
         UpdateMarketUserConfig
<1>4. /\ held' = held /\ sellOrder' = sellOrder /\ wire' = wire /\ news' = news
  BY <1>3 DEF Deliver, exchangeVars, requestVars
<1>5. PICK p \in Seq(Merges \cup Updates) : p = Tail(loop)
  BY <1>1, <1>3, DeliverEffect
<1>6. PICK m \in Merges \cup Updates : m = Head(loop) /\ m.kind = kind /\ loop # <<>>
  BY <1>1, <1>3, DeliverEffect
<1>6a. \A t, a : m \in Saying(t, a) <=> kind = "account" /\ m.total = t /\ m.available = a
  BY <1>6, MessageKinds
<1>7. /\ \A t, a : LastSays(loop, t, a)
                   <=> \/ LastSays(p, t, a)
                       \/ m \in Saying(t, a) /\ NoAccount(p)
      /\ NoEmptySell(loop) <=> (kind = "open" => m.volume # 0) /\ NoEmptySell(p)
      /\ NoAccount(loop) <=> kind # "account" /\ NoAccount(p)
      /\ NoOpen(loop) <=> kind # "open" /\ NoOpen(p)
  BY <1>1, <1>5, <1>6, KnownTail
<1>8. /\ \A t, a : LastSays(loop', t, a) <=> LastSays(p, t, a)
      /\ NoEmptySell(loop') <=> NoEmptySell(p)
      /\ NoAccount(loop') <=> NoAccount(p)
      /\ NoOpen(loop') <=> NoOpen(p)
  <2>1. CASE kind = "forward"
    <3> DEFINE e == [kind |-> "update", config |-> m.config]
    <3>1. loop' = Append(p, e)
      BY <1>3, <1>5, <1>6, <2>1 DEF HandlePosted, MergeOpen, MergeHistory, MergeBalance,
                                    ForwardUpdate, UpdateMarketUserConfig, Deliver
    <3>2. e \in Merges \cup Updates /\ e.kind = "update"
      BY <1>6, <2>1 DEF Merges, Updates, Accounts
    <3> HIDE DEF e
    <3>3. QED
      BY <1>5, <3>1, <3>2, KnownAppend
  <2>2. CASE kind # "forward"
    <3>1. loop' = p
      BY <1>3, <1>5, <1>6, <2>2 DEF HandlePosted, MergeOpen, MergeHistory, MergeBalance,
                                    ForwardUpdate, UpdateMarketUserConfig, Deliver
    <3>2. QED
      BY <3>1
  <2>3. QED
    BY <2>1, <2>2
<1>9. /\ IF kind = "account" THEN balance' = [total |-> m.total, available |-> m.available]
                             ELSE balance' = balance
      /\ IF kind = "open" THEN openSell' = m.volume ELSE openSell' = openSell
  BY <1>3, <1>6 DEF HandlePosted, MergeOpen, MergeHistory, MergeBalance, ForwardUpdate,
                    UpdateMarketUserConfig, Deliver, storageVars
<1>10. BalanceFollows'
  <2>1. CASE kind = "account"
    BY <1>2, <1>4, <1>6a, <1>7, <1>8, <1>9, <2>1 DEF BalanceFollows, Free
  <2>2. CASE kind # "account"
    BY <1>2, <1>4, <1>6a, <1>7, <1>8, <1>9, <2>2 DEF BalanceFollows, Free
  <2>3. QED
    BY <2>1, <2>2
<1>11. SellFollows'
  <2>1. CASE kind = "open"
    BY <1>2, <1>4, <1>7, <1>8, <1>9, <2>1 DEF SellFollows
  <2>2. CASE kind # "open"
    BY <1>2, <1>4, <1>7, <1>8, <1>9, <2>2 DEF SellFollows
  <2>3. QED
    BY <2>1, <2>2
<1>12. SellsSomething'
  BY <1>2, <1>4, <1>7, <1>8 DEF SellsSomething
<1>13. QED
  BY <1>10, <1>11, <1>12 DEF KnowsSell

(* A tick or the trend posts nothing that a balance or an order is known   *)
(* from.                                                                   *)
LEMMA BotPosts ==
  ASSUME TypeInv, KnowsSell, UNCHANGED <<held, sellOrder, news, balance, openSell>>,
         \A p \in wire' : p \in wire \/ p.side = "buy" \/ p.volume # 0,
         \/ loop' = loop
         \/ \E e \in Updates : loop' = Append(loop, e)
  PROVE  KnowsSell'
<1>1. loop \in Seq(Merges \cup Updates)
  BY DEF TypeInv, TypeOK
<1>2. /\ \A t, a : LastSays(loop', t, a) <=> LastSays(loop, t, a)
      /\ NoEmptySell(loop') <=> NoEmptySell(loop)
      /\ NoAccount(loop') <=> NoAccount(loop)
      /\ NoOpen(loop') <=> NoOpen(loop)
  <2>1. CASE \E e \in Updates : loop' = Append(loop, e)
    <3>1. PICK e \in Updates : loop' = Append(loop, e)
      BY <2>1
    <3>2. e \in Merges \cup Updates /\ e.kind \notin {"open", "account"}
      BY DEF Updates
    <3>3. QED
      BY <1>1, <3>1, <3>2, KnownAppend
  <2>2. QED
    BY <2>1
<1>3. BalanceFollows' /\ SellFollows'
  BY <1>2 DEF KnowsSell, BalanceFollows, SellFollows, Free
<1>4. SellsSomething'
  BY <1>2 DEF KnowsSell, SellsSomething
<1>5. QED
  BY <1>3, <1>4 DEF KnowsSell

(* A tick sends no empty sell.                                             *)
LEMMA TickKeepsKnowing ==
  ASSUME TypeInv, KnowsSell, Algorithm \/ Trend
  PROVE  KnowsSell'
<1>1. /\ config \in UserConfig /\ config.exec \in Nat /\ config.start \in Nat /\ TypeOK
      /\ config.exec + 1 \in Nat
  BY DEF TypeInv, TypeOK, UserConfig
<1>2. ASSUME NEW flags, NEW c \in UserConfig, NEW rows, Update(flags, c, rows)
      PROVE  \E e \in Updates : loop' = Append(loop, e)
  <2>1. [kind |-> "forward", config |-> c] \in Updates
    BY DEF Updates
  <2>2. QED
    BY <1>2, <2>1 DEF Update
<1>3. ASSUME NEW s \in Steps, NEW flags \in Flags, NEW exec \in Nat, NEW start \in Nat,
             UpdateMarketMetaConfig(s, flags, exec, start)
      PROVE  \E e \in Updates : loop' = Append(loop, e)
  <2>1. ConfigWith(s, flags, exec, start) \in UserConfig
    BY <1>1, ConfigWithTyped
  <2>2. QED
    BY <1>2, <1>3, <2>1 DEF UpdateMarketMetaConfig
<1>4. \A s \in Steps : BlockBuy(s) \in Flags /\ BlockSell(s) \in Flags /\ BlockBoth(s) \in Flags
  BY <1>1, BlocksTyped
<1>5. ASSUME NoRequest \/ CancelOrder
      PROVE  UNCHANGED <<held, sellOrder, news, balance, openSell>> /\ wire' = wire
  BY <1>5 DEF NoRequest, CancelOrder, exchangeVars, requestVars, storageVars
<1>6. ASSUME NEW side \in Sides, NEW volume, NEW s, NEW over,
             SubmitOrder(side, volume, s, over), side = "sell" => volume # 0
      PROVE  /\ UNCHANGED <<held, sellOrder, news, balance, openSell>>
             /\ \A p \in wire' : p \in wire \/ p.side = "buy" \/ p.volume # 0
  BY <1>6 DEF SubmitOrder, exchangeVars, storageVars, Sides
<1>7. ASSUME LooksAtIt
      PROVE  loop' = loop
  BY <1>7 DEF LooksAtIt
<1>8. CASE CloseZero
  <2>1. StartAt(Newest) \in Nat /\ 0 \in Steps
    BY <1>1, <1>8, NewestTyped, TableAssumption DEF CloseZero, StartAt, Steps
  <2>2. \E e \in Updates : loop' = Append(loop, e)
    BY <1>1, <1>3, <1>4, <1>8, <2>1 DEF CloseZero
  <2>3. QED
    BY <1>5, <1>8, <2>2, BotPosts DEF CloseZero
<1>9. CASE BuyZero
  BY <1>6, <1>7, <1>9, BotPosts DEF BuyZero, Sides
<1>10. CASE Wait
  BY <1>5, <1>7, <1>10, BotPosts DEF Wait
<1>11. ASSUME NEW s \in Steps, SkipStep(s) \/ CloseBuy(s) \/ CancelFallen(s)
       PROVE  KnowsSell'
  <2>1. \E e \in Updates : loop' = Append(loop, e)
    BY <1>1, <1>3, <1>4, <1>11 DEF SkipStep, CloseBuy, CloseBuyIf, CancelFallen
  <2>2. NoRequest \/ CancelOrder
    BY <1>11 DEF SkipStep, CloseBuy, CloseBuyIf, CancelFallen
  <2>3. QED
    BY <1>5, <2>1, <2>2, BotPosts
<1>12. ASSUME NEW s \in Steps, Unlock(s)
       PROVE  KnowsSell'
  <2> DEFINE c == [config EXCEPT !.flags = NoFlags, !.exec = 0, !.start = 0]
  <2>1. c \in UserConfig
    BY <1>1, NoFlagsTyped DEF UserConfig
  <2>2. Update(NoFlags, c, {}) /\ NoRequest
    BY <1>12 DEF Unlock, UnlockAllSteps, UnlockWith
  <2>3. QED
    BY <1>2, <1>5, <2>1, <2>2, BotPosts
<1>13. ASSUME NEW s \in Steps, Buy(s)
       PROVE  KnowsSell'
  BY <1>6, <1>7, <1>13, BotPosts DEF Buy, Sides
<1>14. ASSUME NEW s \in Steps, Sell(s)
       PROVE  KnowsSell'
  <2>1. balance.available # 0
    BY <1>14 DEF Sell, NothingLeft
  <2>2. QED
    BY <1>6, <1>7, <1>14, <2>1, BotPosts DEF Sell, Sides
<1>15. ASSUME NEW s \in Steps, CancelSmall(s)
       PROVE  KnowsSell'
  BY <1>5, <1>7, <1>15, BotPosts DEF CancelSmall
<1>16. CASE Trend
  <2>1. PICK r \in Int : PostRate(r)
    BY <1>16, RatesAssumption DEF Trend
  <2>2. [config EXCEPT !.rate = r] \in UserConfig
    BY <1>1 DEF UserConfig
  <2>3. [kind |-> "update", config |-> [config EXCEPT !.rate = r]] \in Updates
    BY <2>2 DEF Updates
  <2>4. NoRequest /\ \E e \in Updates : loop' = Append(loop, e)
    BY <2>1, <2>3 DEF PostRate
  <2>5. QED
    BY <1>5, <2>4, BotPosts
<1>17. QED
  BY <1>8, <1>9, <1>10, <1>11, <1>12, <1>13, <1>14, <1>15, <1>16 DEF Algorithm, Buying, Selling

(* A start reads what it must know.                                        *)
LEMMA StartKnows ==
  ASSUME TypeInv, KnowsSell, NEW rows, Start(rows)
  PROVE  KnowsSell'
<1>1. /\ news' = <<>> /\ loop' = <<>> /\ held' = held /\ sellOrder' = sellOrder /\ wire' = {}
      /\ balance'.total = held /\ balance'.available = held - sellOrder.left
      /\ openSell' = sellOrder.volume
  BY DEF Start, exchangeVars, requestVars
<1>2. /\ NoRemoval(<<>>) /\ NoEmptySell(<<>>) /\ NoAccount(<<>>) /\ NoOpen(<<>>)
  BY DEF NoRemoval, NoEmptySell, NoAccount, NoOpen, NoneIn
<1>3. sellOrder # NoOrder => sellOrder.volume # 0
  BY DEF KnowsSell, SellsSomething
<1>4. BalanceFollows'
  BY <1>1, <1>2 DEF BalanceFollows, Free
<1>5. SellFollows' /\ SellsSomething'
  BY <1>1, <1>2, <1>3 DEF SellFollows, SellsSomething
<1>6. QED
  BY <1>4, <1>5 DEF KnowsSell

(* No step loses what is known.                                            *)
LEMMA KnowsStep == TypeInv /\ KnowsSell /\ [Next]_vars => KnowsSell'
<1>1. CASE UNCHANGED vars
  BY <1>1 DEF vars, exchangeVars, requestVars, storageVars, KnowsSell, BalanceFollows,
              SellFollows, SellsSomething, Free
<1>2. TypeInv /\ KnowsSell /\ Next => KnowsSell'
  BY ExchangeKnows, NewsKnows, PostedKnows, TickKeepsKnowing, StartKnows
     DEF Next, Crash, StopAndStart
<1>3. QED
  BY <1>1, <1>2

(* The row of a pair is deleted, and its cycle begun anew, only when the   *)
(* position is sold: whatever else a timer outruns, whatever a sell trades *)
(* before it is canceled and however often the bot is stopped or dies, if  *)
(* no timer fires before the news of a sell and of the balance is merged   *)
(* (executeSellLogic, unlockAllSteps).                                     *)
THEOREM UnlockedWhenSoldHolds ==
  ASSUME NewsFirst
  PROVE  Spec => UnlockedWhenSold
<1>1. Init => KnowsSell
  <2>1. SUFFICES ASSUME Init PROVE KnowsSell
    OBVIOUS
  <2>2. NoRemoval(<<>>) /\ NoEmptySell(<<>>) /\ NoAccount(<<>>) /\ NoOpen(<<>>)
    BY DEF NoRemoval, NoEmptySell, NoAccount, NoOpen, NoneIn
  <2>3. NoOrder.left = 0
    BY DEF NoOrder
  <2>4. QED
    BY <2>1, <2>2, <2>3
       DEF Init, KnowsSell, BalanceFollows, SellFollows, SellsSomething, Free
<1>2. TypeInv /\ KnowsSell /\ [Next]_vars => (row # {} /\ row' = {} /\ traded' => held = 0)
  <2>1. SUFFICES ASSUME TypeInv, KnowsSell, [Next]_vars, row # {}, row' = {}, traded'
                 PROVE  held = 0
    OBVIOUS
  <2>2. \E s \in Steps : Unlock(s)
    <3>1. ASSUME NEW flags, NEW c, NEW rows, Update(flags, c, rows), rows # {}
          PROVE  FALSE
      BY <2>1, <3>1 DEF Update
    <3>2. ASSUME NEW s, NEW flags, NEW exec, NEW start,
                 UpdateMarketMetaConfig(s, flags, exec, start)
          PROVE  FALSE
      BY <3>1, <3>2 DEF UpdateMarketMetaConfig
    <3>3. ASSUME row' = row PROVE FALSE
      BY <2>1, <3>3
    <3>4. CASE Algorithm
      <4>1. ~CloseZero
        BY <3>2 DEF CloseZero
      <4>2. \A s : ~SkipStep(s) /\ ~CloseBuy(s) /\ ~CancelFallen(s)
        BY <3>2 DEF SkipStep, CloseBuy, CloseBuyIf, CancelFallen
      <4>3. ~LooksAtIt
        BY <3>3 DEF LooksAtIt, configVars
      <4>4. QED
        BY <3>4, <4>1, <4>2, <4>3
           DEF Algorithm, Buying, Selling, BuyZero, Wait, Buy, Sell, CancelSmall
    <3>5. CASE Trend \/ Exchange \/ HandleNews \/ HandlePosted
      BY <3>3, <3>5
         DEF Trend, PostRate, Exchange, AnswerPost, FillBuy, KillBuy, RestSell, RefuseSell,
             TradeSell, FillSell, ExecuteCancel, LoseCancel, BotUnchanged, HandleNews,
             ReportOpen, ReportFilled, ReportClosed, OutboundAccount, Receive, HandlePosted,
             MergeOpen, MergeHistory, MergeBalance, ForwardUpdate, UpdateMarketUserConfig,
             Deliver, configVars
    <3>6. CASE Crash \/ StopAndStart
      <4>1. PICK rows : Start(rows)
        BY <3>6 DEF Crash, StopAndStart
      <4>2. QED
        BY <2>1, <4>1 DEF Start
    <3>7. CASE UNCHANGED vars
      BY <3>3, <3>7 DEF vars, configVars
    <3>8. QED
      BY <2>1, <3>4, <3>5, <3>6, <3>7 DEF Next
  <2>3. PICK s \in Steps : Unlock(s)
    BY <2>2
  <2>4. Tick /\ openSell = 0 /\ NothingLeft
    BY <2>3 DEF Unlock, SellTurn
  <2>5. /\ balance.total = held /\ balance.available = held - sellOrder.left
        /\ sellOrder = NoOrder
    BY <2>1, <2>4, TickKnows
  <2>6. sellOrder.left = 0 /\ held \in Nat
    BY <2>1, <2>5 DEF NoOrder, TypeInv, TypeOK, Volumes
  <2>7. QED
    BY <2>4, <2>5, <2>6 DEF NothingLeft
<1>3. QED
  BY <1>1, <1>2, KnowsStep, TypesCorrect, PTL DEF Spec, UnlockedWhenSold
=============================================================================
