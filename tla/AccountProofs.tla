---------------------------- MODULE AccountProofs -----------------------------
(***************************************************************************)
(* Emulator implements Account, for any number of orders and any numbers:  *)
(* each handler is one movement of money on the storages as they will be   *)
(* when all that is posted is merged, and a merge moves none.              *)
(*                                                                         *)
(* PositionInv, of EmulatorProofs, says what is free and held of a coin    *)
(* when a handler begins; Own adds that a handler posts about the          *)
(* currencies of its pair only, so that those of another pair are not      *)
(* among what waits when it begins.                                        *)
(***************************************************************************)
EXTENDS EmulatorProofs

-----------------------------------------------------------------------------
(* The youngest entry of a currency.                                       *)

(* The places of the entries of a currency.                                *)
EntriesOf(q, c) == {i \in DOMAIN q : q[i].kind = "balances" /\ c \in DOMAIN q[i].data}

(* What is as large as all others is the largest.                          *)
LEMMA LargestIs ==
  ASSUME NEW S \in SUBSET Int, NEW m \in S, \A y \in S : m >= y
  PROVE  Max(S) = m
<1>1. \E x \in S : \A y \in S : x >= y
  OBVIOUS
<1>2. PICK k : k = CHOOSE x \in S : \A y \in S : x >= y
  OBVIOUS
<1>3. k \in S /\ \A y \in S : k >= y
  BY <1>1, <1>2
<1>4. k = m
  BY <1>3
<1>5. QED
  BY <1>2, <1>4 DEF Max

(* Among places of a queue there is a last one.                            *)
LEMMA LastPlace ==
  ASSUME NEW n \in Nat, NEW S \in SUBSET (1 .. n), S # {}
  PROVE  \E m \in S : \A y \in S : m >= y
<1> DEFINE T == {k \in Nat : \E x \in S : k = n - x}
<1>1. T \subseteq Nat /\ T # {}
  <2>1. PICK x \in S : TRUE
    OBVIOUS
  <2>2. n - x \in Nat
    BY <2>1
  <2>3. n - x \in T
    BY <2>1, <2>2
  <2>4. QED
    BY <2>3
<1>2. \A x \in S : n - x \in T
  OBVIOUS
<1>3. T \in SUBSET Nat
  BY <1>1
<1> HIDE DEF T
<1>4. PICK k \in T : \A j \in T : k <= j
  BY <1>1, <1>3, LeastNumber
<1>5. PICK m \in S : k = n - m
  BY <1>4 DEF T
<1>6. ASSUME NEW y \in S PROVE m >= y
  <2>1. k <= n - y
    BY <1>2, <1>4
  <2>2. QED
    BY <1>5, <2>1
<1>7. QED
  BY <1>6

(* What is posted last of a currency is what it will be.                   *)
LEMMA SettledAppend ==
  ASSUME NEW q \in Seq(Posts), NEW e \in Posts, NEW stored, NEW c
  PROVE  Settled(Append(q, e), stored, c)
           = IF e.kind = "balances" /\ c \in DOMAIN e.data THEN e.data[c] ELSE Settled(q, stored, c)
<1>1. PICK r \in Seq(Posts) : r = Append(q, e)
  BY AppendProperties
<1>2. PICK n \in Nat : n = Len(q)
  BY LenProperties
<1>3. Len(r) = n + 1 /\ (\A i \in 1 .. n : r[i] = q[i]) /\ r[n + 1] = e
  BY <1>1, <1>2, AppendProperties
<1>4. DOMAIN r = 1 .. (n + 1) /\ DOMAIN q = 1 .. n
  BY <1>1, <1>2, <1>3, LenProperties
<1>5. EntriesOf(q, c) \in SUBSET (1 .. n)
  BY <1>4 DEF EntriesOf
<1>6. CASE e.kind = "balances" /\ c \in DOMAIN e.data
  <2>1. n + 1 \in EntriesOf(r, c) /\ EntriesOf(r, c) \in SUBSET (1 .. (n + 1))
    BY <1>3, <1>4, <1>6 DEF EntriesOf
  <2>2. Max(EntriesOf(r, c)) = n + 1
    BY <2>1, LargestIs
  <2>3. QED
    BY <1>1, <1>3, <1>6, <2>1, <2>2 DEF Settled, EntriesOf
<1>7. CASE ~(e.kind = "balances" /\ c \in DOMAIN e.data)
  <2>1. EntriesOf(r, c) = EntriesOf(q, c)
    BY <1>3, <1>4, <1>7 DEF EntriesOf
  <2>2. PICK I : I = EntriesOf(q, c)
    OBVIOUS
  <2>3. I # {} => Max(I) \in 1 .. n
    <3>1. SUFFICES ASSUME I # {} PROVE Max(I) \in 1 .. n
      OBVIOUS
    <3>2. PICK m \in I : \A y \in I : m >= y
      BY <1>5, <2>2, <3>1, LastPlace
    <3>3. Max(I) = m
      BY <1>5, <2>2, <3>2, LargestIs
    <3>4. QED
      BY <1>5, <2>2, <3>3
  <2>4. Settled(r, stored, c) = IF I = {} THEN stored[c] ELSE r[Max(I)].data[c]
    BY <2>1, <2>2 DEF Settled, EntriesOf
  <2>5. Settled(q, stored, c) = IF I = {} THEN stored[c] ELSE q[Max(I)].data[c]
    BY <2>2 DEF Settled, EntriesOf
  <2>6. QED
    BY <1>1, <1>3, <1>7, <2>3, <2>4, <2>5
<1>8. QED
  BY <1>6, <1>7

(* A merge takes the oldest entry from the queue to the storage.           *)
LEMMA SettledTail ==
  ASSUME NEW q \in Seq(Posts), q # <<>>, NEW stored, NEW after, NEW c,
         after[c] = IF Head(q).kind = "balances" /\ c \in DOMAIN Head(q).data
                    THEN Head(q).data[c] ELSE stored[c]
  PROVE  Settled(Tail(q), after, c) = Settled(q, stored, c)
<1>1. PICK t \in Seq(Posts) : t = Tail(q)
  BY HeadTailProperties
<1>2. PICK n \in Nat : n = Len(q)
  BY LenProperties
<1>3. n > 0 /\ Head(q) = q[1]
  BY <1>2, EmptySeq
<1>4. Len(t) = n - 1 /\ \A i \in 1 .. (n - 1) : t[i] = q[i + 1]
  BY <1>1, <1>2, HeadTailProperties
<1>5. DOMAIN q = 1 .. n /\ DOMAIN t = 1 .. (n - 1)
  BY <1>2, <1>3, <1>4, LenProperties
<1>6. PICK I \in SUBSET (1 .. n) : I = EntriesOf(q, c)
  BY <1>5 DEF EntriesOf
<1>7. PICK J \in SUBSET (1 .. (n - 1)) : J = EntriesOf(t, c)
  BY <1>5 DEF EntriesOf
<1>8. \A j \in 1 .. (n - 1) : j \in J <=> j + 1 \in I
  <2>1. ASSUME NEW j \in 1 .. (n - 1) PROVE j \in J <=> j + 1 \in I
    <3>1. j + 1 \in 1 .. n /\ t[j] = q[j + 1]
      BY <1>2, <1>4
    <3>2. QED
      BY <1>5, <1>6, <1>7, <3>1 DEF EntriesOf
  <2>2. QED
    BY <2>1
<1>9. 1 \in I <=> q[1].kind = "balances" /\ c \in DOMAIN q[1].data
  <2>1. 1 \in 1 .. n
    BY <1>3
  <2>2. QED
    BY <1>5, <1>6, <2>1 DEF EntriesOf
<1>10. Settled(t, after, c) = IF J = {} THEN after[c] ELSE t[Max(J)].data[c]
  BY <1>7 DEF Settled, EntriesOf
<1>11. Settled(q, stored, c) = IF I = {} THEN stored[c] ELSE q[Max(I)].data[c]
  BY <1>6 DEF Settled, EntriesOf
<1>12. CASE J = {}
  <2>1. \A i \in I : i = 1
    <3>1. ASSUME NEW i \in I, i # 1 PROVE FALSE
      <4>1. i - 1 \in 1 .. (n - 1) /\ (i - 1) + 1 = i
        BY <1>3, <1>6, <3>1
      <4>2. QED
        BY <1>8, <1>12, <3>1, <4>1
    <3>2. QED
      BY <3>1
  <2>2. CASE I = {}
    BY <1>1, <1>3, <1>9, <1>10, <1>11, <1>12, <2>2
  <2>3. CASE I # {}
    <3>1. 1 \in I /\ \A i \in I : 1 >= i
      <4>1. PICK i : i \in I
        BY <2>3
      <4>2. 1 \in I
        BY <2>1, <4>1
      <4>3. \A j \in I : 1 >= j
        BY <2>1
      <4>4. QED
        BY <4>2, <4>3
    <3>2. Max(I) = 1
      BY <1>6, <3>1, LargestIs
    <3>3. Settled(q, stored, c) = q[1].data[c]
      BY <1>11, <2>3, <3>2
    <3>4. after[c] = q[1].data[c]
      BY <1>3, <1>9, <3>1
    <3>5. QED
      BY <1>1, <1>10, <1>12, <3>3, <3>4
  <2>4. QED
    BY <2>2, <2>3
<1>13. CASE J # {}
  <2>0. n - 1 \in Nat
    BY <1>3
  <2>1. PICK m \in J : \A y \in J : m >= y
    BY <1>7, <1>13, <2>0, LastPlace
  <2>2. Max(J) = m /\ m \in 1 .. (n - 1)
    BY <1>7, <2>1, LargestIs
  <2>3. m + 1 \in I
    BY <1>8, <2>1, <2>2
  <2>4. ASSUME NEW i \in I PROVE m + 1 >= i
    <3>1. i \in 1 .. n
      BY <1>6
    <3>2. CASE i = 1
      BY <2>2, <3>2
    <3>3. CASE i # 1
      <4>1. i - 1 \in 1 .. (n - 1) /\ (i - 1) + 1 = i
        BY <3>1, <3>3
      <4>2. i - 1 \in J
        BY <1>8, <4>1
      <4>3. m >= i - 1
        BY <2>1, <4>2
      <4>4. QED
        BY <2>2, <3>1, <4>3
    <3>4. QED
      BY <3>2, <3>3
  <2>5. Max(I) = m + 1
    BY <1>6, <2>2, <2>3, <2>4, LargestIs
  <2>6. t[m] = q[m + 1]
    BY <1>4, <2>2
  <2>7. QED
    BY <1>1, <1>10, <1>11, <1>13, <2>2, <2>3, <2>5, <2>6
<1>14. QED
  BY <1>12, <1>13

-----------------------------------------------------------------------------
(* What is assumed besides OneAtATime, CoinsApart and DepositsWhole: the   *)
(* pairs whose names are cut wrongly do not meet the currencies of the     *)
(* others, and the bounds of Account exclude no order.                     *)
CutApart == \A p \in Pairs \ Told : {CoinSlice[p], BaseSlice[p]} \intersect Money = {}
Unbounded == Nat \subseteq SentVolumes /\ Nat \subseteq SentPrices

(* A handler posts about the currencies of its pair.                       *)
Own(q) ==
  \A i \in DOMAIN q :
    q[i].kind = "balances" =>
      DOMAIN q[i].data \subseteq {CoinSlice[q[i].pair], BaseSlice[q[i].pair]}

LedgerInv == PositionInv /\ Own(queue)

-----------------------------------------------------------------------------
(* What a handler posts.                                                   *)

(* An event that is posted is one more in the queue.                       *)
LEMMA RangeAppended ==
  ASSUME NEW q \in Seq(Posts), NEW e \in Posts
  PROVE  Range(Append(q, e)) = Range(q) \union {e}
<1>1. PICK r \in Seq(Posts) : r = Append(q, e)
  BY AppendProperties
<1>2. PICK n \in Nat : n = Len(q)
  BY LenProperties
<1>3. Len(r) = n + 1 /\ (\A i \in 1 .. n : r[i] = q[i]) /\ r[n + 1] = e
  BY <1>1, <1>2, AppendProperties
<1>4. DOMAIN r = 1 .. (n + 1) /\ DOMAIN q = 1 .. n
  BY <1>1, <1>2, <1>3, LenProperties
<1>5. Range(q) = {q[i] : i \in 1 .. n} /\ Range(r) = {r[i] : i \in 1 .. (n + 1)}
  BY <1>4 DEF Range
<1>6. QED
  BY <1>1, <1>3, <1>5

(* One that is not an offer leaves the offers.                             *)
LEMMA OffersAppended ==
  ASSUME NEW q \in Seq(Posts), NEW e \in Posts, NEW stored
  PROVE  SettledOffers(Append(q, e), stored)
           = SettledOffers(q, stored) \union (IF e.kind = "open" THEN {e.data} ELSE {})
BY RangeAppended DEF SettledOffers

(* What is delivered is one less.                                          *)
LEMMA OffersDelivered ==
  ASSUME NEW q \in Seq(Posts), q # <<>>, NEW stored
  PROVE  SettledOffers(Tail(q), stored \union (IF Head(q).kind = "open" THEN {Head(q).data} ELSE {}))
           = SettledOffers(q, stored)
<1>1. PICK t \in Seq(Posts) : t = Tail(q)
  BY HeadTailProperties
<1>2. PICK n \in Nat : n = Len(q)
  BY LenProperties
<1>3. n > 0 /\ Head(q) = q[1]
  BY <1>2, EmptySeq
<1>4. Len(t) = n - 1 /\ \A i \in 1 .. (n - 1) : t[i] = q[i + 1]
  BY <1>1, <1>2, HeadTailProperties
<1>5. DOMAIN q = 1 .. n /\ DOMAIN t = 1 .. (n - 1)
  BY <1>2, <1>3, <1>4, LenProperties
<1>6. \A i \in 1 .. n : i = 1 \/ (i - 1 \in 1 .. (n - 1) /\ q[i] = t[i - 1])
  <2>1. ASSUME NEW i \in 1 .. n, i # 1 PROVE i - 1 \in 1 .. (n - 1) /\ q[i] = t[i - 1]
    <3>1. i - 1 \in 1 .. (n - 1) /\ (i - 1) + 1 = i
      BY <1>3, <2>1
    <3>2. QED
      BY <1>4, <3>1
  <2>2. QED
    BY <2>1
<1>7. \A j \in 1 .. (n - 1) : j + 1 \in 1 .. n
  BY <1>3
<1>8. 1 \in 1 .. n
  BY <1>3
<1>9. Range(q) = Range(t) \union {q[1]}
  <2>1. \A x \in Range(q) : x \in Range(t) \union {q[1]}
    <3>1. ASSUME NEW x \in Range(q) PROVE x \in Range(t) \union {q[1]}
      <4>1. PICK i \in 1 .. n : x = q[i]
        BY <1>5 DEF Range
      <4>2. CASE i = 1
        BY <4>1, <4>2
      <4>3. CASE i # 1
        <5>1. PICK j \in 1 .. (n - 1) : x = t[j]
          BY <1>6, <4>1, <4>3
        <5>2. QED
          BY <1>5, <5>1 DEF Range
      <4>4. QED
        BY <4>2, <4>3
    <3>2. QED
      BY <3>1
  <2>2. \A x \in Range(t) \union {q[1]} : x \in Range(q)
    BY <1>4, <1>5, <1>7, <1>8 DEF Range
  <2>3. QED
    BY <2>1, <2>2
<1>10. QED
  BY <1>1, <1>3, <1>9 DEF SettledOffers

(* What becomes of the balances that a handler posts.                      *)
Changed(q, r, data) ==
  \A stored, c : Settled(r, stored, c) = IF c \in DOMAIN data THEN data[c] ELSE Settled(q, stored, c)

SameOffers(q, r) == \A stored : SettledOffers(r, stored) = SettledOffers(q, stored)

(* Balances are posted alone, or after a trade or an offer.                *)
LEMMA ChangeSettles ==
  ASSUME NEW q \in Seq(Posts), NEW p \in Pairs, NEW data \in Changes
  PROVE  /\ Changed(q, q \o Posted(p, "balances", data), data)
         /\ SameOffers(q, q \o Posted(p, "balances", data))
<1>1. PICK e \in Posts : e = [kind |-> "balances", pair |-> p, data |-> data]
  BY DEF Posts
<1>2. q \o Posted(p, "balances", data) = Append(q, e)
  BY <1>1, AppendIsConcat DEF Posted
<1>3. e.kind = "balances" /\ e.data = data
  BY <1>1
<1>4. QED
  <2>1. Changed(q, Append(q, e), data)
    BY <1>3, SettledAppend DEF Changed
  <2>2. SameOffers(q, Append(q, e))
    <3>1. \A stored : SettledOffers(Append(q, e), stored)
                        = SettledOffers(q, stored) \union (IF e.kind = "open" THEN {e.data} ELSE {})
      BY OffersAppended
    <3>2. e.kind # "open"
      BY <1>3
    <3>3. QED
      BY <3>1, <3>2 DEF SameOffers
  <2>3. QED
    BY <1>2, <2>1, <2>2

MoreOffers(q, r, more) == \A stored : SettledOffers(r, stored) = SettledOffers(q, stored) \union more

(* A purchase, a sale, an offer.                                           *)
LEMMA OrderSettles ==
  ASSUME NEW q \in Seq(Posts), NEW p \in Pairs, NEW data \in Changes, NEW kind, NEW o,
         \/ kind = "open" /\ o \in Sales
         \/ kind = "trade" /\ o \in GoodOrders
  PROVE  LET r == q \o (Posted(p, kind, o) \o Posted(p, "balances", data))
         IN Changed(q, r, data) /\ MoreOffers(q, r, IF kind = "open" THEN {o} ELSE {})
<1>0. PICK r : r = q \o (Posted(p, kind, o) \o Posted(p, "balances", data))
  OBVIOUS
<1>1. PICK d \in Posts : d = [kind |-> kind, pair |-> p, data |-> o]
  BY DEF Posts
<1>2. Posted(p, kind, o) = <<d>> /\ Posted(p, "balances", data) \in Seq(Posts) /\ <<d>> \in Seq(Posts)
  BY <1>1, PostedTyped DEF Posted
<1>3. PICK m \in Seq(Posts) : m = Append(q, d)
  BY AppendProperties
<1>4. m = q \o <<d>>
  BY <1>3, AppendIsConcat
<1>5. r = m \o Posted(p, "balances", data)
  BY <1>0, <1>2, <1>4, ConcatAssociative
<1>6. Changed(m, r, data) /\ SameOffers(m, r)
  BY <1>5, ChangeSettles
<1>7. d.kind = kind /\ d.data = o /\ d.kind # "balances"
  BY <1>1
<1>8. \A stored, c : Settled(m, stored, c) = Settled(q, stored, c)
  BY <1>3, <1>7, SettledAppend
<1>9. \A stored : SettledOffers(m, stored)
                    = SettledOffers(q, stored) \union (IF kind = "open" THEN {o} ELSE {})
  BY <1>3, <1>7, OffersAppended
<1>10. Changed(q, r, data)
  BY <1>6, <1>8 DEF Changed
<1>11. MoreOffers(q, r, IF kind = "open" THEN {o} ELSE {})
  BY <1>6, <1>9 DEF SameOffers, MoreOffers
<1>12. QED
  BY <1>0, <1>10, <1>11

-----------------------------------------------------------------------------
(* The movements of Account, in terms of the storages.                     *)

FreeMoney == [c \in Money |-> Settled(queue, balances, c).available]
LockedMoney == [c \in Money |-> Settled(queue, balances, c).held]
Tickets == {Ticket(o) : o \in {x \in SettledOffers(queue, openOrders) : x.pair \in Told}}

LedgerStep == [Ledger!AccountNext]_(Ledger!accountVars)

(* Nothing moves.                                                          *)
LEMMA LedgerStays ==
  ASSUME FreeMoney' = FreeMoney, LockedMoney' = LockedMoney, Tickets' = Tickets
  PROVE  LedgerStep
BY DEF LedgerStep, Ledger!accountVars, FreeMoney, LockedMoney, Tickets

(* A purchase pays and receives.                                           *)
LEMMA LedgerPays ==
  ASSUME Unbounded, NEW p \in Told, NEW volume \in Nat, NEW price \in Nat,
         FreeMoney' = [FreeMoney EXCEPT ![Coin[p]] = @ + volume, ![Base[p]] = @ - price * volume],
         LockedMoney' = LockedMoney, Tickets' = Tickets
  PROVE  LedgerStep
<1>1. Ledger!Pay(p, volume, price * volume)
  BY DEF Ledger!Pay, FreeMoney, LockedMoney, Tickets
<1>2. volume \in SentVolumes /\ price \in SentPrices
  BY DEF Unbounded
<1>3. Ledger!AccountNext
  BY <1>1, <1>2 DEF Ledger!AccountNext
<1>4. QED
  BY <1>3 DEF LedgerStep

(* A sale is offered.                                                      *)
LEMMA LedgerOffers ==
  ASSUME Unbounded, NEW p \in Told, NEW volume \in Nat, NEW price \in Nat, NEW i \in 1 .. MaxOrders,
         volume <= FreeMoney[Coin[p]],
         FreeMoney' = [FreeMoney EXCEPT ![Coin[p]] = @ - volume],
         LockedMoney' = [LockedMoney EXCEPT ![Coin[p]] = @ + volume],
         Tickets' = Tickets \union
           {[id |-> i, pair |-> p, volume |-> volume, base |-> price * volume]}
  PROVE  LedgerStep
<1>1. Ledger!Offer(p, volume, price * volume)
  BY DEF Ledger!Offer, FreeMoney, LockedMoney, Tickets
<1>2. volume \in SentVolumes /\ price \in SentPrices
  BY DEF Unbounded
<1>3. Ledger!AccountNext
  BY <1>1, <1>2 DEF Ledger!AccountNext
<1>4. QED
  BY <1>3 DEF LedgerStep

(* An offer is withdrawn.                                                  *)
LEMMA LedgerWithdraws ==
  ASSUME NEW t \in Tickets, Tickets' = Tickets \ {t},
         FreeMoney' = [FreeMoney EXCEPT ![Coin[t.pair]] = @ + t.volume],
         LockedMoney' = [LockedMoney EXCEPT ![Coin[t.pair]] = @ - t.volume]
  PROVE  LedgerStep
<1>1. Ledger!Withdraw(t)
  BY DEF Ledger!Withdraw, FreeMoney, LockedMoney, Tickets
<1>2. Ledger!AccountNext
  BY <1>1 DEF Ledger!AccountNext, Tickets
<1>3. QED
  BY <1>2 DEF LedgerStep

(* An offer is accepted.                                                   *)
LEMMA LedgerAccepts ==
  ASSUME NEW t \in Tickets, Tickets' = Tickets \ {t},
         FreeMoney' = [FreeMoney EXCEPT ![Base[t.pair]] = @ + t.base],
         LockedMoney' = [LockedMoney EXCEPT ![Coin[t.pair]] = @ - t.volume]
  PROVE  LedgerStep
<1>1. Ledger!Accept(t)
  BY DEF Ledger!Accept, FreeMoney, LockedMoney, Tickets
<1>2. Ledger!AccountNext
  BY <1>1 DEF Ledger!AccountNext, Tickets
<1>3. QED
  BY <1>2 DEF LedgerStep

-----------------------------------------------------------------------------
(* The handlers.                                                           *)

(* What is posted about the pair of the handler is its own.                *)
LEMMA OwnPosted ==
  ASSUME NEW q \in Seq(Posts), NEW s \in Seq(Posts), Own(q), NEW p \in Pairs, PostsOf(s, p)
  PROVE  Own(q \o s)
<1>1. PICK r : r = q \o s
  OBVIOUS
<1>2. PICK n \in Nat : n = Len(q)
  BY LenProperties
<1>3. PICK m \in Nat : m = Len(s)
  BY LenProperties
<1>4. /\ r \in Seq(Posts) /\ Len(r) = n + m
      /\ \A i \in 1 .. (n + m) : r[i] = IF i <= n THEN q[i] ELSE s[i - n]
  BY <1>1, <1>2, <1>3, Concatenated
<1>5. DOMAIN r = 1 .. (n + m) /\ DOMAIN q = 1 .. n /\ DOMAIN s = 1 .. m
  BY <1>2, <1>3, <1>4, LenProperties
<1>6. ASSUME NEW i \in 1 .. (n + m), r[i].kind = "balances"
      PROVE  DOMAIN r[i].data \subseteq {CoinSlice[r[i].pair], BaseSlice[r[i].pair]}
  <2>1. CASE i <= n
    <3>1. i \in DOMAIN q /\ r[i] = q[i]
      BY <1>4, <1>5, <2>1
    <3>2. QED
      BY <1>6, <3>1 DEF Own
  <2>2. CASE ~(i <= n)
    <3>1. i - n \in 1 .. m /\ r[i] = s[i - n]
      BY <1>4, <2>2
    <3>2. PICK j \in DOMAIN s : r[i] = s[j]
      BY <1>5, <3>1
    <3>3. QED
      BY <1>6, <3>2 DEF PostsOf
  <2>3. QED
    BY <2>1, <2>2
<1>7. QED
  BY <1>1, <1>5, <1>6 DEF Own

(* And stays so while it waits.                                            *)
LEMMA OwnDelivered ==
  ASSUME NEW q \in Seq(Posts), q # <<>>, Own(q)
  PROVE  Own(Tail(q))
<1>1. PICK t : t = Tail(q)
  OBVIOUS
<1>2. PICK n \in Nat : n = Len(q)
  BY LenProperties
<1>3. n > 0
  BY <1>2, EmptySeq
<1>4. /\ t \in Seq(Posts) /\ Len(t) = n - 1
      /\ \A i \in 1 .. (n - 1) : t[i] = q[i + 1]
  BY <1>1, <1>2, HeadTailProperties
<1>5. DOMAIN q = 1 .. n /\ DOMAIN t = 1 .. (n - 1)
  BY <1>2, <1>3, <1>4, LenProperties
<1>6. \A i \in DOMAIN t : \E j \in DOMAIN q : t[i] = q[j]
  BY <1>4, <1>5
<1>7. QED
  BY <1>1, <1>6 DEF Own

(* A handler finds the money of its pair delivered.                        *)
LEMMA MoneyDelivered ==
  ASSUME OneAtATime, LedgerInv, NEW p \in Told, Fresh(p), NEW c \in {Coin[p], Base[p]}
  PROVE  Settled(queue, balances, c) = balances[c]
<1>1. p \in Pairs /\ c \in Currencies /\ c # Unknown /\ c \in Touched(p)
  BY ToldIs, ConstantsTyped DEF Touched
<1>2. \A i \in DOMAIN queue : Touched(queue[i].pair) \intersect Touched(p) = {}
  BY DEF Fresh, OneAtATime
<1>3. ASSUME NEW i \in EntriesOf(queue, c) PROVE FALSE
  <2>1. c \in {CoinSlice[queue[i].pair], BaseSlice[queue[i].pair]}
    BY DEF EntriesOf, LedgerInv, Own
  <2>2. c \in Touched(queue[i].pair)
    BY <1>1, <2>1 DEF Touched
  <2>3. QED
    BY <1>1, <1>2, <2>2 DEF EntriesOf
<1>4. EntriesOf(queue, c) = {}
  BY <1>3
<1>5. QED
  BY <1>4 DEF Settled, EntriesOf

(* And no offer of it on its way.                                          *)
LEMMA OffersAtHand ==
  ASSUME OneAtATime, LedgerInv, NEW p \in Told, Fresh(p)
  PROVE  \A x \in SettledOffers(queue, openOrders) : x.pair = p => x \in Resting(p)
<1>1. Waiting(queue, p) = {}
  BY ToldIs, Quiet
<1>2. ASSUME NEW e \in Range(queue), e.kind = "open" PROVE e.data.pair # p
  <2>1. PICK i \in DOMAIN queue : e = queue[i]
    BY DEF Range
  <2>2. e.data.pair = e.pair
    BY <1>2, <2>1 DEF LedgerInv, PositionInv, Apart
  <2>3. e.pair # p
    BY <1>1, <2>1 DEF Waiting
  <2>4. QED
    BY <2>2, <2>3
<1>3. QED
  BY <1>2 DEF SettledOffers, Resting

(* The currencies of a pair whose name is told are money, and two.         *)
LEMMA MoneyIs ==
  ASSUME CoinsApart, NEW p \in Told
  PROVE  Coin[p] \in Money /\ Base[p] \in Money /\ Coin[p] # Base[p]
BY DEF Money, CoinsApart

(* The handler of a pair whose name is not told moves nothing.             *)
LEMMA ForeignStays ==
  ASSUME CutApart, NEW p \in Pairs \ Told, NEW data,
         DOMAIN data \subseteq {CoinSlice[p], BaseSlice[p]},
         Changed(queue, queue', data), balances' = balances, Tickets' = Tickets
  PROVE  LedgerStep
<1>1. \A c \in Money : c \notin DOMAIN data
  BY DEF CutApart
<1>2. \A c \in Money : Settled(queue', balances', c) = Settled(queue, balances, c)
  BY <1>1 DEF Changed
<1>3. FreeMoney' = FreeMoney /\ LockedMoney' = LockedMoney
  BY <1>2 DEF FreeMoney, LockedMoney
<1>4. QED
  BY <1>3, LedgerStays

(* An order is paid for what it says.                                      *)
LEMMA OrderPays ==
  ASSUME NEW p \in Pairs, NEW side, NEW price, NEW volume, NEW o,
         o = Order(p, Fitted(side, price, volume)), o \in GoodOrders
  PROVE  /\ o.price \in Nat /\ o.volume \in Nat /\ o.base \in Nat /\ o.base = o.price * o.volume
         /\ o.id \in 1 .. MaxOrders
<1>1. o.base = o.price * o.volume
  BY DEF Order, Fitted, FittedOrder
<1>2. o \in Orders
  BY DEF GoodOrders
<1>3. QED
  BY <1>1, <1>2 DEF Orders

(* A purchase is a payment.                                                *)
LEMMA BuyMoves ==
  ASSUME OneAtATime, CoinsApart, CutApart, Unbounded, LedgerInv, NEW p \in Pairs,
         NEW price \in Prices, NEW volume \in Volumes, Buy(p, price, volume)
  PROVE  LedgerStep /\ Own(queue')
<1>1. /\ TypeInv /\ balances \in [Currencies -> Amounts] /\ queue \in Seq(Posts)
      /\ submitted \in 0 .. MaxOrders /\ submitted < MaxOrders /\ Own(queue)
  BY DEF LedgerInv, PositionInv, TypeInv, Buy, submitOrder
<1>2. price \in Nat /\ price >= TickSize /\ volume \in Nat /\ volume > 0
  BY QuotesAssumption
<1>3. PICK o : o = Order(p, Fitted("Buy", price, volume))
  OBVIOUS
<1>4. o \in GoodOrders /\ o.pair = p /\ o.side = "Buy" /\ o.volume \in Nat /\ o.base \in Nat
  BY <1>1, <1>2, <1>3, OrderTyped
<1>5. PICK coin \in Amounts : coin = Added(CoinSlice[p], o.volume)
  BY <1>1, <1>4, AddedTyped
<1>6. -o.base \in Int
  BY <1>4
<1>7. PICK base \in Amounts : base = Added(BaseSlice[p], -o.base)
  BY <1>1, <1>6, AddedTyped
<1>8. PICK data \in Changes : data = Entries(p, coin, base)
  BY EntriesTyped
<1>9. PICK s : s = Posted(p, "trade", o) \o Posted(p, "balances", data)
  OBVIOUS
<1>10. queue' = queue \o s /\ balances' = balances /\ openOrders' = openOrders
  BY <1>3, <1>5, <1>7, <1>8, <1>9 DEF Buy, submitOrder
<1>11. s \in Seq(Posts)
  BY <1>4, <1>9, PostedTyped, ConcatProperties
<1>12. DOMAIN data \subseteq {CoinSlice[p], BaseSlice[p]}
  BY <1>8, EntriesAre
<1>13. Own(queue')
  <2>1. PostsOf(s, p)
    BY <1>4, <1>9, <1>12, OrderIsOf
  <2>2. QED
    BY <1>1, <1>10, <1>11, <2>1, OwnPosted
<1>14. Changed(queue, queue', data) /\ MoreOffers(queue, queue', {})
  <2>1. "trade" # "open"
    OBVIOUS
  <2>2. QED
    BY <1>1, <1>4, <1>9, <1>10, <2>1, OrderSettles
<1>15. Tickets' = Tickets
  BY <1>10, <1>14 DEF Tickets, MoreOffers
<1>16. CASE p \notin Told
  BY <1>10, <1>12, <1>13, <1>14, <1>15, <1>16, ForeignStays
<1>17. CASE p \in Told
  <2> DEFINE a == Coin[p]
             b == Base[p]
  <2>1. a \in Money /\ b \in Money /\ a # b /\ a \in Currencies /\ b \in Currencies
    BY <1>17, MoneyIs, ConstantsTyped
  <2>2. Settled(queue, balances, a) = balances[a] /\ Settled(queue, balances, b) = balances[b]
    BY <1>17, MoneyDelivered DEF Buy
  <2>3. /\ coin = Balance(balances[a].available + o.volume, balances[a].held)
        /\ base = Balance(balances[b].available + -o.base, balances[b].held)
    BY <1>5, <1>7, <1>17, <2>1, ToldIs DEF Added, find
  <2>4. PICK v \in Nat, m \in Nat, paid \in Nat :
          v = o.volume /\ m = o.price /\ paid = o.base /\ paid = m * v
    BY <1>3, <1>4, OrderPays
  <2>5. balances[b].available \in Int
    BY <1>1, <2>1 DEF Amounts
  <2>6. /\ coin.available = balances[a].available + v /\ coin.held = balances[a].held
        /\ base.available = balances[b].available - paid /\ base.held = balances[b].held
    BY <2>3, <2>4, <2>5 DEF Balance
  <2>7. DOMAIN data = {a, b} /\ data[a] = coin /\ data[b] = base
    BY <1>8, <1>17, <2>1, ToldIs DEF Entries
  <2>8. \A c \in Money : Settled(queue', balances', c) =
          IF c = a THEN coin ELSE IF c = b THEN base ELSE Settled(queue, balances, c)
    BY <1>14, <2>1, <2>7, <1>10 DEF Changed
  <2> HIDE DEF a, b
  <2>9. LockedMoney' = LockedMoney
    BY <2>1, <2>2, <2>6, <2>8 DEF LockedMoney
  <2>10. FreeMoney' = [FreeMoney EXCEPT ![a] = @ + v, ![b] = @ - m * v]
    BY <2>1, <2>2, <2>4, <2>6, <2>8 DEF FreeMoney
  <2>11. LedgerStep
    BY <1>15, <1>17, <2>9, <2>10, LedgerPays DEF a, b
  <2>12. QED
    BY <1>13, <2>11
<1>18. QED
  BY <1>16, <1>17

(* A sale of the whole position is an offer of what is free: nothing was   *)
(* held, and what is whole steps is not cut.                               *)
LEMMA SellMoves ==
  ASSUME OneAtATime, CoinsApart, CutApart, Unbounded, LedgerInv, NEW p \in Pairs, Sell(p)
  PROVE  LedgerStep /\ Own(queue')
<1>1. /\ TypeInv /\ balances \in [Currencies -> Amounts] /\ queue \in Seq(Posts)
      /\ history \in [Pairs -> Seq(GoodOrders)] /\ submitted \in 0 .. MaxOrders /\ Own(queue)
      /\ PositionInv
  BY DEF LedgerInv, PositionInv, TypeInv
<1>2. PICK position \in Amounts : position = balances[Coin[p]]
  BY <1>1, ConstantsTyped
<1>3. PICK stopLoss \in Nat :
        stopLoss = calculateStopLoss(Sum(p, Cycle(p), "base"), Sum(p, Cycle(p), "volume"), Profit)
  BY <1>1, CyclePriced DEF Sell
<1>4. /\ position.total >= StepSize /\ position.total <= position.available
      /\ \E slip \in {0} : submitOrder(p, "Sell", stopLoss, position.available - slip)
  BY <1>2, <1>3 DEF Sell, OneAtATime
<1>5. position.total \in Int /\ position.available \in Int /\ position.held \in Nat
  BY DEF Amounts
<1>6. PICK amount \in Nat : amount = position.available
  BY <1>4, <1>5, ConstantsTyped
<1>7. position.available - 0 = amount
  BY <1>6
<1>8. submitOrder(p, "Sell", stopLoss, amount)
  BY <1>4, <1>7
<1>9. PICK o : o = Order(p, Fitted("Sell", stopLoss, amount))
  OBVIOUS
<1>10. /\ o \in GoodOrders /\ o.pair = p /\ o.side = "Sell" /\ o.volume \in Nat
       /\ o.volume = rounding(StepSize, amount)
  BY <1>1, <1>8, <1>9, OrderTyped DEF submitOrder
<1>11. o \in Sales
  BY <1>10 DEF Sales
<1>12. PICK coin \in Amounts : coin = Balance(0, o.volume)
  BY <1>10, BalanceTyped
<1>13. PICK data \in Changes : data = Entry(CoinSlice[p], coin)
  BY EntryTyped, ConstantsTyped
<1>14. PICK s : s = Posted(p, "open", o) \o Posted(p, "balances", data)
  OBVIOUS
<1>15. queue' = queue \o s /\ balances' = balances /\ openOrders' = openOrders
  BY <1>8, <1>9, <1>12, <1>13, <1>14 DEF submitOrder
<1>16. s \in Seq(Posts)
  BY <1>10, <1>11, <1>14, PostedTyped, ConcatProperties
<1>17. DOMAIN data \subseteq {CoinSlice[p], BaseSlice[p]}
  BY <1>13, EntriesAre
<1>18. Own(queue')
  <2>1. PostsOf(s, p)
    BY <1>10, <1>11, <1>14, <1>17, OrderIsOf
  <2>2. QED
    BY <1>1, <1>15, <1>16, <2>1, OwnPosted
<1>19. Changed(queue, queue', data) /\ MoreOffers(queue, queue', {o})
  BY <1>1, <1>11, <1>14, <1>15, OrderSettles
<1>20. CASE p \notin Told
  <2>1. Tickets' = Tickets
    BY <1>10, <1>15, <1>19, <1>20 DEF Tickets, MoreOffers
  <2>2. QED
    BY <1>15, <1>17, <1>18, <1>19, <1>20, <2>1, ForeignStays
<1>21. CASE p \in Told
  <2> DEFINE a == Coin[p]
  <2>1. a \in Money /\ a \in Currencies
    BY <1>21, MoneyIs, ConstantsTyped
  <2>2. Settled(queue, balances, a) = position
    BY <1>2, <1>21, MoneyDelivered DEF Sell
  <2>3. Sound(position)
    BY <1>1, <1>2, <1>21, HandlerBegins DEF Sell
  <2>4. position.held = 0 /\ Multiple(amount)
    <3>1. position.total = position.available + position.held /\ Multiple(position.total)
      BY <2>3 DEF Sound
    <3>2. position.held = 0 /\ position.total = amount
      BY <1>4, <1>5, <1>6, <3>1
    <3>3. QED
      BY <3>1, <3>2
  <2>5. PICK v \in Nat, m \in Nat, paid \in Nat :
          v = o.volume /\ m = o.price /\ paid = o.base /\ paid = m * v
    BY <1>9, <1>10, OrderPays
  <2>6. v = amount
    BY <1>6, <1>10, <2>4, <2>5, WholeStepsKept
  <2>7. coin.available = 0 /\ coin.held = v
    BY <1>12, <2>5 DEF Balance
  <2>8. DOMAIN data = {a} /\ data[a] = coin
    BY <1>13, <1>21, ToldIs DEF Entry
  <2>9. \A c \in Money : Settled(queue', balances', c) =
          IF c = a THEN coin ELSE Settled(queue, balances, c)
    BY <1>15, <1>19, <2>8 DEF Changed
  <2> HIDE DEF a
  <2>10. LockedMoney' = [LockedMoney EXCEPT ![a] = @ + v]
    <3>1. LockedMoney[a] = 0 /\ 0 + v = v
      BY <2>1, <2>2, <2>4 DEF LockedMoney
    <3>2. LockedMoney' = [LockedMoney EXCEPT ![a] = v]
      BY <2>1, <2>7, <2>9 DEF LockedMoney
    <3>3. QED
      BY <3>1, <3>2
  <2>11. FreeMoney' = [FreeMoney EXCEPT ![a] = @ - v]
    <3>1. FreeMoney[a] = v /\ v - v = 0
      BY <1>6, <2>1, <2>2, <2>6 DEF FreeMoney
    <3>2. FreeMoney' = [FreeMoney EXCEPT ![a] = 0]
      BY <2>1, <2>7, <2>9 DEF FreeMoney
    <3>3. QED
      BY <3>1, <3>2
  <2>12. v <= FreeMoney[a]
    BY <1>6, <2>1, <2>2, <2>6 DEF FreeMoney
  <2>13. PICK i \in 1 .. MaxOrders : i = o.id
    BY <1>9, <1>10, OrderPays
  <2>14. Tickets' = Tickets \union {[id |-> i, pair |-> p, volume |-> v, base |-> m * v]}
    <3>1. Ticket(o) = [id |-> i, pair |-> p, volume |-> v, base |-> m * v]
      BY <1>10, <2>5, <2>13 DEF Ticket
    <3>2. SettledOffers(queue', openOrders') = SettledOffers(queue, openOrders) \union {o}
      BY <1>15, <1>19 DEF MoreOffers
    <3>3. Tickets' = Tickets \union {Ticket(o)}
      BY <1>10, <1>21, <3>2 DEF Tickets
    <3>4. QED
      BY <3>1, <3>3
  <2>15. LedgerStep
    BY <1>21, <2>10, <2>11, <2>12, <2>14, LedgerOffers DEF a
  <2>16. QED
    BY <1>18, <2>15
<1>22. QED
  BY <1>20, <1>21

(* The offer of a pair is the only one, and is gone when it is taken out.  *)
LEMMA TicketTaken ==
  ASSUME OneAtATime, LedgerInv, NEW o \in openOrders, o.pair \in Told, Fresh(o.pair),
         openOrders' = openOrders \ {o},
         MoreOffers(queue, queue', {})
  PROVE  Ticket(o) \in Tickets /\ Tickets' = Tickets \ {Ticket(o)}
<1> DEFINE offers == SettledOffers(queue, openOrders)
<1>1. o \in offers
  BY DEF SettledOffers
<1>2. \A r, x \in Resting(o.pair) : r = x
  BY HandlerBegins DEF LedgerInv
<1>3. \A x \in offers : x.pair = o.pair => x = o
  BY <1>2, OffersAtHand DEF Resting
<1>4. SettledOffers(queue', openOrders') = SettledOffers(queue, openOrders \ {o})
  BY DEF MoreOffers
<1>5. \A e \in Range(queue) : e.kind = "open" => e.data.pair # o.pair
  <2>1. Waiting(queue, o.pair) = {}
    BY ToldIs, Quiet
  <2>2. ASSUME NEW i \in DOMAIN queue, queue[i].kind = "open" PROVE queue[i].data.pair # o.pair
    BY <2>1, <2>2 DEF LedgerInv, PositionInv, Apart, Waiting
  <2>3. QED
    BY <2>2 DEF Range
<1>6. SettledOffers(queue, openOrders \ {o}) = offers \ {o}
  BY <1>5 DEF SettledOffers
<1> HIDE DEF offers
<1>7. \A x \in offers : Ticket(x) = Ticket(o) => x.pair = o.pair
  BY DEF Ticket
<1>8. Tickets = {Ticket(x) : x \in {y \in offers : y.pair \in Told}}
  BY DEF Tickets, offers
<1>9. Tickets' = {Ticket(x) : x \in {y \in offers \ {o} : y.pair \in Told}}
  BY <1>4, <1>6 DEF Tickets
<1>10. Ticket(o) \in Tickets
  BY <1>1, <1>8
<1>11. \A t \in Tickets' : t \in Tickets \ {Ticket(o)}
  <2>1. ASSUME NEW t \in Tickets' PROVE t \in Tickets \ {Ticket(o)}
    <3>1. PICK x \in offers \ {o} : x.pair \in Told /\ t = Ticket(x)
      BY <1>9
    <3>2. t \in Tickets
      BY <1>8, <3>1
    <3>3. t # Ticket(o)
      BY <1>3, <1>7, <3>1
    <3>4. QED
      BY <3>2, <3>3
  <2>2. QED
    BY <2>1
<1>12. \A t \in Tickets \ {Ticket(o)} : t \in Tickets'
  BY <1>8, <1>9
<1>13. QED
  BY <1>10, <1>11, <1>12

(* An offer of a pair whose name is not told was no ticket.                *)
LEMMA ForeignTaken ==
  ASSUME NEW o \in openOrders, o.pair \notin Told, openOrders' = openOrders \ {o},
         MoreOffers(queue, queue', {})
  PROVE  Tickets' = Tickets
<1>1. SettledOffers(queue', openOrders') = SettledOffers(queue, openOrders \ {o})
  BY DEF MoreOffers
<1>2. {x \in SettledOffers(queue, openOrders \ {o}) : x.pair \in Told}
        = {x \in SettledOffers(queue, openOrders) : x.pair \in Told}
  BY DEF SettledOffers
<1>3. QED
  BY <1>1, <1>2 DEF Tickets

(* What is withdrawn was all that was held, and comes back.                *)
LEMMA CancelMoves ==
  ASSUME OneAtATime, CoinsApart, CutApart, LedgerInv, NEW o \in openOrders, cancelOrder(o)
  PROVE  LedgerStep /\ Own(queue')
<1>1. /\ TypeInv /\ balances \in [Currencies -> Amounts] /\ queue \in Seq(Posts)
      /\ Own(queue) /\ PositionInv
  BY DEF LedgerInv, PositionInv, TypeInv
<1>2. PICK p \in Pairs : p = o.pair
  BY <1>1, RestingTyped
<1>3. PICK found \in Amounts : found = find(CoinSlice[p])
  BY <1>1, FoundTyped
<1>4. PICK coin \in Amounts : coin = [available |-> found.held, held |-> 0, total |-> found.total]
  BY ReturnedTyped
<1>5. PICK data \in Changes : data = Entry(CoinSlice[p], coin)
  BY EntryTyped, ConstantsTyped
<1>6. PICK s \in Seq(Posts) : s = Posted(p, "balances", data)
  BY PostedTyped
<1>7. queue' = queue \o s /\ balances' = balances /\ openOrders' = openOrders \ {o} /\ Fresh(p)
  BY <1>2, <1>3, <1>4, <1>5, <1>6 DEF cancelOrder
<1>8. DOMAIN data \subseteq {CoinSlice[p], BaseSlice[p]}
  BY <1>5, EntriesAre
<1>9. Own(queue')
  <2>1. PostsOf(s, p)
    BY <1>6, <1>8, ChangeIsOf
  <2>2. QED
    BY <1>1, <1>7, <2>1, OwnPosted
<1>10. Changed(queue, queue', data) /\ MoreOffers(queue, queue', {})
  BY <1>1, <1>6, <1>7, ChangeSettles DEF SameOffers, MoreOffers
<1>11. CASE p \notin Told
  <2>1. Tickets' = Tickets
    BY <1>2, <1>7, <1>10, <1>11, ForeignTaken
  <2>2. QED
    BY <1>7, <1>8, <1>9, <1>10, <1>11, <2>1, ForeignStays
<1>12. CASE p \in Told
  <2> DEFINE a == Coin[p]
  <2>1. a \in Money /\ a \in Currencies
    BY <1>12, MoneyIs, ConstantsTyped
  <2>2. found = balances[a] /\ Settled(queue, balances, a) = found
    BY <1>3, <1>7, <1>12, <2>1, MoneyDelivered, ToldIs DEF find
  <2>3. found.available = 0 /\ o.volume = found.total /\ Sound(found)
    BY <1>1, <1>2, <1>7, <1>12, <2>2, HandlerBegins DEF Resting
  <2>4. PICK v \in Nat : v = o.volume
    BY <1>1, RestingTyped
  <2>5. found.held = v
    BY <2>3, <2>4 DEF Sound, Amounts
  <2>6. coin.available = v /\ coin.held = 0
    BY <1>4, <2>5
  <2>7. DOMAIN data = {a} /\ data[a] = coin
    BY <1>5, <1>12, ToldIs DEF Entry
  <2>8. \A c \in Money : Settled(queue', balances', c) =
          IF c = a THEN coin ELSE Settled(queue, balances, c)
    BY <1>7, <1>10, <2>7 DEF Changed
  <2>9. PICK t : t = Ticket(o)
    OBVIOUS
  <2>10. t \in Tickets /\ Tickets' = Tickets \ {t}
    BY <1>2, <1>7, <1>10, <1>12, <2>9, TicketTaken
  <2>11. Coin[t.pair] = a /\ t.volume = v
    BY <1>2, <2>4, <2>9 DEF Ticket
  <2> HIDE DEF a
  <2>12. LockedMoney' = [LockedMoney EXCEPT ![a] = @ - v]
    <3>1. LockedMoney[a] = v /\ v - v = 0
      BY <2>1, <2>2, <2>5 DEF LockedMoney
    <3>2. LockedMoney' = [LockedMoney EXCEPT ![a] = 0]
      BY <2>1, <2>6, <2>8 DEF LockedMoney
    <3>3. QED
      BY <3>1, <3>2
  <2>13. FreeMoney' = [FreeMoney EXCEPT ![a] = @ + v]
    <3>1. FreeMoney[a] = 0 /\ 0 + v = v
      BY <2>1, <2>2, <2>3 DEF FreeMoney
    <3>2. FreeMoney' = [FreeMoney EXCEPT ![a] = v]
      BY <2>1, <2>6, <2>8 DEF FreeMoney
    <3>3. QED
      BY <3>1, <3>2
  <2>14. LedgerStep
    BY <2>10, <2>11, <2>12, <2>13, LedgerWithdraws
  <2>15. QED
    BY <1>9, <2>14
<1>13. QED
  BY <1>11, <1>12

(* What is executed was all that was held, and is paid for.                *)
LEMMA SoldMoves ==
  ASSUME OneAtATime, CoinsApart, CutApart, LedgerInv, NEW o \in openOrders, sellOrder(o)
  PROVE  LedgerStep /\ Own(queue')
<1>1. /\ TypeInv /\ balances \in [Currencies -> Amounts] /\ queue \in Seq(Posts)
      /\ Own(queue) /\ PositionInv
  BY DEF LedgerInv, PositionInv, TypeInv
<1>2. /\ o \in GoodOrders /\ o.pair \in Pairs /\ o.side = "Sell" /\ o.volume \in Nat /\ o.base \in Nat
  BY <1>1, RestingTyped
<1>3. PICK p \in Pairs : p = o.pair
  BY <1>2
<1>4. PICK coin \in Amounts : coin = Balance(0, 0)
  BY BalanceTyped
<1>5. PICK base \in Amounts : base = Added(BaseSlice[p], o.base)
  BY <1>1, <1>2, AddedTyped
<1>6. PICK data \in Changes : data = Entries(p, coin, base)
  BY EntriesTyped
<1>7. PICK s : s = Posted(p, "trade", o) \o Posted(p, "balances", data)
  OBVIOUS
<1>8. Posted(p, "trade", o) \in Seq(Posts) /\ Posted(p, "balances", data) \in Seq(Posts)
  BY <1>2, PostedTyped
<1>9. queue' = queue \o s /\ balances' = balances /\ openOrders' = openOrders \ {o} /\ Fresh(p)
  <2>1. queue' = queue \o Posted(p, "trade", o) \o Posted(p, "balances", data)
    BY <1>3, <1>4, <1>5, <1>6 DEF sellOrder
  <2>2. queue' = queue \o s
    BY <1>1, <1>7, <1>8, <2>1
  <2>3. QED
    BY <1>3, <2>2 DEF sellOrder
<1>10. s \in Seq(Posts)
  BY <1>7, <1>8, ConcatProperties
<1>11. DOMAIN data \subseteq {CoinSlice[p], BaseSlice[p]}
  BY <1>6, EntriesAre
<1>12. Own(queue')
  <2>1. PostsOf(s, p)
    BY <1>2, <1>7, <1>11, OrderIsOf
  <2>2. QED
    BY <1>1, <1>9, <1>10, <2>1, OwnPosted
<1>13. Changed(queue, queue', data) /\ MoreOffers(queue, queue', {})
  <2>1. "trade" # "open"
    OBVIOUS
  <2>2. QED
    BY <1>1, <1>2, <1>7, <1>9, <2>1, OrderSettles
<1>14. CASE p \notin Told
  <2>1. Tickets' = Tickets
    BY <1>3, <1>9, <1>13, <1>14, ForeignTaken
  <2>2. QED
    BY <1>9, <1>11, <1>12, <1>13, <1>14, <2>1, ForeignStays
<1>15. CASE p \in Told
  <2> DEFINE a == Coin[p]
             b == Base[p]
  <2>1. a \in Money /\ b \in Money /\ a # b /\ a \in Currencies /\ b \in Currencies
    BY <1>15, MoneyIs, ConstantsTyped
  <2>2. Settled(queue, balances, a) = balances[a] /\ Settled(queue, balances, b) = balances[b]
    BY <1>9, <1>15, MoneyDelivered
  <2>3. balances[a].available = 0 /\ o.volume = balances[a].total /\ Sound(balances[a])
    BY <1>1, <1>3, <1>9, <1>15, HandlerBegins DEF Resting
  <2>4. PICK v \in Nat, paid \in Nat : v = o.volume /\ paid = o.base
    BY <1>2
  <2>5. balances[a].held = v
    BY <2>3, <2>4 DEF Sound, Amounts
  <2>6. base = Balance(balances[b].available + o.base, balances[b].held)
    BY <1>5, <1>15, <2>1, ToldIs DEF Added, find
  <2>7. /\ coin.available = 0 /\ coin.held = 0
        /\ base.available = balances[b].available + paid /\ base.held = balances[b].held
    BY <1>4, <2>4, <2>6 DEF Balance
  <2>8. DOMAIN data = {a, b} /\ data[a] = coin /\ data[b] = base
    BY <1>6, <1>15, <2>1, ToldIs DEF Entries
  <2>9. \A c \in Money : Settled(queue', balances', c) =
          IF c = a THEN coin ELSE IF c = b THEN base ELSE Settled(queue, balances, c)
    BY <1>9, <1>13, <2>1, <2>8 DEF Changed
  <2>10. PICK t : t = Ticket(o)
    OBVIOUS
  <2>11. t \in Tickets /\ Tickets' = Tickets \ {t}
    BY <1>3, <1>9, <1>13, <1>15, <2>10, TicketTaken
  <2>12. Coin[t.pair] = a /\ Base[t.pair] = b /\ t.volume = v /\ t.base = paid
    BY <1>3, <2>4, <2>10 DEF Ticket
  <2> HIDE DEF a, b
  <2>13. LockedMoney' = [LockedMoney EXCEPT ![a] = @ - v]
    <3>1. LockedMoney[a] = v /\ v - v = 0
      BY <2>1, <2>2, <2>5 DEF LockedMoney
    <3>2. LockedMoney' = [LockedMoney EXCEPT ![a] = 0]
      BY <2>1, <2>2, <2>7, <2>9 DEF LockedMoney
    <3>3. QED
      BY <3>1, <3>2
  <2>14. FreeMoney' = [FreeMoney EXCEPT ![b] = @ + paid]
    BY <2>1, <2>2, <2>3, <2>7, <2>9 DEF FreeMoney
  <2>15. LedgerStep
    BY <2>11, <2>12, <2>13, <2>14, LedgerAccepts
  <2>16. QED
    BY <1>12, <2>15
<1>16. QED
  BY <1>14, <1>15

(* The program that ended loses an offer of a pair whose name is not told. *)
LEMMA CrashMoves ==
  ASSUME LedgerInv, NEW o \in openOrders, CancelCrashes(o)
  PROVE  LedgerStep /\ Own(queue')
<1>1. UNCHANGED <<balances, queue>> /\ openOrders' = openOrders \ {o}
  BY DEF CancelCrashes
<1>2. o.pair \notin Told
  BY ToldIs DEF CancelCrashes
<1>3. MoreOffers(queue, queue', {})
  BY <1>1 DEF MoreOffers
<1>4. Tickets' = Tickets
  BY <1>1, <1>2, <1>3, ForeignTaken
<1>5. FreeMoney' = FreeMoney /\ LockedMoney' = LockedMoney
  BY <1>1 DEF FreeMoney, LockedMoney
<1>6. QED
  BY <1>1, <1>4, <1>5, LedgerStays DEF LedgerInv

(* A merge moves nothing.                                                  *)
LEMMA MergeMoves ==
  ASSUME LedgerInv, MergeOpenOrders \/ MergeTradeHistory \/ MergeBalances
  PROVE  LedgerStep /\ Own(queue')
<1>1. /\ TypeInv /\ queue \in Seq(Posts) /\ queue # <<>> /\ queue' = Tail(queue)
      /\ Own(queue) /\ balances \in [Currencies -> Amounts]
  BY DEF LedgerInv, PositionInv, TypeInv, MergeOpenOrders, MergeTradeHistory, MergeBalances, Deliver
<1>2. PICK e : e = Head(queue)
  OBVIOUS
<1>3. /\ balances' = IF e.kind = "balances" THEN Merged(balances, e.data) ELSE balances
      /\ openOrders' = openOrders \union (IF e.kind = "open" THEN {e.data} ELSE {})
  <2>1. CASE MergeOpenOrders
    BY <1>2, <2>1 DEF MergeOpenOrders, Deliver
  <2>2. CASE MergeTradeHistory
    BY <1>2, <2>2 DEF MergeTradeHistory, Deliver
  <2>3. CASE MergeBalances
    BY <1>2, <2>3 DEF MergeBalances, Deliver
  <2>4. QED
    BY <1>1, <2>1, <2>2, <2>3
<1>4. Own(queue')
  BY <1>1, OwnDelivered
<1>5. \A c \in Money : Settled(queue', balances', c) = Settled(queue, balances, c)
  <2>1. ASSUME NEW c \in Money
        PROVE  Settled(queue', balances', c) = Settled(queue, balances, c)
    <3>1. c \in Currencies
      BY ToldIs, ConstantsTyped DEF Money
    <3>2. PICK after : after = balances'
      OBVIOUS
    <3>3. after[c] = IF Head(queue).kind = "balances" /\ c \in DOMAIN Head(queue).data
                     THEN Head(queue).data[c] ELSE balances[c]
      BY <1>2, <1>3, <3>1, <3>2 DEF Merged
    <3>4. Settled(Tail(queue), after, c) = Settled(queue, balances, c)
      BY <1>1, <3>3, SettledTail
    <3>5. QED
      BY <1>1, <3>2, <3>4
  <2>2. QED
    BY <2>1
<1>6. SettledOffers(queue', openOrders') = SettledOffers(queue, openOrders)
  BY <1>1, <1>2, <1>3, OffersDelivered
<1>7. FreeMoney' = FreeMoney /\ LockedMoney' = LockedMoney /\ Tickets' = Tickets
  BY <1>5, <1>6 DEF FreeMoney, LockedMoney, Tickets
<1>8. QED
  BY <1>4, <1>7, LedgerStays

-----------------------------------------------------------------------------
(* The refinement.                                                         *)

(* Every step of the Emulator is one of the account, or moves nothing.     *)
LEMMA AccountStep ==
  ASSUME OneAtATime, CoinsApart, CutApart, Unbounded, LedgerInv, [Next]_vars
  PROVE  LedgerStep /\ LedgerInv'
<1>1. ASSUME NEW p \in Pairs, NEW price \in Prices, NEW volume \in Volumes, Buy(p, price, volume)
      PROVE  LedgerStep /\ Own(queue')
  BY <1>1, BuyMoves
<1>2. ASSUME NEW p \in Pairs, Sell(p) PROVE LedgerStep /\ Own(queue')
  BY <1>2, SellMoves
<1>3. ASSUME NEW o \in openOrders, cancelOrder(o) PROVE LedgerStep /\ Own(queue')
  BY <1>3, CancelMoves
<1>4. ASSUME NEW o \in openOrders, CancelCrashes(o) PROVE LedgerStep /\ Own(queue')
  BY <1>4, CrashMoves
<1>5. ASSUME NEW o \in openOrders, sellOrder(o) PROVE LedgerStep /\ Own(queue')
  BY <1>5, SoldMoves
<1>6. ASSUME MergeOpenOrders \/ MergeTradeHistory \/ MergeBalances PROVE LedgerStep /\ Own(queue')
  BY <1>6, MergeMoves
<1>7. ASSUME UNCHANGED vars PROVE LedgerStep /\ Own(queue')
  <2>1. UNCHANGED <<balances, openOrders, queue>>
    BY <1>7 DEF vars
  <2>2. FreeMoney' = FreeMoney /\ LockedMoney' = LockedMoney /\ Tickets' = Tickets
    BY <2>1 DEF FreeMoney, LockedMoney, Tickets
  <2>3. QED
    BY <2>1, <2>2, LedgerStays DEF LedgerInv
<1>8. LedgerStep /\ Own(queue')
  BY <1>1, <1>2, <1>3, <1>4, <1>5, <1>6, <1>7 DEF Next
<1>9. PositionInv'
  BY PositionStep DEF LedgerInv
<1>10. QED
  BY <1>8, <1>9 DEF LedgerInv

(* The account begins with the deposits, and nothing is held.              *)
LEMMA AccountStart ==
  ASSUME DepositsWhole, Init
  PROVE  LedgerInv /\ Ledger!AccountInit
<1>1. queue = <<>> /\ openOrders = {} /\ balances = userBalance
  BY DEF Init
<1>2. DOMAIN queue = {} /\ Range(queue) = {}
  BY <1>1 DEF Range
<1>3. ASSUME NEW c \in Money
      PROVE  /\ Settled(queue, balances, c).available \in Int
             /\ Settled(queue, balances, c).held = 0
  <2>1. c \in Currencies
    BY ToldIs, ConstantsTyped DEF Money
  <2>2. EntriesOf(queue, c) = {}
    BY <1>2 DEF EntriesOf
  <2>3. Settled(queue, balances, c) = balances[c]
    BY <2>2 DEF Settled, EntriesOf
  <2>4. balances[c] = Balance(Deposit[c], 0)
    BY <1>1, <2>1 DEF userBalance
  <2>5. QED
    BY <2>1, <2>3, <2>4, DepositAssumption DEF Balance
<1>4. Tickets = {}
  BY <1>1, <1>2 DEF Tickets, SettledOffers
<1>5. Ledger!AccountInit
  BY <1>3, <1>4 DEF Ledger!AccountInit, Tickets
<1>6. Own(queue)
  BY <1>2 DEF Own
<1>7. QED
  BY <1>5, <1>6, InitPosition DEF LedgerInv

(* What the Emulator and the storages make of the balances and offers is   *)
(* the account an exchange would keep: a purchase is paid for at once, an  *)
(* offer locks what it offers, a withdrawn one frees it whole and an       *)
(* executed one is paid for, for any number of orders, any prices and any  *)
(* pairs that share a base currency.                                       *)
THEOREM AccountKeptHolds ==
  ASSUME OneAtATime, CoinsApart, DepositsWhole, CutApart, Unbounded
  PROVE  Spec => AccountKept
<1>1. Init => LedgerInv /\ Ledger!AccountInit
  BY AccountStart
<1>2. LedgerInv /\ [Next]_vars => LedgerInv' /\ [Ledger!AccountNext]_(Ledger!accountVars)
  BY AccountStep DEF LedgerStep
<1>3. QED
  BY <1>1, <1>2, PTL DEF Spec, AccountKept, Ledger!AccountSpec
=============================================================================
