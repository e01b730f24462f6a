---------------------------- MODULE MarketsProofs ----------------------------
(***************************************************************************)
(* Proofs about Markets, for any set of pairs, any table of steps and      *)
(* every race and fault the module allows.                                 *)
(*                                                                         *)
(* TypeInv adds to TypeOK what a step needs to stay within the types: a    *)
(* session that still looks at the storage finds its market there, and a   *)
(* load has only pairs of its own rows left.  FiltersFed says which        *)
(* streams, or loads that will subscribe to them, feed the filters.        *)
(***************************************************************************)
EXTENDS Markets, SequenceTheorems, FiniteSetTheorems, TLAPS

(* A session made with the market of the storage finds it there.           *)
SessionsLive == \A p \in DOMAIN session : session[p] = {} => p \in DOMAIN storage

(* What a load has still to append is among its rows.                      *)
LoadsReady == \A i \in DOMAIN loads : loads[i].left \subseteq DOMAIN loads[i].group

TypeInv == TypeOK /\ SessionsLive /\ LoadsReady

-----------------------------------------------------------------------------
(* Functions of some of the pairs.                                         *)

(* Membership in OfSome, without the union it is defined by.               *)
LEMMA OfSomeIs ==
  ASSUME NEW S, NEW f
  PROVE  f \in OfSome(S) <=> DOMAIN f \subseteq Pairs /\ f \in [DOMAIN f -> S]
BY DEF OfSome

(* The empty function is one.                                              *)
LEMMA NothingTyped ==
  ASSUME NEW S
  PROVE  Nothing \in OfSome(S) /\ DOMAIN Nothing = {}
<1>1. DOMAIN Nothing = {} /\ Nothing \in [{} -> S]
  BY DEF Nothing
<1>2. QED
  BY <1>1, OfSomeIs

(* Setting a value adds the pair and keeps the other values.               *)
LEMMA WithTyped ==
  ASSUME NEW S, NEW f \in OfSome(S), NEW p \in Pairs, NEW v \in S
  PROVE  With(f, p, v) \in OfSome(S) /\ DOMAIN With(f, p, v) = DOMAIN f \cup {p}
<1>1. DOMAIN f \subseteq Pairs /\ f \in [DOMAIN f -> S]
  BY OfSomeIs
<1>2. /\ DOMAIN With(f, p, v) = DOMAIN f \cup {p}
      /\ With(f, p, v) \in [DOMAIN f \cup {p} -> S]
  BY <1>1 DEF With
<1>3. QED
  BY <1>1, <1>2, OfSomeIs

(* Taking a pair away keeps the other values.                              *)
LEMMA WithoutTyped ==
  ASSUME NEW S, NEW f \in OfSome(S), NEW p
  PROVE  Without(f, p) \in OfSome(S) /\ DOMAIN Without(f, p) = DOMAIN f \ {p}
<1>1. DOMAIN f \subseteq Pairs /\ f \in [DOMAIN f -> S]
  BY OfSomeIs
<1>2. /\ DOMAIN Without(f, p) = DOMAIN f \ {p}
      /\ Without(f, p) \in [DOMAIN f \ {p} -> S]
  BY <1>1 DEF Without, Restrict
<1>3. QED
  BY <1>1, <1>2, OfSomeIs

-----------------------------------------------------------------------------
(* The merges.                                                             *)

(* A market that is new has no steps, no trend and is not traded.          *)
LEMMA NewConfigTyped == NewConfig \in UserConfig
BY RatesAssumption, BoundsAssumption DEF NewConfig, UserConfig

(* After a description there are the markets that it lists, and no others. *)
LEMMA MergeInfoTyped ==
  ASSUME NEW markets \in OfSome(Market), NEW info \in OfSome(Statuses)
  PROVE  /\ MergeInfo(markets, info) \in OfSome(Market)
         /\ DOMAIN MergeInfo(markets, info) = DOMAIN info
<1>1. /\ DOMAIN markets \subseteq Pairs /\ markets \in [DOMAIN markets -> Market]
      /\ DOMAIN info \subseteq Pairs /\ info \in [DOMAIN info -> Statuses]
  BY OfSomeIs
<1> DEFINE entry(p) ==
      [config |-> IF p \in DOMAIN markets THEN markets[p].config ELSE NewConfig,
       status |-> info[p]]
<1>2. ASSUME NEW p \in DOMAIN info
      PROVE  entry(p) \in Market
  <2>1. p \in DOMAIN markets => markets[p].config \in UserConfig
    BY <1>1 DEF Market
  <2>2. info[p] \in Statuses
    BY <1>1
  <2>3. QED
    BY <2>1, <2>2, NewConfigTyped DEF Market
<1>3. MergeInfo(markets, info) = [p \in DOMAIN info |-> entry(p)]
  BY DEF MergeInfo
<1> HIDE DEF entry
<1>4. /\ DOMAIN MergeInfo(markets, info) = DOMAIN info
      /\ MergeInfo(markets, info) \in [DOMAIN info -> Market]
  BY <1>2, <1>3
<1>5. QED
  BY <1>1, <1>4, OfSomeIs

(* The data add no market and take none away.                              *)
LEMMA MergeDataTyped ==
  ASSUME NEW markets \in OfSome(Market), NEW pairs
  PROVE  /\ MergeData(markets, pairs) \in OfSome(Market)
         /\ DOMAIN MergeData(markets, pairs) = DOMAIN markets
<1>1. DOMAIN markets \subseteq Pairs /\ markets \in [DOMAIN markets -> Market]
  BY OfSomeIs
<1>2. \A p \in DOMAIN markets : SetConfig(markets[p]) \in Market
  BY <1>1 DEF SetConfig, Market, Statuses
<1>3. /\ DOMAIN MergeData(markets, pairs) = DOMAIN markets
      /\ MergeData(markets, pairs) \in [DOMAIN markets -> Market]
  BY <1>1, <1>2 DEF MergeData
<1>4. QED
  BY <1>1, <1>3, OfSomeIs

(* Neither does a configuration.                                           *)
LEMMA SetUserConfigTyped ==
  ASSUME NEW markets \in OfSome(Market), NEW p, NEW c \in UserConfig
  PROVE  /\ SetUserConfig(markets, p, c) \in OfSome(Market)
         /\ DOMAIN SetUserConfig(markets, p, c) = DOMAIN markets
<1>1. DOMAIN markets \subseteq Pairs /\ markets \in [DOMAIN markets -> Market]
  BY OfSomeIs
<1>2. /\ DOMAIN SetUserConfig(markets, p, c) = DOMAIN markets
      /\ SetUserConfig(markets, p, c) \in [DOMAIN markets -> Market]
  BY <1>1 DEF SetUserConfig, Market
<1>3. QED
  BY <1>1, <1>2, OfSomeIs

(* The configuration of a market is one.                                   *)
LEMMA ConfigTyped ==
  ASSUME NEW markets \in OfSome(Market), NEW p \in DOMAIN markets
  PROVE  p \in Pairs /\ markets[p] \in Market /\ markets[p].config \in UserConfig
<1>1. DOMAIN markets \subseteq Pairs /\ markets \in [DOMAIN markets -> Market]
  BY OfSomeIs
<1>2. QED
  BY <1>1 DEF Market

-----------------------------------------------------------------------------
(* Events and loads.                                                       *)

(* What an event of each kind carries.                                     *)
LEMMA EventKinds ==
  ASSUME NEW e \in Event
  PROVE  /\ e.kind = "info" => e.markets \in OfSome(Statuses)
         /\ e.kind \in {"update", "forward"} => e.pair \in Pairs /\ e.config \in UserConfig
         /\ e.kind \in {"books", "history"} => e.pair \in Pairs
         /\ e.kind = "history" => e.side \in Sides
BY DEF Event, Infos, Datas, Updates, Orders

(* The updates and merges that are posted are events.                      *)
LEMMA PostsTyped ==
  /\ \A m \in OfSome(Statuses) : [kind |-> "info", markets |-> m] \in Event
  /\ \A S \in SUBSET Pairs : [kind |-> "data", pairs |-> S] \in Event
  /\ \A p \in Pairs, c \in UserConfig :
       /\ Update(p, c) \in Event
       /\ [kind |-> "forward", pair |-> p, config |-> c] \in Event
  /\ \A p \in Pairs : [kind |-> "books", pair |-> p] \in Event
  /\ \A p \in Pairs, side \in Sides :
       [kind |-> "history", pair |-> p, side |-> side] \in Event
BY DEF Event, Infos, Datas, Updates, Orders, Update

(* Delivering the oldest event of a queue leaves the others.               *)
LEMMA HeadTyped ==
  ASSUME NEW s \in Seq(Event), s # <<>>
  PROVE  Head(s) \in Event /\ Tail(s) \in Seq(Event)
OBVIOUS

(* The innermost load and those around it.                                 *)
LEMMA LoadsOf ==
  ASSUME NEW s \in Seq(Load), s # <<>>
  PROVE  /\ Last(s) \in Load /\ Last(s) = s[Len(s)]
         /\ Front(s) \in Seq(Load)
         /\ Len(s) \in DOMAIN s
         /\ DOMAIN s = DOMAIN Front(s) \cup {Len(s)}
         /\ \A i \in DOMAIN Front(s) : Front(s)[i] = s[i]
<1>1. Len(s) \in Nat \ {0} /\ DOMAIN s = 1 .. Len(s)
  OBVIOUS
<1>2. Last(s) = s[Len(s)] /\ s[Len(s)] \in Load
  BY <1>1 DEF Last
<1>3. /\ Front(s) \in Seq(Load) /\ Len(Front(s)) = Len(s) - 1
      /\ \A i \in 1 .. Len(s) - 1 : Front(s)[i] = s[i]
  BY <1>1 DEF Front
<1>4. DOMAIN Front(s) = 1 .. Len(s) - 1
  BY <1>1, <1>3
<1>5. QED
  BY <1>1, <1>2, <1>3, <1>4

(* A load that is begun, or goes on, is the innermost one.                 *)
LEMMA AppendLoad ==
  ASSUME NEW s \in Seq(Load), NEW load \in Load
  PROVE  /\ Append(s, load) \in Seq(Load)
         /\ DOMAIN Append(s, load) = DOMAIN s \cup {Len(s) + 1}
         /\ \A i \in DOMAIN s : Append(s, load)[i] = s[i]
         /\ Append(s, load)[Len(s) + 1] = load
         /\ Len(s) + 1 \notin DOMAIN s
OBVIOUS

-----------------------------------------------------------------------------
(* The types are kept: what arrives.                                       *)

(* The description and the books and trades of the streams.                *)
LEMMA ArrivalsTyped ==
  ASSUME TypeInv,
         \/ InfoArrives
         \/ \E p \in Pairs : BookArrives(p)
         \/ \E p \in Pairs, side \in Sides : TradeArrives(p, side)
  PROVE  TypeInv'
<1> USE DEF TypeInv
<1>1. CASE InfoArrives
  <2>1. /\ listing \in OfSome(Statuses) /\ model \in OfSome(Market)
        /\ queue \in Seq(Event)
    BY DEF TypeOK
  <2>2. model' \in OfSome(Market) /\ queue' \in Seq(Event) /\ informed' \in BOOLEAN
    BY <1>1, <2>1, MergeInfoTyped, PostsTyped DEF InfoArrives
  <2>3. QED
    BY <1>1, <2>2 DEF InfoArrives, dataVars, loadVars, rowVars, userVars,
                      TypeOK, SessionsLive, LoadsReady
<1>2. ASSUME NEW p \in Pairs, BookArrives(p)
      PROVE  TypeInv'
  <2>1. booksModel \subseteq Pairs /\ queue \in Seq(Event)
    BY DEF TypeOK
  <2>2. booksModel' \subseteq Pairs /\ queue' \in Seq(Event)
    BY <1>2, <2>1, PostsTyped DEF BookArrives, MergeBook
  <2>3. QED
    BY <1>2, <2>2 DEF BookArrives, copyVars, loadVars, rowVars, userVars,
                      TypeOK, SessionsLive, LoadsReady
<1>3. ASSUME NEW p \in Pairs, NEW side \in Sides, TradeArrives(p, side)
      PROVE  TypeInv'
  <2>1. historyModel \in OfSome(Sides) /\ queue \in Seq(Event)
    BY DEF TypeOK
  <2>2. historyModel' \in OfSome(Sides)
    BY <1>3, <2>1, WithTyped DEF TradeArrives, MergeTrade
  <2>3. [kind |-> "history", pair |-> p, side |-> side] \in Event
    BY PostsTyped
  <2>4. queue' \in Seq(Event)
    BY <1>3, <2>1, <2>3 DEF TradeArrives
  <2>5. QED
    BY <1>3, <2>2, <2>4 DEF TradeArrives, copyVars, loadVars, rowVars, userVars,
                      TypeOK, SessionsLive, LoadsReady
<1>4. QED
  BY <1>1, <1>2, <1>3

(* Appending a pair of the rows puts it among the filters, and posts its   *)
(* configuration.                                                          *)
LEMMA AppendLoadedTyped ==
  ASSUME TypeOK, NEW markets \in OfSome(Market), NEW events \in Seq(Event),
         NEW load \in Load, NEW p \in DOMAIN load.group,
         AppendLoaded(markets, events, load, p)
  PROVE  /\ filters' = filters \cup {p} /\ filters' \subseteq Pairs
         /\ model' \in OfSome(Market) /\ queue' \in Seq(Event)
<1>1. load.group \in OfSome(UserConfig)
  BY DEF Load
<1>2. p \in Pairs /\ load.group[p] \in UserConfig
  BY <1>1, OfSomeIs
<1>3. filters' = filters \cup {p} /\ filters' \subseteq Pairs
  BY <1>2 DEF AppendLoaded, Insert, TypeOK
<1>4. model' \in OfSome(Market)
  BY <1>2, SetUserConfigTyped DEF AppendLoaded
<1>5. queue' \in Seq(Event)
  <2>1. Update(p, load.group[p]) \in Event
    BY <1>2, PostsTyped
  <2>2. QED
    BY <2>1 DEF AppendLoaded
<1>6. QED
  BY <1>3, <1>4, <1>5

(* The data, which may begin a load: its rows are those of the database,   *)
(* and one of them is appended at once.                                    *)
LEMMA DataEffect ==
  ASSUME TypeOK, DataArrives
  PROVE  /\ model' \in OfSome(Market) /\ queue' \in Seq(Event) /\ loaded' \in BOOLEAN
         /\ \/ UNCHANGED <<filters, loads>>
            \/ \E p \in DOMAIN rows :
                 LET load == [group |-> rows, left |-> DOMAIN rows \ {p}]
                 IN /\ p \in Pairs /\ load \in Load
                    /\ filters' = filters \cup {p}
                    /\ loads' = Append(loads, load)
         /\ UNCHANGED <<listing, storage, dataVars, session, streams, informed, rowVars,
                        userVars>>
<1> DEFINE merged == MergeData(model, Ticker.pairs)
           posted == Append(queue, Ticker)
           load(p) == [group |-> rows, left |-> DOMAIN rows \ {p}]
<1>1. /\ listing \in OfSome(Statuses) /\ model \in OfSome(Market)
      /\ queue \in Seq(Event) /\ rows \in OfSome(UserConfig) /\ loaded \in BOOLEAN
  BY DEF TypeOK
<1>2. DOMAIN listing \subseteq Pairs /\ DOMAIN rows \subseteq Pairs
  BY <1>1, OfSomeIs
<1>3. merged \in OfSome(Market)
  BY <1>1, MergeDataTyped
<1>4. Ticker \in Event
  BY <1>2, PostsTyped DEF Ticker
<1>5. posted \in Seq(Event)
  BY <1>1, <1>4
<1>6. ASSUME NEW p \in DOMAIN rows
      PROVE  load(p) \in Load /\ load(p).group = rows
  BY <1>1, <1>2 DEF Load
<1>7. CASE loaded \/ rows = Nothing
  BY <1>1, <1>3, <1>5, <1>7 DEF DataArrives
<1>8. CASE ~loaded /\ rows # Nothing
  <2>1. /\ UNCHANGED loaded
        /\ \E p \in DOMAIN rows : /\ AppendLoaded(merged, posted, load(p), p)
                                  /\ loads' = Append(loads, load(p))
    BY <1>8 DEF DataArrives
  <2>2. PICK p \in DOMAIN rows : /\ AppendLoaded(merged, posted, load(p), p)
                                 /\ loads' = Append(loads, load(p))
    BY <2>1
  <2>3. p \in Pairs /\ load(p) \in Load /\ p \in DOMAIN load(p).group
    BY <1>2, <1>6
  <2> HIDE DEF merged, posted, load
  <2>4. filters' = filters \cup {p} /\ model' \in OfSome(Market) /\ queue' \in Seq(Event)
    BY <1>3, <1>5, <2>2, <2>3, AppendLoadedTyped
  <2> USE DEF load
  <2>5. QED
    BY <1>1, <2>1, <2>2, <2>3, <2>4 DEF DataArrives
<1>9. QED
  BY <1>7, <1>8, <1>1

(* A load goes on with one of the pairs that are left.                     *)
LEMMA LoadNextEffect ==
  ASSUME TypeInv, LoadNext
  PROVE  \E p \in Last(loads).left :
           LET load == [Last(loads) EXCEPT !.left = @ \ {p}]
           IN /\ p \in Pairs /\ p \in DOMAIN Last(loads).group
              /\ load \in Load /\ load.group = Last(loads).group
              /\ load.left \subseteq DOMAIN load.group
              /\ filters' = filters \cup {p}
              /\ model' \in OfSome(Market) /\ queue' \in Seq(Event)
              /\ loads' = Append(Front(loads), load)
<1>1. loads \in Seq(Load) /\ loads # <<>>
  BY DEF TypeInv, TypeOK, LoadNext
<1>2. Last(loads) \in Load /\ Last(loads) = loads[Len(loads)] /\ Len(loads) \in DOMAIN loads
  BY <1>1, LoadsOf
<1>3. Last(loads).left \subseteq DOMAIN Last(loads).group
  BY <1>2 DEF TypeInv, LoadsReady
<1>4. PICK p \in Last(loads).left :
        /\ AppendLoaded(model, queue, Last(loads), p)
        /\ loads' = Append(Front(loads), [Last(loads) EXCEPT !.left = @ \ {p}])
  BY DEF LoadNext
<1>5. p \in Pairs /\ p \in DOMAIN Last(loads).group
  BY <1>2, <1>3, <1>4 DEF Load
<1>6. TypeOK /\ model \in OfSome(Market) /\ queue \in Seq(Event)
  BY DEF TypeInv, TypeOK
<1>7. filters' = filters \cup {p} /\ model' \in OfSome(Market) /\ queue' \in Seq(Event)
  BY <1>2, <1>4, <1>5, <1>6, AppendLoadedTyped
<1>8. LET load == [Last(loads) EXCEPT !.left = @ \ {p}]
      IN /\ load \in Load /\ load.group = Last(loads).group
         /\ load.left \subseteq DOMAIN load.group
  BY <1>2, <1>3, <1>4 DEF Load
<1>9. QED
  BY <1>4, <1>5, <1>7, <1>8

(* The data and the loads.                                                 *)
LEMMA LoadsTyped ==
  ASSUME TypeInv, DataArrives \/ LoadNext \/ LoadEnd
  PROVE  TypeInv'
<1>1. /\ filters \subseteq Pairs /\ loads \in Seq(Load) /\ rows \in OfSome(UserConfig)
      /\ streams \subseteq SUBSET Pairs
  BY DEF TypeInv, TypeOK
<1>2. \A i \in DOMAIN loads : loads[i].left \subseteq DOMAIN loads[i].group
  BY DEF TypeInv, LoadsReady
<1> DEFINE Ready(s) == \A i \in DOMAIN s : s[i].left \subseteq DOMAIN s[i].group
<1>3. ASSUME NEW s \in Seq(Load), NEW load \in Load, Ready(s),
             load.left \subseteq DOMAIN load.group
      PROVE  Append(s, load) \in Seq(Load) /\ Ready(Append(s, load))
  BY <1>3, AppendLoad
<1>4. loads # <<>> => Front(loads) \in Seq(Load) /\ Ready(Front(loads))
  BY <1>1, <1>2, LoadsOf
<1>5. CASE DataArrives
  <2>1. TypeOK
    BY DEF TypeInv
  <2>2. /\ model' \in OfSome(Market) /\ queue' \in Seq(Event) /\ loaded' \in BOOLEAN
        /\ UNCHANGED <<listing, storage, dataVars, session, streams, informed, rowVars,
                       userVars>>
    BY <1>5, <2>1, DataEffect
  <2>3. filters' \subseteq Pairs /\ loads' \in Seq(Load) /\ Ready(loads')
    <3>1. CASE UNCHANGED <<filters, loads>>
      BY <1>1, <1>2, <3>1
    <3>2. ASSUME NEW p \in DOMAIN rows, p \in Pairs,
                 [group |-> rows, left |-> DOMAIN rows \ {p}] \in Load,
                 filters' = filters \cup {p},
                 loads' = Append(loads, [group |-> rows, left |-> DOMAIN rows \ {p}])
          PROVE  filters' \subseteq Pairs /\ loads' \in Seq(Load) /\ Ready(loads')
      <4>1. /\ [group |-> rows, left |-> DOMAIN rows \ {p}].left = DOMAIN rows \ {p}
            /\ [group |-> rows, left |-> DOMAIN rows \ {p}].group = rows
        OBVIOUS
      <4>2. loads' \in Seq(Load) /\ Ready(loads')
        BY <1>1, <1>2, <1>3, <3>2, <4>1
      <4>3. QED
        BY <1>1, <3>2, <4>2
    <3>3. QED
      BY <1>5, <2>1, <3>1, <3>2, DataEffect
  <2>4. QED
    BY <2>2, <2>3 DEF TypeInv, TypeOK, SessionsLive, LoadsReady, dataVars, rowVars,
                      userVars
<1>6. CASE LoadNext
  <2>1. /\ filters' \subseteq Pairs /\ model' \in OfSome(Market) /\ queue' \in Seq(Event)
        /\ loads' \in Seq(Load) /\ Ready(loads')
    <3>1. loads # <<>>
      BY <1>6 DEF LoadNext
    <3>2. PICK p \in Last(loads).left :
            LET load == [Last(loads) EXCEPT !.left = @ \ {p}]
            IN /\ p \in Pairs /\ load \in Load /\ load.left \subseteq DOMAIN load.group
               /\ filters' = filters \cup {p}
               /\ model' \in OfSome(Market) /\ queue' \in Seq(Event)
               /\ loads' = Append(Front(loads), load)
      BY <1>6, LoadNextEffect
    <3>3. loads' \in Seq(Load) /\ Ready(loads')
      BY <1>3, <1>4, <3>1, <3>2
    <3>4. QED
      BY <1>1, <3>2, <3>3
  <2>2. QED
    BY <1>6, <2>1 DEF LoadNext, TypeInv, TypeOK, SessionsLive, LoadsReady, dataVars,
                      rowVars, userVars
<1>7. CASE LoadEnd
  <2>1. loads # <<>> /\ loads' = Front(loads)
    BY <1>7 DEF LoadEnd
  <2>2. loads' \in Seq(Load) /\ Ready(loads')
    BY <1>4, <2>1
  <2>3. DOMAIN Last(loads).group \subseteq Pairs
    <3>1. Last(loads) \in Load
      BY <1>1, <2>1, LoadsOf
    <3>2. QED
      BY <3>1, OfSomeIs DEF Load
  <2>4. streams' \subseteq SUBSET Pairs /\ loaded' \in BOOLEAN
    BY <1>1, <1>7, <2>3 DEF LoadEnd, Subscribe
  <2>5. QED
    BY <1>7, <2>2, <2>4 DEF LoadEnd, TypeInv, TypeOK, SessionsLive, LoadsReady,
                            copyVars, dataVars, rowVars, userVars
<1>8. QED
  BY <1>5, <1>6, <1>7

-----------------------------------------------------------------------------
(* The types are kept: deliveries.                                         *)

(* Each delivery takes the oldest event, and changes one copy.  A market   *)
(* that the description takes away is left to the session that has it.     *)
LEMMA DeliveriesTyped ==
  ASSUME TypeInv, Deliver
  PROVE  TypeInv'
<1>1. /\ queue \in Seq(Event) /\ storage \in OfSome(Market) /\ model \in OfSome(Market)
      /\ books \subseteq Pairs /\ history \in OfSome(Sides) /\ session \in OfSome(Sessions)
  BY DEF TypeInv, TypeOK
<1>2. queue # <<>>
  BY DEF Deliver, DeliverInfo, DeliverData, DeliverUpdate, DeliverForward, DeliverBook,
         DeliverTrade
<1>3. Head(queue) \in Event /\ Tail(queue) \in Seq(Event)
  BY <1>1, <1>2, HeadTyped
<1>4. CASE DeliverInfo
  <2>1. Head(queue).markets \in OfSome(Statuses)
    BY <1>3, <1>4, EventKinds DEF DeliverInfo
  <2> DEFINE info == Head(queue).markets
             left(p) == IF session[p] = {} /\ p \notin DOMAIN info
                        THEN {storage[p].config} ELSE session[p]
  <2>2. /\ storage' = MergeInfo(storage, info) /\ queue' = Tail(queue)
        /\ session' = [p \in DOMAIN session |-> left(p)]
    BY <1>4 DEF DeliverInfo
  <2>3. storage' \in OfSome(Market) /\ DOMAIN storage' = DOMAIN info
    BY <1>1, <2>1, <2>2, MergeInfoTyped
  <2>4. DOMAIN session \subseteq Pairs /\ session \in [DOMAIN session -> Sessions]
    BY <1>1, OfSomeIs
  <2>5. ASSUME NEW p \in DOMAIN session
        PROVE  left(p) \in Sessions /\ (left(p) = {} => p \in DOMAIN info)
    <3>1. CASE session[p] = {} /\ p \notin DOMAIN info
      <4>1. p \in DOMAIN storage
        BY <2>5, <3>1 DEF TypeInv, SessionsLive
      <4>2. storage[p].config \in UserConfig
        BY <1>1, <4>1, ConfigTyped
      <4>3. QED
        BY <3>1, <4>2 DEF Sessions
    <3>2. CASE ~(session[p] = {} /\ p \notin DOMAIN info)
      BY <2>4, <3>2
    <3>3. QED
      BY <3>1, <3>2
  <2>6. session' \in OfSome(Sessions) /\ SessionsLive'
    <3> HIDE DEF left
    <3>1. session' \in [DOMAIN session -> Sessions] /\ DOMAIN session' = DOMAIN session
      BY <2>2, <2>5
    <3>2. session' \in OfSome(Sessions)
      BY <2>4, <3>1, OfSomeIs
    <3>3. QED
      BY <2>2, <2>3, <2>5, <3>2 DEF SessionsLive
  <2>7. QED
    BY <1>3, <1>4, <2>2, <2>3, <2>6 DEF DeliverInfo, TypeInv, TypeOK, LoadsReady,
                      dataVars, loadVars, rowVars, userVars
<1>5. CASE DeliverData
  <2>1. storage' \in OfSome(Market) /\ DOMAIN storage' = DOMAIN storage
    BY <1>1, <1>5, MergeDataTyped DEF DeliverData
  <2>2. QED
    BY <1>3, <1>5, <2>1 DEF DeliverData, TypeInv, TypeOK, SessionsLive, LoadsReady,
                      dataVars, loadVars, rowVars, userVars
<1>6. CASE DeliverUpdate
  <2>1. Head(queue).config \in UserConfig
    BY <1>3, <1>6, EventKinds DEF DeliverUpdate
  <2>2. storage' \in OfSome(Market) /\ DOMAIN storage' = DOMAIN storage
    BY <1>1, <1>6, <2>1, SetUserConfigTyped DEF DeliverUpdate
  <2>3. QED
    BY <1>3, <1>6, <2>2 DEF DeliverUpdate, TypeInv, TypeOK, SessionsLive, LoadsReady,
                      dataVars, loadVars, rowVars, userVars
<1>7. CASE DeliverForward
  <2>1. Head(queue).pair \in Pairs /\ Head(queue).config \in UserConfig
    BY <1>3, <1>7, EventKinds DEF DeliverForward
  <2>2. model' \in OfSome(Market)
    BY <1>1, <1>7, <2>1, SetUserConfigTyped DEF DeliverForward
  <2>3. Update(Head(queue).pair, Head(queue).config) \in Event
    BY <2>1, PostsTyped
  <2>4. queue' \in Seq(Event)
    BY <1>3, <1>7, <2>3 DEF DeliverForward
  <2>5. QED
    BY <1>7, <2>2, <2>4 DEF DeliverForward, TypeInv, TypeOK, SessionsLive, LoadsReady,
                      dataVars, loadVars, rowVars, userVars
<1>8. CASE DeliverBook
  <2>1. Head(queue).pair \in Pairs
    BY <1>3, <1>8, EventKinds DEF DeliverBook
  <2>2. books' \subseteq Pairs
    BY <1>1, <1>8, <2>1 DEF DeliverBook, MergeBook
  <2>3. QED
    BY <1>3, <1>8, <2>2 DEF DeliverBook, TypeInv, TypeOK, SessionsLive, LoadsReady,
                      copyVars, loadVars, rowVars, userVars
<1>9. CASE DeliverTrade
  <2>1. Head(queue).pair \in Pairs /\ Head(queue).side \in Sides
    BY <1>3, <1>9, EventKinds DEF DeliverTrade
  <2>2. history' \in OfSome(Sides)
    BY <1>1, <1>9, <2>1, WithTyped DEF DeliverTrade, MergeTrade
  <2>3. QED
    BY <1>3, <1>9, <2>2 DEF DeliverTrade, TypeInv, TypeOK, SessionsLive, LoadsReady,
                      copyVars, loadVars, rowVars, userVars
<1>10. QED
  BY <1>4, <1>5, <1>6, <1>7, <1>8, <1>9 DEF Deliver

-----------------------------------------------------------------------------
(* The types are kept: the user.                                           *)

(* A market the window marks stays one.                                    *)
LEMMA MarkedTyped ==
  ASSUME NEW p \in DOMAIN model, NEW tradable \in BOOLEAN, model \in OfSome(Market)
  PROVE  /\ Marked(p, tradable) \in OfSome(Market)
         /\ Marked(p, tradable)[p].config \in UserConfig
<1>1. DOMAIN model \subseteq Pairs /\ model \in [DOMAIN model -> Market]
  BY OfSomeIs
<1>2. /\ DOMAIN Marked(p, tradable) = DOMAIN model
      /\ Marked(p, tradable) \in [DOMAIN model -> Market]
  BY <1>1 DEF Marked, Market, UserConfig
<1>3. Marked(p, tradable)[p].config \in UserConfig
  BY <1>2 DEF Market
<1>4. QED
  BY <1>1, <1>2, <1>3, OfSomeIs

(* Clicks change a configuration at the window and post it.                *)
LEMMA ClicksTyped ==
  ASSUME TypeInv, NEW p \in Pairs, AppendMarket(p) \/ PauseMarket(p) \/ RemoveMarket(p)
  PROVE  TypeInv'
<1>1. /\ queue \in Seq(Event) /\ storage \in OfSome(Market) /\ model \in OfSome(Market)
      /\ history \in OfSome(Sides) /\ historyModel \in OfSome(Sides)
      /\ session \in OfSome(Sessions)
  BY DEF TypeInv, TypeOK
<1>2. ASSUME NEW c \in UserConfig
      PROVE  /\ SetUserConfig(model, p, c) \in OfSome(Market)
             /\ Append(queue, Update(p, c)) \in Seq(Event)
  <2>1. Update(p, c) \in Event
    BY PostsTyped
  <2>2. QED
    BY <1>1, <2>1, SetUserConfigTyped
<1>3. CASE AppendMarket(p)
  <2> DEFINE d == [Marked(p, TRUE)[p].config EXCEPT !.steps = 0]
  <2>1. p \in DOMAIN model
    BY <1>3 DEF AppendMarket, Offered
  <2>2. Marked(p, TRUE)[p].config \in UserConfig
    BY <1>1, <2>1, MarkedTyped
  <2>3. d \in UserConfig
    <3>1. ASSUME NEW c \in UserConfig
          PROVE  [c EXCEPT !.steps = 0] \in UserConfig
      BY BoundsAssumption DEF UserConfig
    <3>2. QED
      BY <2>2, <3>1
  <2>4. model' = SetUserConfig(model, p, d) /\ queue' = Append(queue, Update(p, d))
    BY <1>3 DEF AppendMarket
  <2>5. model' \in OfSome(Market) /\ queue' \in Seq(Event)
    <3> HIDE DEF d
    <3>1. QED
      BY <1>2, <2>3, <2>4
  <2>6. /\ filters' \subseteq Pairs /\ streams' \subseteq SUBSET Pairs /\ wanted' \subseteq Pairs
        /\ progress' \in [Pairs -> 0 .. MaxSteps]
    BY <1>3, BoundsAssumption DEF AppendMarket, Insert, Subscribe, TypeInv, TypeOK
  <2>7. QED
    BY <1>3, <2>5, <2>6 DEF AppendMarket, TypeInv, TypeOK, SessionsLive, LoadsReady,
                            dataVars, loadVars, rowVars
<1>4. CASE PauseMarket(p)
  <2> DEFINE c == [model[p].config EXCEPT !.pause = ~@]
  <2>1. p \in DOMAIN model
    BY <1>4 DEF PauseMarket, Shown, TradingPairs
  <2>2. model[p].config \in UserConfig
    BY <1>1, <2>1, ConfigTyped
  <2>3. c \in UserConfig
    BY <2>2 DEF UserConfig
  <2>4. model' = SetUserConfig(model, p, c) /\ queue' = Append(queue, Update(p, c))
    BY <1>4 DEF PauseMarket
  <2>5. model' \in OfSome(Market) /\ queue' \in Seq(Event)
    <3> HIDE DEF c
    <3>1. QED
      BY <1>2, <2>3, <2>4
  <2>6. QED
    BY <1>4, <2>5 DEF PauseMarket, TypeInv, TypeOK, SessionsLive, LoadsReady,
                      dataVars, loadVars, rowVars, userVars
<1>5. CASE RemoveMarket(p)
  <2> DEFINE c == [storage[p].config EXCEPT !.tradable = FALSE, !.rate = 0]
  <2>1. model' \in OfSome(Market) /\ queue' \in Seq(Event)
    <3>1. CASE p \in DOMAIN storage
      <4>1. storage[p].config \in UserConfig
        BY <1>1, <3>1, ConfigTyped
      <4>2. c \in UserConfig
        BY <4>1, RatesAssumption DEF UserConfig
      <4>3. model' = SetUserConfig(model, p, c) /\ queue' = Append(queue, Update(p, c))
        BY <1>5, <3>1 DEF RemoveMarket
      <4> HIDE DEF c
      <4>4. QED
        BY <1>2, <4>2, <4>3
    <3>2. CASE p \notin DOMAIN storage
      <4>1. p \in DOMAIN model
        BY <1>5 DEF RemoveMarket, Shown, TradingPairs
      <4>2. QED
        BY <1>1, <1>5, <3>2, <4>1, MarkedTyped DEF RemoveMarket
    <3>3. QED
      BY <3>1, <3>2
  <2>2. history' \in OfSome(Sides) /\ historyModel' \in OfSome(Sides)
    BY <1>1, <1>5, WithoutTyped DEF RemoveMarket, RemoveHistory
  <2>3. session' \in OfSome(Sessions) /\ SessionsLive'
    <3>1. session' = Without(session, p) /\ storage' = storage
      BY <1>5 DEF RemoveMarket
    <3>2. session' \in OfSome(Sessions) /\ DOMAIN session' = DOMAIN session \ {p}
      BY <1>1, <3>1, WithoutTyped
    <3>3. \A q \in DOMAIN session' : session'[q] = session[q]
      BY <3>1 DEF Without, Restrict
    <3>4. QED
      BY <3>1, <3>2, <3>3 DEF TypeInv, SessionsLive
  <2>4. /\ filters' \subseteq Pairs /\ streams' \subseteq SUBSET Pairs
        /\ books' \subseteq Pairs /\ booksModel' \subseteq Pairs
        /\ wanted' \subseteq Pairs /\ leftover' \subseteq DOMAIN rows'
    BY <1>5 DEF RemoveMarket, Unsubscribe, RemoveBook, TypeInv, TypeOK
  <2>5. QED
    BY <1>5, <2>1, <2>2, <2>3, <2>4 DEF RemoveMarket, TypeInv, TypeOK, LoadsReady, loadVars
<1>6. QED
  BY <1>3, <1>4, <1>5

-----------------------------------------------------------------------------
(* The types are kept: the timers.                                         *)

(* The pairs that are traded are among the markets.                        *)
LEMMA TradedTyped ==
  ASSUME TypeOK
  PROVE  /\ TradingPairs(storage) \subseteq DOMAIN storage
         /\ TradingPairs(storage) \subseteq Pairs
<1>1. storage \in OfSome(Market)
  BY DEF TypeOK
<1>2. QED
  BY <1>1, OfSomeIs DEF TradingPairs

(* TrendSearcher changes the trend of the pairs it moves, in the windows   *)
(* at once, and posts their configurations one after the other.            *)
LEMMA TrendTyped ==
  ASSUME TypeInv, TrendTimer
  PROVE  TypeInv'
<1>1. queue \in Seq(Event) /\ storage \in OfSome(Market) /\ model \in OfSome(Market)
  BY DEF TypeInv, TypeOK
<1>2. Reached \subseteq DOMAIN storage /\ Reached \subseteq Pairs
  BY TradedTyped DEF Reached, TypeInv
<1>3. PICK rate \in RatesFound :
        LET moved == {p \in Reached : rate[p] # storage[p].config.rate}
            config == [p \in moved |-> [storage[p].config EXCEPT !.rate = rate[p]]]
        IN /\ \E pass \in [1 .. Cardinality(moved) -> moved] :
                queue' = queue \o [i \in DOMAIN pass |-> Update(pass[i], config[pass[i]])]
           /\ model' = [p \in DOMAIN model |->
                IF p \in moved THEN [model[p] EXCEPT !.config = config[p]] ELSE model[p]]
  BY DEF TrendTimer
<1> DEFINE moved == {p \in Reached : rate[p] # storage[p].config.rate}
           config == [p \in moved |-> [storage[p].config EXCEPT !.rate = rate[p]]]
<1>4. ASSUME NEW p \in moved
      PROVE  p \in Pairs /\ config[p] \in UserConfig
  <2>1. p \in Reached /\ rate[p] \in Rates
    BY DEF RatesFound
  <2>2. p \in Pairs /\ storage[p].config \in UserConfig
    BY <1>1, <1>2, <2>1, ConfigTyped
  <2>3. QED
    BY <2>1, <2>2 DEF UserConfig
<1>5. PICK pass \in [1 .. Cardinality(moved) -> moved] :
        queue' = queue \o [i \in DOMAIN pass |-> Update(pass[i], config[pass[i]])]
  BY <1>3
<1>6. Cardinality(moved) \in Nat
  <2>1. IsFiniteSet(moved)
    BY <1>2, PairsAssumption, FS_Subset
  <2>2. QED
    BY <2>1, FS_CardinalityType
<1>7. model' = [p \in DOMAIN model |->
        IF p \in moved THEN [model[p] EXCEPT !.config = config[p]] ELSE model[p]]
  BY <1>3
<1> HIDE DEF moved, config
<1>8. queue' \in Seq(Event)
  <2> DEFINE posted == [i \in DOMAIN pass |-> Update(pass[i], config[pass[i]])]
  <2>1. DOMAIN pass = 1 .. Cardinality(moved)
    OBVIOUS
  <2>2. \A i \in 1 .. Cardinality(moved) : posted[i] \in Event
    BY <1>4, PostsTyped
  <2>3. posted \in Seq(Event)
    BY <1>6, <2>1, <2>2, IsASeq
  <2>4. queue' = queue \o posted
    BY <1>5
  <2> HIDE DEF posted
  <2>5. QED
    BY <1>1, <2>3, <2>4
<1>9. model' \in OfSome(Market)
  <2>1. DOMAIN model \subseteq Pairs /\ model \in [DOMAIN model -> Market]
    BY <1>1, OfSomeIs
  <2>2. \A p \in DOMAIN model \cap moved : [model[p] EXCEPT !.config = config[p]] \in Market
    BY <1>4, <2>1 DEF Market
  <2>3. DOMAIN model' = DOMAIN model /\ model' \in [DOMAIN model -> Market]
    BY <1>7, <2>1, <2>2
  <2>4. QED
    BY <2>1, <2>3, OfSomeIs
<1>10. QED
  BY <1>8, <1>9 DEF TrendTimer, TypeInv, TypeOK, SessionsLive, LoadsReady,
                    dataVars, loadVars, rowVars, userVars

(* Every pair that is traded has a session, and the market of a session    *)
(* has a configuration.                                                    *)
LEMMA SessionsTyped ==
  ASSUME TypeInv
  PROVE  /\ WithSessions \in OfSome(Sessions)
         /\ \A p \in DOMAIN WithSessions : WithSessions[p] = {} => p \in DOMAIN storage
         /\ \A p \in TradingPairs(storage) : p \in Pairs /\ ConfigOf(p) \in UserConfig
<1>1. storage \in OfSome(Market) /\ session \in OfSome(Sessions)
  BY DEF TypeInv, TypeOK
<1>2. DOMAIN session \subseteq Pairs /\ session \in [DOMAIN session -> Sessions]
  BY <1>1, OfSomeIs
<1>3. TradingPairs(storage) \subseteq Pairs /\ TradingPairs(storage) \subseteq DOMAIN storage
  BY TradedTyped DEF TypeInv
<1>4. {} \in Sessions
  BY DEF Sessions
<1>5. /\ DOMAIN WithSessions = DOMAIN session \cup TradingPairs(storage)
      /\ WithSessions \in [DOMAIN session \cup TradingPairs(storage) -> Sessions]
  BY <1>2, <1>4 DEF WithSessions
<1>6. WithSessions \in OfSome(Sessions)
  BY <1>2, <1>3, <1>5, OfSomeIs
<1>7. \A p \in DOMAIN WithSessions : WithSessions[p] = {} => p \in DOMAIN storage
  BY <1>3, <1>5 DEF WithSessions, TypeInv, SessionsLive
<1>8. ASSUME NEW p \in TradingPairs(storage)
      PROVE  ConfigOf(p) \in UserConfig
  <2>1. WithSessions[p] \in Sessions /\ p \in DOMAIN storage
    BY <1>3, <1>5
  <2>2. CASE WithSessions[p] = {}
    BY <1>1, <2>1, <2>2, ConfigTyped DEF ConfigOf
  <2>3. CASE WithSessions[p] # {}
    <3>1. PICK c \in UserConfig : WithSessions[p] = {c}
      BY <2>1, <2>3 DEF Sessions
    <3>2. (CHOOSE d \in WithSessions[p] : TRUE) \in WithSessions[p]
      BY <2>3
    <3>3. ConfigOf(p) = CHOOSE d \in WithSessions[p] : TRUE
      BY <2>3 DEF ConfigOf
    <3>4. QED
      BY <3>1, <3>2, <3>3
  <2>4. QED
    BY <2>2, <2>3
<1>9. QED
  BY <1>3, <1>6, <1>7, <1>8

(* A step that closes, or the end of a cycle, posts a configuration and    *)
(* writes or deletes the row.                                              *)
LEMMA StepsTyped ==
  ASSUME TypeInv, NEW p \in TradingPairs(storage), CloseStep(p) \/ EndCycle(p)
  PROVE  /\ queue' \in Seq(Event) /\ rows' \in OfSome(UserConfig)
         /\ leftover' \subseteq DOMAIN rows'
         /\ progress' \in [Pairs -> 0 .. MaxSteps]
<1>1. /\ queue \in Seq(Event) /\ rows \in OfSome(UserConfig) /\ leftover \subseteq DOMAIN rows
      /\ progress \in [Pairs -> 0 .. MaxSteps] /\ MaxSteps \in Nat
  BY BoundsAssumption DEF TypeInv, TypeOK
<1>2. p \in Pairs /\ ConfigOf(p) \in UserConfig
  BY SessionsTyped
<1>3. ASSUME NEW c \in UserConfig, PostForward(p, c)
      PROVE  queue' \in Seq(Event)
  <2>1. [kind |-> "forward", pair |-> p, config |-> c] \in Event
    BY <1>2, PostsTyped
  <2>2. QED
    BY <1>1, <1>3, <2>1 DEF PostForward
<1>4. CASE CloseStep(p)
  <2>1. /\ NextStep(p) \in UserConfig /\ Row(NextStep(p)) \in UserConfig
    <3>1. ASSUME NEW c \in UserConfig, c.steps < MaxSteps
          PROVE  /\ [c EXCEPT !.steps = @ + 1] \in UserConfig
                 /\ [[c EXCEPT !.steps = @ + 1] EXCEPT !.tradable = TRUE] \in UserConfig
      <4>1. c.steps + 1 \in 0 .. MaxSteps
        BY <1>1, <3>1 DEF UserConfig
      <4>2. [c EXCEPT !.steps = @ + 1] \in UserConfig
        BY <4>1 DEF UserConfig
      <4>3. \A d \in UserConfig : [d EXCEPT !.tradable = TRUE] \in UserConfig
        BY DEF UserConfig
      <4>4. QED
        BY <4>2, <4>3
    <3>2. QED
      BY <1>2, <1>4, <3>1 DEF CloseStep, NextStep, Row
  <2>2. /\ PostForward(p, NextStep(p))
        /\ rows' = With(rows, p, Row(NextStep(p)))
        /\ leftover' = leftover \ {p}
        /\ progress' = [progress EXCEPT ![p] = IF @ < MaxSteps THEN @ + 1 ELSE @]
    BY <1>4 DEF CloseStep, CloseWith
  <2>3. rows' \in OfSome(UserConfig) /\ DOMAIN rows' = DOMAIN rows \cup {p}
    <3>1. /\ rows \in OfSome(UserConfig) /\ p \in Pairs
          /\ Row(NextStep(p)) \in UserConfig
      BY <1>1, <1>2, <2>1
    <3>2. LET r == With(rows, p, Row(NextStep(p)))
          IN r \in OfSome(UserConfig) /\ DOMAIN r = DOMAIN rows \cup {p}
      BY ONLY <3>1, WithTyped
    <3>3. QED
      BY <2>2, <3>2
  <2>4. progress' \in [Pairs -> 0 .. MaxSteps]
    BY <1>1, <1>2, <2>2
  <2>5. QED
    BY <1>1, <1>3, <2>1, <2>2, <2>3, <2>4
<1>5. CASE EndCycle(p)
  <2> DEFINE c == [ConfigOf(p) EXCEPT !.steps = 0]
  <2>1. c \in UserConfig
    <3>1. ASSUME NEW d \in UserConfig
          PROVE  [d EXCEPT !.steps = 0] \in UserConfig
      BY <1>1 DEF UserConfig
    <3>2. QED
      BY <1>2, <3>1
  <2>2. /\ PostForward(p, c) /\ rows' = Without(rows, p) /\ leftover' = leftover \ {p}
        /\ progress' = [progress EXCEPT ![p] = 0]
    BY <1>5 DEF EndCycle
  <2> HIDE DEF c
  <2>3. rows' \in OfSome(UserConfig) /\ DOMAIN rows' = DOMAIN rows \ {p}
    BY <1>1, <2>2, WithoutTyped
  <2>4. progress' \in [Pairs -> 0 .. MaxSteps]
    BY <1>1, <1>2, <2>2
  <2>5. QED
    BY <1>1, <1>3, <2>1, <2>2, <2>3, <2>4
<1>6. QED
  BY <1>4, <1>5

(* The timer of Hanukkah.                                                  *)
LEMMA HanukkahTyped ==
  ASSUME TypeInv, HanukkahTimer
  PROVE  TypeInv'
<1>1. session' = WithSessions /\ storage' = storage
  BY DEF HanukkahTimer, copyVars
<1>2. session' \in OfSome(Sessions) /\ SessionsLive'
  BY <1>1, SessionsTyped DEF SessionsLive
<1>3. /\ queue' \in Seq(Event) /\ rows' \in OfSome(UserConfig)
      /\ leftover' \subseteq DOMAIN rows'
      /\ progress' \in [Pairs -> 0 .. MaxSteps]
  <2>1. CASE UNCHANGED <<queue, rowVars, progress>>
    BY <2>1 DEF rowVars, TypeInv, TypeOK
  <2>2. CASE \E p \in TradingPairs(storage) : CloseStep(p) \/ EndCycle(p)
    BY <2>2, StepsTyped
  <2>3. QED
    BY <2>1, <2>2 DEF HanukkahTimer
<1>4. QED
  BY <1>2, <1>3 DEF HanukkahTimer, TypeInv, TypeOK, LoadsReady, copyVars, dataVars,
                    loadVars

-----------------------------------------------------------------------------
(* The types are kept: the end of the bot, and what the exchange lists.    *)

(* A bot that has just been started has nothing but its rows.              *)
LEMMA RestartTyped ==
  ASSUME TypeInv, Restarted, UNCHANGED listing, rows' \in OfSome(UserConfig),
         leftover' \subseteq DOMAIN rows', wanted' \subseteq Pairs,
         progress' \in [Pairs -> 0 .. MaxSteps]
  PROVE  TypeInv'
<1>1. /\ storage' \in OfSome(Market) /\ model' \in OfSome(Market)
      /\ history' \in OfSome(Sides) /\ historyModel' \in OfSome(Sides)
      /\ session' \in OfSome(Sessions) /\ DOMAIN session' = {}
  BY NothingTyped DEF Restarted
<1>2. queue' \in Seq(Event) /\ loads' \in Seq(Load) /\ DOMAIN loads' = {}
  BY DEF Restarted
<1>3. QED
  BY <1>1, <1>2 DEF Restarted, TypeInv, TypeOK, SessionsLive, LoadsReady

(* What the bot saves, keeps or loses is still a table of rows.            *)
LEMMA EndsTyped ==
  ASSUME TypeInv, Stop \/ Crash \/ Upgrade
  PROVE  TypeInv'
<1>1. /\ storage \in OfSome(Market) /\ rows \in OfSome(UserConfig)
      /\ leftover \subseteq DOMAIN rows /\ wanted \subseteq Pairs
      /\ progress \in [Pairs -> 0 .. MaxSteps] /\ MaxSteps \in Nat
  BY BoundsAssumption DEF TypeInv, TypeOK
<1>2. CASE Stop
  <2>1. /\ Restarted /\ UNCHANGED listing /\ rows' = Saved /\ leftover' = {}
        /\ UNCHANGED <<wanted, progress>>
    BY <1>2 DEF Stop, StopWith, userVars
  <2>2. TradingPairs(storage) \subseteq DOMAIN storage /\ TradingPairs(storage) \subseteq Pairs
    BY TradedTyped DEF TypeInv
  <2>3. \A p \in TradingPairs(storage) : storage[p].config \in UserConfig
    BY <1>1, <2>2, ConfigTyped
  <2>4. /\ DOMAIN Saved = TradingPairs(storage)
        /\ Saved \in [TradingPairs(storage) -> UserConfig]
    BY <2>3 DEF Saved
  <2>5. Saved \in OfSome(UserConfig)
    BY <2>2, <2>4, OfSomeIs
  <2>6. QED
    BY <1>1, <2>1, <2>5, RestartTyped
<1>3. CASE Crash
  <2>1. /\ Restarted /\ UNCHANGED <<listing, rows, leftover>>
        /\ wanted' = wanted \cap DOMAIN rows
        /\ progress' = [p \in Pairs |-> IF p \in wanted' THEN progress[p] ELSE 0]
    BY <1>3 DEF Crash, rowVars
  <2>2. progress' \in [Pairs -> 0 .. MaxSteps]
    BY <1>1, <2>1
  <2>3. QED
    BY <1>1, <2>1, <2>2, RestartTyped
<1>4. CASE Upgrade
  <2>1. /\ Restarted /\ UNCHANGED listing /\ rows' = Nothing /\ leftover' = {}
        /\ wanted' = {} /\ progress' = [p \in Pairs |-> 0]
    BY <1>4 DEF Upgrade
  <2>2. rows' \in OfSome(UserConfig) /\ progress' \in [Pairs -> 0 .. MaxSteps]
    BY <1>1, <2>1, NothingTyped
  <2>3. QED
    BY <2>1, <2>2, RestartTyped
<1>5. QED
  BY <1>2, <1>3, <1>4

(* The list of the exchange.                                               *)
LEMMA ListingTyped ==
  ASSUME TypeInv, ListingChanges
  PROVE  TypeInv'
<1>1. listing \in OfSome(Statuses)
  BY DEF TypeInv, TypeOK
<1>2. listing' \in OfSome(Statuses)
  <2>1. PICK p \in Pairs :
          listing' \in {Without(listing, p)} \cup {With(listing, p, s) : s \in Statuses}
    BY DEF ListingChanges
  <2>2. CASE listing' = Without(listing, p)
    BY <1>1, <2>2, WithoutTyped
  <2>3. ASSUME NEW s \in Statuses, listing' = With(listing, p, s)
        PROVE  listing' \in OfSome(Statuses)
    BY <1>1, <2>3, WithTyped
  <2>4. QED
    BY <2>1, <2>2, <2>3
<1>3. QED
  BY <1>2 DEF ListingChanges, TypeInv, TypeOK, SessionsLive, LoadsReady, copyVars,
              dataVars, loadVars, rowVars, userVars

(* Every step of the bot and of its environment keeps the types.           *)
LEMMA TypeStep == TypeInv /\ [Next]_vars => TypeInv'
<1> SUFFICES ASSUME TypeInv, [Next]_vars
             PROVE  TypeInv'
  OBVIOUS
<1>1. CASE InfoArrives \/ (\E p \in Pairs : BookArrives(p))
           \/ (\E p \in Pairs, side \in Sides : TradeArrives(p, side))
  BY <1>1, ArrivalsTyped
<1>2. CASE DataArrives \/ LoadNext \/ LoadEnd
  BY <1>2, LoadsTyped
<1>3. CASE Deliver
  BY <1>3, DeliveriesTyped
<1>4. CASE \E p \in Pairs : AppendMarket(p) \/ PauseMarket(p) \/ RemoveMarket(p)
  BY <1>4, ClicksTyped
<1>5. CASE TrendTimer \/ HanukkahTimer
  BY <1>5, TrendTyped, HanukkahTyped
<1>6. CASE Stop \/ Crash \/ Upgrade
  BY <1>6, EndsTyped
<1>7. CASE ListingChanges
  BY <1>7, ListingTyped
<1>8. CASE UNCHANGED vars
  BY <1>8 DEF vars, TypeInv, TypeOK, SessionsLive, LoadsReady, copyVars, dataVars,
              loadVars, rowVars, userVars
<1>9. QED
  BY <1>1, <1>2, <1>3, <1>4, <1>5, <1>6, <1>7, <1>8 DEF Next

(* The types hold always.                                                  *)
LEMMA TypesCorrect == Spec => []TypeInv
<1>1. Init => TypeInv
  <2> SUFFICES ASSUME Init
               PROVE  TypeInv
    OBVIOUS
  <2>1. /\ storage \in OfSome(Market) /\ model \in OfSome(Market)
        /\ history \in OfSome(Sides) /\ historyModel \in OfSome(Sides)
        /\ session \in OfSome(Sessions) /\ DOMAIN session = {}
        /\ rows \in OfSome(UserConfig)
    BY NothingTyped DEF Init
  <2>2. listing \in OfSome(Statuses)
    BY OfSomeIs DEF Init, Statuses
  <2>3. queue \in Seq(Event) /\ loads \in Seq(Load) /\ DOMAIN loads = {}
    BY DEF Init
  <2>4. progress \in [Pairs -> 0 .. MaxSteps]
    BY BoundsAssumption DEF Init
  <2>5. QED
    BY <2>1, <2>2, <2>3, <2>4 DEF Init, TypeInv, TypeOK, SessionsLive, LoadsReady
<1>2. QED
  BY <1>1, TypeStep, PTL DEF Spec

(* Whatever is posted, delivered late, lost in a crash or no longer listed *)
(* when it is delivered, the copies, the sessions and the rows hold        *)
(* markets and configurations of the listed pairs, and a delivery never    *)
(* looks for a market or a table that is not there.                        *)
THEOREM TypeCorrect == Spec => []TypeOK
BY TypesCorrect, PTL DEF TypeInv

-----------------------------------------------------------------------------
(* Nothing of a pair that was removed.                                     *)

(* A merge lets nothing in that the filters do not have.                   *)
LEMMA MergesFiltered ==
  ASSUME NEW p \in Pairs, NEW side \in Sides, NEW markets
  PROVE  /\ \A pairs \in SUBSET filters : MergeBook(pairs, markets, p) \subseteq filters
         /\ \A trades \in OfSome(Sides) : DOMAIN trades \subseteq filters
              => DOMAIN MergeTrade(trades, markets, p, side) \subseteq filters
<1>1. \A pairs \in SUBSET filters : MergeBook(pairs, markets, p) \subseteq filters
  BY DEF MergeBook
<1>2. ASSUME NEW trades \in OfSome(Sides), DOMAIN trades \subseteq filters
      PROVE  DOMAIN MergeTrade(trades, markets, p, side) \subseteq filters
  <2>1. CASE p \in filters \cap DOMAIN markets
    <3>1. DOMAIN With(trades, p, side) = DOMAIN trades \cup {p}
      BY WithTyped
    <3>2. QED
      BY <1>2, <2>1, <3>1 DEF MergeTrade
  <2>2. CASE p \notin filters \cap DOMAIN markets
    BY <1>2, <2>2 DEF MergeTrade
  <2>3. QED
    BY <2>1, <2>2
<1>3. QED
  BY <1>1, <1>2

(* The filters only lose a pair together with its book and its history,    *)
(* and a merge that was posted before asks them again.                     *)
LEMMA NothingOfRemovedStep ==
  TypeInv /\ NothingOfRemoved /\ [Next]_vars => NothingOfRemoved'
<1> SUFFICES ASSUME TypeInv, NothingOfRemoved, [Next]_vars
             PROVE  NothingOfRemoved'
  OBVIOUS
<1> USE DEF NothingOfRemoved
<1>1. /\ history \in OfSome(Sides) /\ historyModel \in OfSome(Sides)
      /\ queue \in Seq(Event)
  BY DEF TypeInv, TypeOK
<1>2. ASSUME filters \subseteq filters', UNCHANGED dataVars
      PROVE  NothingOfRemoved'
  BY <1>2 DEF dataVars
<1>3. ASSUME NEW p \in Pairs, BookArrives(p)
      PROVE  NothingOfRemoved'
  <2>1. \A side \in Sides : booksModel' \subseteq filters
    BY <1>3, MergesFiltered DEF BookArrives
  <2>2. booksModel' \subseteq filters
    BY <2>1 DEF Sides
  <2>3. QED
    BY <1>3, <2>2 DEF BookArrives
<1>4. ASSUME NEW p \in Pairs, NEW side \in Sides, TradeArrives(p, side)
      PROVE  NothingOfRemoved'
  <2>1. DOMAIN historyModel' \subseteq filters
    BY <1>1, <1>4, MergesFiltered DEF TradeArrives
  <2>2. QED
    BY <1>4, <2>1 DEF TradeArrives
<1>5. CASE DeliverBook
  <2>1. Head(queue).pair \in Pairs
    BY <1>1, <1>5, HeadTyped, EventKinds DEF DeliverBook
  <2>2. \A side \in Sides : books' \subseteq filters
    BY <1>5, <2>1, MergesFiltered DEF DeliverBook
  <2>3. books' \subseteq filters
    BY <2>2 DEF Sides
  <2>4. QED
    BY <1>5, <2>3 DEF DeliverBook
<1>6. CASE DeliverTrade
  <2>1. Head(queue).pair \in Pairs /\ Head(queue).side \in Sides
    BY <1>1, <1>6, HeadTyped, EventKinds DEF DeliverTrade
  <2>2. DOMAIN history' \subseteq filters
    BY <1>1, <1>6, <2>1, MergesFiltered DEF DeliverTrade
  <2>3. QED
    BY <1>6, <2>2 DEF DeliverTrade
<1>7. CASE DeliverInfo \/ DeliverData \/ DeliverUpdate \/ DeliverForward
  BY <1>2, <1>7 DEF DeliverInfo, DeliverData, DeliverUpdate, DeliverForward
<1>8. CASE InfoArrives \/ LoadEnd \/ TrendTimer \/ HanukkahTimer \/ ListingChanges
  BY <1>2, <1>8 DEF InfoArrives, LoadEnd, TrendTimer, HanukkahTimer, ListingChanges
<1>9. CASE DataArrives
  <2>1. TypeOK
    BY DEF TypeInv
  <2>2. filters \subseteq filters' /\ UNCHANGED dataVars
    BY <1>9, <2>1, DataEffect
  <2>3. QED
    BY <1>2, <2>2
<1>10. CASE LoadNext
  <2>1. filters \subseteq filters'
    BY <1>10, LoadNextEffect
  <2>2. QED
    BY <1>2, <1>10, <2>1 DEF LoadNext
<1>11. ASSUME NEW p \in Pairs, AppendMarket(p) \/ PauseMarket(p)
       PROVE  NothingOfRemoved'
  BY <1>2, <1>11 DEF AppendMarket, PauseMarket, Insert
<1>12. ASSUME NEW p \in Pairs, RemoveMarket(p)
       PROVE  NothingOfRemoved'
  <2>1. /\ filters' = filters \ {p} /\ books' = books \ {p}
        /\ booksModel' = booksModel \ {p}
        /\ history' = Without(history, p) /\ historyModel' = Without(historyModel, p)
    BY <1>12 DEF RemoveMarket, RemoveBook, RemoveHistory
  <2>2. /\ DOMAIN history' = DOMAIN history \ {p}
        /\ DOMAIN historyModel' = DOMAIN historyModel \ {p}
    BY <1>1, <2>1, WithoutTyped
  <2>3. QED
    BY <2>1, <2>2
<1>13. CASE Stop \/ Crash \/ Upgrade
  <2>1. books' = {} /\ booksModel' = {} /\ history' = Nothing /\ historyModel' = Nothing
    BY <1>13 DEF Stop, StopWith, Crash, Upgrade, Restarted
  <2>2. QED
    BY <2>1, NothingTyped
<1>14. CASE UNCHANGED vars
  BY <1>2, <1>14 DEF vars
<1>15. QED
  BY <1>3, <1>4, <1>5, <1>6, <1>7, <1>8, <1>9, <1>10, <1>11, <1>12, <1>13, <1>14
     DEF Next, Deliver

(* A pair that the user has stopped leaves no book and no history behind,  *)
(* in the storages or in the windows, whatever was posted before           *)
(* (removeMarket, MarketOrdersStorage::merge, TradeHistoryStorage::merge). *)
THEOREM NothingOfRemovedHolds == Spec => []NothingOfRemoved
<1>1. Init => NothingOfRemoved
  BY NothingTyped DEF Init, NothingOfRemoved
<1>2. QED
  BY <1>1, NothingOfRemovedStep, TypesCorrect, PTL DEF Spec

-----------------------------------------------------------------------------
(* The streams cover the filters.                                          *)

(* The pairs of a load are subscribed to together when it ends: until then *)
(* the load itself answers for them.                                       *)
Promised == UNION {DOMAIN loads[i].group : i \in DOMAIN loads}
FiltersFed == filters \subseteq (UNION streams) \cup Promised

(* No stream is lost but by removeMarket, and no load but by its end.      *)
LEMMA FiltersFedStep == TypeInv /\ FiltersFed /\ [Next]_vars => FiltersFed'
<1> SUFFICES ASSUME TypeInv, FiltersFed, [Next]_vars
             PROVE  FiltersFed'
  OBVIOUS
<1> USE DEF FiltersFed
<1>1. loads \in Seq(Load)
  BY DEF TypeInv, TypeOK
<1>2. ASSUME filters' \subseteq filters, UNCHANGED <<streams, loads>>
      PROVE  FiltersFed'
  BY <1>2 DEF Promised
<1>3. CASE DataArrives
  <2>1. TypeOK
    BY DEF TypeInv
  <2>2. UNCHANGED streams
    BY <1>3, <2>1, DataEffect
  <2>3. CASE UNCHANGED <<filters, loads>>
    BY <1>2, <2>2, <2>3
  <2>4. ASSUME NEW p \in DOMAIN rows, NEW load \in Load, load.group = rows,
               filters' = filters \cup {p}, loads' = Append(loads, load)
        PROVE  FiltersFed'
    <3>1. Promised \cup DOMAIN rows \subseteq Promised'
      BY <1>1, <2>4, AppendLoad DEF Promised
    <3>2. QED
      BY <2>2, <2>4, <3>1
  <2>5. QED
    <3>1. CASE \E p \in DOMAIN rows :
                 LET load == [group |-> rows, left |-> DOMAIN rows \ {p}]
                 IN /\ p \in Pairs /\ load \in Load
                    /\ filters' = filters \cup {p}
                    /\ loads' = Append(loads, load)
      <4>1. PICK p \in DOMAIN rows :
              LET load == [group |-> rows, left |-> DOMAIN rows \ {p}]
              IN /\ load \in Load /\ filters' = filters \cup {p}
                 /\ loads' = Append(loads, load)
        BY <3>1
      <4>2. [group |-> rows, left |-> DOMAIN rows \ {p}].group = rows
        OBVIOUS
      <4>3. QED
        BY <2>4, <4>1, <4>2
    <3>2. QED
      BY <1>3, <2>1, <2>3, <3>1, DataEffect
<1>4. CASE LoadNext
  <2>1. loads # <<>> /\ UNCHANGED streams
    BY <1>4 DEF LoadNext
  <2>2. PICK p \in Last(loads).left :
          LET load == [Last(loads) EXCEPT !.left = @ \ {p}]
          IN /\ p \in DOMAIN Last(loads).group
             /\ load \in Load /\ load.group = Last(loads).group
             /\ filters' = filters \cup {p}
             /\ loads' = Append(Front(loads), load)
    BY <1>4, LoadNextEffect
  <2>3. /\ Front(loads) \in Seq(Load) /\ Last(loads) = loads[Len(loads)]
        /\ Len(loads) \in DOMAIN loads
        /\ DOMAIN loads = DOMAIN Front(loads) \cup {Len(loads)}
        /\ \A i \in DOMAIN Front(loads) : Front(loads)[i] = loads[i]
    BY <1>1, <2>1, LoadsOf
  <2>4. Promised \subseteq Promised' /\ DOMAIN Last(loads).group \subseteq Promised'
    <3> DEFINE load == [Last(loads) EXCEPT !.left = @ \ {p}]
    <3>1. load \in Load /\ load.group = Last(loads).group
          /\ loads' = Append(Front(loads), load)
      BY <2>2
    <3> HIDE DEF load
    <3>2. /\ DOMAIN loads' = DOMAIN Front(loads) \cup {Len(Front(loads)) + 1}
          /\ \A i \in DOMAIN Front(loads) : loads'[i] = Front(loads)[i]
          /\ loads'[Len(Front(loads)) + 1] = load
      BY <2>3, <3>1, AppendLoad
    <3>3. DOMAIN Last(loads).group \subseteq Promised'
      BY <3>1, <3>2 DEF Promised
    <3>4. ASSUME NEW i \in DOMAIN Front(loads)
          PROVE  DOMAIN loads[i].group \subseteq Promised'
      <4>1. i \in DOMAIN loads' /\ loads'[i] = loads[i]
        BY <2>3, <3>2
      <4>2. QED
        BY <4>1 DEF Promised
    <3>5. QED
      BY <2>3, <3>3, <3>4 DEF Promised
  <2>5. QED
    BY <2>1, <2>2, <2>4
<1>5. CASE LoadEnd
  <2>1. /\ loads # <<>> /\ loads' = Front(loads) /\ UNCHANGED filters
        /\ streams' = streams \cup {DOMAIN Last(loads).group}
    BY <1>5 DEF LoadEnd, Subscribe
  <2>2. /\ Last(loads) = loads[Len(loads)]
        /\ DOMAIN loads = DOMAIN Front(loads) \cup {Len(loads)}
        /\ \A i \in DOMAIN Front(loads) : Front(loads)[i] = loads[i]
    BY <1>1, <2>1, LoadsOf
  <2>3. Promised \subseteq Promised' \cup DOMAIN Last(loads).group
    BY <2>1, <2>2 DEF Promised
  <2>4. QED
    BY <2>1, <2>3
<1>6. ASSUME NEW p \in Pairs, AppendMarket(p)
      PROVE  FiltersFed'
  <2>1. /\ filters' = filters \cup {p} /\ streams' = streams \cup {{p}}
        /\ UNCHANGED loads
    BY <1>6 DEF AppendMarket, Insert, Subscribe, loadVars
  <2>2. QED
    BY <2>1 DEF Promised
<1>7. ASSUME NEW p \in Pairs, RemoveMarket(p)
      PROVE  FiltersFed'
  <2>1. filters' = filters \ {p} /\ streams' = streams \ {{p}} /\ UNCHANGED loads
    BY <1>7 DEF RemoveMarket, Unsubscribe, loadVars
  <2>2. UNION streams \subseteq (UNION streams') \cup {p}
    BY <2>1
  <2>3. QED
    BY <2>1, <2>2 DEF Promised
<1>8. ASSUME NEW p \in Pairs, PauseMarket(p)
      PROVE  FiltersFed'
  BY <1>2, <1>8 DEF PauseMarket, loadVars
<1>9. CASE \/ InfoArrives \/ Deliver \/ TrendTimer \/ HanukkahTimer \/ ListingChanges
           \/ \E p \in Pairs : BookArrives(p)
           \/ \E p \in Pairs, side \in Sides : TradeArrives(p, side)
  <2>1. UNCHANGED <<filters, streams, loads>>
    BY <1>9 DEF InfoArrives, Deliver, DeliverInfo, DeliverData, DeliverUpdate,
                DeliverForward, DeliverBook, DeliverTrade, TrendTimer, HanukkahTimer,
                ListingChanges, BookArrives, TradeArrives, loadVars
  <2>2. QED
    BY <1>2, <2>1
<1>10. CASE Stop \/ Crash \/ Upgrade
  BY <1>10 DEF Stop, StopWith, Crash, Upgrade, Restarted
<1>11. CASE UNCHANGED vars
  BY <1>2, <1>11 DEF vars, loadVars
<1>12. QED
  BY <1>3, <1>4, <1>5, <1>6, <1>7, <1>8, <1>9, <1>10, <1>11 DEF Next

(* The bot gets the book of every pair it trades, even when data begin a   *)
(* load inside a load and pairs are put into trade or stopped meanwhile    *)
(* (appendMarketsGroup, listMarketOrders, removeListMarketOrders).         *)
THEOREM StreamsCoverHolds == Spec => []StreamsCover
<1>1. Init => FiltersFed
  BY DEF Init, FiltersFed
<1>2. FiltersFed => StreamsCover
  BY DEF FiltersFed, StreamsCover, Promised
<1>3. QED
  BY <1>1, <1>2, FiltersFedStep, TypesCorrect, PTL DEF Spec

(* An event at the end of the queue.                                       *)
LEMMA AppendEvent ==
  ASSUME NEW s \in Seq(Event), NEW e \in Event
  PROVE  /\ Append(s, e) \in Seq(Event)
         /\ DOMAIN Append(s, e) = DOMAIN s \cup {Len(s) + 1}
         /\ \A i \in DOMAIN s : Append(s, e)[i] = s[i]
         /\ Append(s, e)[Len(s) + 1] = e
         /\ Len(s) + 1 \notin DOMAIN s
OBVIOUS

(* A pass that goes up meets everyone once.                                *)
LEMMA PassMeetsAll ==
  ASSUME NEW S \in SUBSET Nat, IsFiniteSet(S),
         NEW pass \in [1 .. Cardinality(S) -> S],
         \A i, j \in DOMAIN pass : i < j => pass[i] < pass[j]
  PROVE  \A x \in S : \E k \in DOMAIN pass : \A j \in DOMAIN pass : pass[j] = x <=> j = k
<1>1. Cardinality(S) \in Nat
  BY FS_CardinalityType
<1>2. \A i, j \in DOMAIN pass : pass[i] = pass[j] => i = j
  <2>1. SUFFICES ASSUME NEW i \in DOMAIN pass, NEW j \in DOMAIN pass, pass[i] = pass[j], i # j
                 PROVE  FALSE
    OBVIOUS
  <2>2. i \in Int /\ j \in Int /\ (i < j \/ j < i)
    BY <1>1, <2>1
  <2>3. pass[i] < pass[j] \/ pass[j] < pass[i]
    BY <2>2
  <2>4. pass[i] \in Nat
    BY <2>1
  <2>5. QED
    BY <2>1, <2>3, <2>4
<1>3. pass \in Injection(1 .. Cardinality(S), S)
  BY <1>2 DEF Injection, IsInjective
<1>4. IsFiniteSet(1 .. Cardinality(S)) /\ Cardinality(1 .. Cardinality(S)) = Cardinality(S)
  BY <1>1, FS_Interval
<1>5. pass \in Surjection(1 .. Cardinality(S), S)
  BY <1>3, <1>4, FS_Injection
<1>6. \A x \in S : \E k \in DOMAIN pass : pass[k] = x
  BY <1>5 DEF Surjection
<1>7. QED
  BY <1>2, <1>6

-----------------------------------------------------------------------------
(* The windows and the algorithms come to the same markets.                *)

(* What the delivery of an event makes of the markets of the storage.      *)
Applied(markets, e) ==
  CASE e.kind = "info" -> MergeInfo(markets, e.markets)
    [] e.kind = "data" -> MergeData(markets, e.pairs)
    [] e.kind = "update" -> SetUserConfig(markets, e.pair, e.config)
    [] OTHER -> markets

(* A market that is there but has nothing of its own.                      *)
Fresh(markets, p) == p \in DOMAIN markets => markets[p].config = NewConfig

(* The queue leads from the markets of the storage to those of the model:  *)
(* the stages between are what its events make of them, one after the      *)
(* other.  A pair that a stage does not have is fresh when it comes, as    *)
(* long as no configuration does.                                          *)
Path(stage, q) ==
  /\ \A i \in 1 .. Len(q) : stage[i] = Applied(stage[i - 1], q[i])
  /\ \A i, j \in 0 .. Len(q), p \in Pairs :
       i <= j /\ p \notin DOMAIN stage[i] /\ (\A k \in i + 1 .. j : q[k].kind # "update")
         => Fresh(stage[j], p)
Leads(q, from, to) ==
  \E stage \in [Nat -> OfSome(Market)] :
    Path(stage, q) /\ stage[0] = from /\ stage[Len(q)] = to

(* The storage and the model of the bot are such markets.                  *)
Replayed == Leads(queue, storage, model)

(* No user acts while a configuration is posted.                           *)
Unhurried == "user" \notin Races

(* An event makes markets of markets, and only an update makes one of its  *)
(* pair that is not fresh.                                                 *)
LEMMA AppliedTyped ==
  ASSUME NEW markets \in OfSome(Market), NEW e \in Event
  PROVE  /\ Applied(markets, e) \in OfSome(Market)
         /\ e.kind # "update" =>
              \A p \in Pairs : Fresh(markets, p) => Fresh(Applied(markets, e), p)
<1>1. CASE e.kind = "info"
  <2>1. Applied(markets, e) = MergeInfo(markets, e.markets) /\ e.markets \in OfSome(Statuses)
    BY <1>1, EventKinds DEF Applied
  <2>2. Applied(markets, e) \in OfSome(Market)
    BY <2>1, MergeInfoTyped
  <2>3. \A p \in Pairs : Fresh(markets, p) => Fresh(MergeInfo(markets, e.markets), p)
    BY DEF Fresh, MergeInfo
  <2>4. QED
    BY <2>1, <2>2, <2>3
<1>2. CASE e.kind = "data"
  <2>1. Applied(markets, e) = MergeData(markets, e.pairs)
    BY <1>2 DEF Applied
  <2>2. Applied(markets, e) \in OfSome(Market)
    BY <2>1, MergeDataTyped
  <2>3. \A p \in DOMAIN markets : markets[p] \in Market
    BY ConfigTyped
  <2>4. \A m \in Market : SetConfig(m).config = m.config
    BY DEF SetConfig, Market
  <2>5. \A p \in Pairs : Fresh(markets, p) => Fresh(MergeData(markets, e.pairs), p)
    BY <2>3, <2>4 DEF Fresh, MergeData
  <2>6. QED
    BY <2>1, <2>2, <2>5
<1>3. CASE e.kind = "update"
  <2>1. Applied(markets, e) = SetUserConfig(markets, e.pair, e.config) /\ e.config \in UserConfig
    BY <1>3, EventKinds DEF Applied
  <2>2. QED
    BY <1>3, <2>1, SetUserConfigTyped
<1>4. CASE e.kind \notin {"info", "data", "update"}
  BY <1>4 DEF Applied
<1>5. QED
  BY <1>1, <1>2, <1>3, <1>4

(* An event that is posted is one stage more.                              *)
LEMMA LeadsPosted ==
  ASSUME NEW q \in Seq(Event), NEW e \in Event, NEW from, NEW to, Leads(q, from, to)
  PROVE  Leads(Append(q, e), from, Applied(to, e))
<1>1. PICK n \in Nat : n = Len(q)
  OBVIOUS
<1>2. PICK r \in Seq(Event) : r = Append(q, e)
  BY ONLY q \in Seq(Event), e \in Event, AppendEvent
<1>3. Len(r) = n + 1 /\ r[n + 1] = e /\ \A i \in 1 .. n : r[i] = q[i]
  BY <1>1, <1>2
<1>4. PICK stage \in [Nat -> OfSome(Market)] :
        Path(stage, q) /\ stage[0] = from /\ stage[n] = to
  BY <1>1 DEF Leads
<1> DEFINE after == [stage EXCEPT ![n + 1] = Applied(to, e)]
<1>5. Applied(to, e) \in OfSome(Market)
  BY <1>4, AppliedTyped
<1>6. /\ after \in [Nat -> OfSome(Market)] /\ after[n + 1] = Applied(to, e)
      /\ \A i \in 0 .. n : after[i] = stage[i]
  BY <1>1, <1>4, <1>5
<1> HIDE DEF after
<1>7. /\ \A i \in 1 .. n : stage[i] = Applied(stage[i - 1], q[i])
      /\ \A i, j \in 0 .. n, p \in Pairs :
           i <= j /\ p \notin DOMAIN stage[i] /\ (\A k \in i + 1 .. j : q[k].kind # "update")
             => Fresh(stage[j], p)
  BY <1>1, <1>4 DEF Path
<1>8. \A i \in 1 .. n + 1 : after[i] = Applied(after[i - 1], r[i])
  <2>1. after[n + 1] = Applied(after[n], r[n + 1])
    BY <1>3, <1>4, <1>6
  <2>2. ASSUME NEW i \in 1 .. n
        PROVE  after[i] = Applied(after[i - 1], r[i])
    <3>1. i - 1 \in 0 .. n /\ i \in 0 .. n
      BY <1>1
    <3>2. after[i] = stage[i] /\ after[i - 1] = stage[i - 1] /\ r[i] = q[i]
      BY <1>3, <1>6, <3>1
    <3>3. QED
      BY <1>7, <3>2
  <2>3. \A i \in 1 .. n + 1 : i = n + 1 \/ i \in 1 .. n
    BY <1>1
  <2>4. n + 1 - 1 = n
    BY <1>1
  <2>5. QED
    BY <2>1, <2>2, <2>3, <2>4
<1>9. ASSUME NEW i \in 0 .. n + 1, NEW j \in 0 .. n + 1, NEW p \in Pairs, i <= j,
             p \notin DOMAIN after[i], \A k \in i + 1 .. j : r[k].kind # "update"
      PROVE  Fresh(after[j], p)
  <2>1. CASE j \in 0 .. n
    <3>1. i \in 0 .. n /\ \A k \in i + 1 .. j : k \in 1 .. n
      BY <1>1, <1>9, <2>1
    <3>2. \A k \in i + 1 .. j : q[k].kind # "update"
      BY <1>3, <1>9, <3>1
    <3>3. QED
      BY <1>6, <1>7, <1>9, <2>1, <3>1, <3>2
  <2>2. CASE i = j
    BY <1>9, <2>2 DEF Fresh
  <2>3. CASE j = n + 1 /\ i # j
    <3>1. i \in 0 .. n /\ n \in 0 .. n /\ i <= n /\ j \in i + 1 .. j
      BY <1>1, <1>9, <2>3
    <3>2. \A k \in i + 1 .. n : k \in i + 1 .. j /\ k \in 1 .. n
      BY <1>1, <1>9, <2>3
    <3>3. \A k \in i + 1 .. n : q[k].kind # "update"
      BY <1>3, <1>9, <3>2
    <3>4. Fresh(to, p)
      BY <1>4, <1>6, <1>7, <1>9, <3>1, <3>3
    <3>5. e.kind # "update"
      BY <1>3, <1>9, <2>3, <3>1
    <3>6. to \in OfSome(Market)
      BY <1>4
    <3>7. Fresh(Applied(to, e), p)
      BY <3>4, <3>5, <3>6, AppliedTyped
    <3>8. QED
      BY <1>6, <2>3, <3>7
  <2>4. j \in 0 .. n \/ j = n + 1
    BY <1>1
  <2>5. QED
    BY <2>1, <2>2, <2>3, <2>4
<1>10. Path(after, r)
  BY <1>3, <1>8, <1>9 DEF Path
<1>11. after[0] = from /\ after[Len(r)] = Applied(to, e)
  BY <1>1, <1>3, <1>4, <1>6
<1>12. QED
  BY <1>2, <1>6, <1>10, <1>11 DEF Leads

(* An event that is delivered is one stage less.                           *)
LEMMA LeadsDelivered ==
  ASSUME NEW q \in Seq(Event), q # <<>>, NEW from, NEW to, Leads(q, from, to)
  PROVE  Leads(Tail(q), Applied(from, Head(q)), to)
<1>1. PICK n \in Nat : n + 1 = Len(q)
  <2>1. Len(q) - 1 \in Nat
    OBVIOUS
  <2>2. QED
    BY <2>1
<1>2. PICK r \in Seq(Event) : r = Tail(q)
  BY ONLY q \in Seq(Event), q # <<>>, HeadTyped
<1>3. Len(r) = n /\ Head(q) = q[1] /\ \A i \in 1 .. n : r[i] = q[i + 1]
  BY <1>1, <1>2
<1>4. PICK stage \in [Nat -> OfSome(Market)] :
        Path(stage, q) /\ stage[0] = from /\ stage[n + 1] = to
  BY <1>1 DEF Leads
<1> DEFINE after == [i \in Nat |-> stage[i + 1]]
<1>5. after \in [Nat -> OfSome(Market)] /\ \A i \in Nat : after[i] = stage[i + 1]
  BY <1>4
<1> HIDE DEF after
<1>6. /\ \A i \in 1 .. n + 1 : stage[i] = Applied(stage[i - 1], q[i])
      /\ \A i, j \in 0 .. n + 1, p \in Pairs :
           i <= j /\ p \notin DOMAIN stage[i] /\ (\A k \in i + 1 .. j : q[k].kind # "update")
             => Fresh(stage[j], p)
  BY <1>1, <1>4 DEF Path
<1>7. ASSUME NEW i \in 1 .. n
      PROVE  after[i] = Applied(after[i - 1], r[i])
  <2>1. i + 1 \in 1 .. n + 1 /\ i - 1 \in Nat /\ i - 1 + 1 = i /\ i + 1 - 1 = i /\ i \in Nat
    BY <1>1
  <2>2. stage[i + 1] = Applied(stage[i], q[i + 1])
    BY <1>6, <2>1
  <2>3. QED
    BY <1>3, <1>5, <2>1, <2>2
<1>8. ASSUME NEW i \in 0 .. n, NEW j \in 0 .. n, NEW p \in Pairs, i <= j,
             p \notin DOMAIN after[i], \A k \in i + 1 .. j : r[k].kind # "update"
      PROVE  Fresh(after[j], p)
  <2>1. /\ i + 1 \in 0 .. n + 1 /\ j + 1 \in 0 .. n + 1 /\ i + 1 <= j + 1
        /\ i \in Nat /\ j \in Nat
    BY <1>1, <1>8
  <2>2. ASSUME NEW k \in i + 1 + 1 .. j + 1
        PROVE  q[k].kind # "update"
    <3>1. k - 1 \in i + 1 .. j /\ k - 1 \in 1 .. n /\ k - 1 + 1 = k
      BY <1>1, <1>8
    <3>2. r[k - 1] = q[k]
      BY <1>3, <3>1
    <3>3. QED
      BY <1>8, <3>1, <3>2
  <2>3. p \notin DOMAIN stage[i + 1]
    BY <1>5, <1>8, <2>1
  <2>4. Fresh(stage[j + 1], p)
    BY <1>6, <2>1, <2>2, <2>3
  <2>5. QED
    BY <1>5, <2>1, <2>4
<1>9. Path(after, r)
  BY <1>3, <1>7, <1>8 DEF Path
<1>10. after[0] = Applied(from, Head(q)) /\ after[Len(r)] = to
  <2>1. 1 \in 1 .. n + 1 /\ 1 - 1 = 0 /\ 0 + 1 = 1
    BY <1>1
  <2>2. stage[1] = Applied(stage[0], q[1])
    BY <1>6, <2>1
  <2>3. QED
    BY <1>1, <1>3, <1>4, <1>5, <2>1, <2>2
<1>11. QED
  BY <1>2, <1>5, <1>9, <1>10 DEF Leads

(* A queue that is empty leads nowhere else.                               *)
LEMMA LeadsNowhere ==
  ASSUME NEW from \in OfSome(Market)
  PROVE  /\ Leads(<<>>, from, from)
         /\ \A to : Leads(<<>>, from, to) => from = to
<1>1. Len(<<>>) = 0
  OBVIOUS
<1> DEFINE stage == [i \in Nat |-> from]
<1>2. stage \in [Nat -> OfSome(Market)] /\ stage[0] = from
  OBVIOUS
<1>3. Path(stage, <<>>)
  <2>1. ASSUME NEW i \in 0 .. 0, NEW j \in 0 .. 0, NEW p \in Pairs, p \notin DOMAIN stage[i]
        PROVE  Fresh(stage[j], p)
    <3>1. i = j
      BY <2>1
    <3>2. QED
      BY <2>1, <3>1 DEF Fresh
  <2> HIDE DEF stage
  <2>2. QED
    BY <1>1, <2>1 DEF Path
<1> HIDE DEF stage
<1>4. QED
  BY <1>1, <1>2, <1>3 DEF Leads

(* What a queue without updates leads to has nothing of a pair that the    *)
(* storage does not know.                                                  *)
LEMMA LeadsFresh ==
  ASSUME NEW q \in Seq(Event), NEW from, NEW to, Leads(q, from, to),
         \A k \in 1 .. Len(q) : q[k].kind # "update",
         NEW p \in Pairs, p \notin DOMAIN from
  PROVE  Fresh(to, p)
<1>1. PICK n \in Nat : n = Len(q)
  OBVIOUS
<1>2. PICK stage \in [Nat -> OfSome(Market)] :
        Path(stage, q) /\ stage[0] = from /\ stage[n] = to
  BY <1>1 DEF Leads
<1>3. 0 \in 0 .. n /\ n \in 0 .. n /\ 0 <= n /\ \A k \in 0 + 1 .. n : k \in 1 .. n
  BY <1>1
<1>4. QED
  BY <1>1, <1>2, <1>3 DEF Path

(* Updates that are posted one after the other are so many stages more.    *)
LEMMA LeadsUpdates ==
  ASSUME NEW q \in Seq(Event), NEW s \in Seq(Event), NEW from, NEW to, Leads(q, from, to),
         NEW after \in [Nat -> OfSome(Market)], after[0] = to,
         \A j \in 1 .. Len(s) :
           s[j].kind = "update" /\ after[j] = Applied(after[j - 1], s[j])
  PROVE  Leads(q \o s, from, after[Len(s)])
<1>1. PICK n \in Nat : n = Len(q)
  OBVIOUS
<1>2. PICK l \in Nat : l = Len(s)
  OBVIOUS
<1>3. PICK r \in Seq(Event) : r = q \o s
  BY ConcatProperties
<1>4. /\ Len(r) = n + l
      /\ \A i \in 1 .. n + l : r[i] = IF i <= n THEN q[i] ELSE s[i - n]
  BY <1>1, <1>2, <1>3, ConcatProperties
<1>5. PICK stage \in [Nat -> OfSome(Market)] :
        Path(stage, q) /\ stage[0] = from /\ stage[n] = to
  BY <1>1 DEF Leads
<1> DEFINE whole == [i \in Nat |-> IF i <= n THEN stage[i] ELSE after[i - n]]
<1>6. /\ whole \in [Nat -> OfSome(Market)]
      /\ \A i \in 0 .. n : whole[i] = stage[i]
      /\ \A i \in Nat : whole[n + i] = after[i]
  <2>1. ASSUME NEW i \in Nat
        PROVE  (IF i <= n THEN stage[i] ELSE after[i - n]) \in OfSome(Market)
    <3>1. ~(i <= n) => i - n \in Nat
      OBVIOUS
    <3>2. QED
      BY <1>5, <3>1
  <2>2. whole \in [Nat -> OfSome(Market)]
    BY <2>1
  <2>3. \A i \in 0 .. n : whole[i] = stage[i]
    OBVIOUS
  <2>4. ASSUME NEW i \in Nat
        PROVE  whole[n + i] = after[i]
    <3>1. i = 0 => whole[n + i] = after[i]
      BY <1>5, <2>3
    <3>2. i # 0 => n + i \in Nat /\ ~(n + i <= n) /\ (n + i) - n = i
      OBVIOUS
    <3>3. QED
      BY <3>1, <3>2
  <2>5. QED
    BY <2>2, <2>3, <2>4
<1> HIDE DEF whole
<1>7. /\ \A i \in 1 .. n : stage[i] = Applied(stage[i - 1], q[i])
      /\ \A i, j \in 0 .. n, p \in Pairs :
           i <= j /\ p \notin DOMAIN stage[i] /\ (\A k \in i + 1 .. j : q[k].kind # "update")
             => Fresh(stage[j], p)
  BY <1>1, <1>5 DEF Path
<1>8. \A j \in 1 .. l : s[j].kind = "update" /\ after[j] = Applied(after[j - 1], s[j])
  BY <1>2
<1>9. ASSUME NEW i \in 1 .. n + l
      PROVE  whole[i] = Applied(whole[i - 1], r[i])
  <2>1. CASE i <= n
    <3>1. i \in 1 .. n /\ i \in 0 .. n /\ i - 1 \in 0 .. n
      BY <1>1, <1>9, <2>1
    <3>2. QED
      BY <1>4, <1>6, <1>7, <1>9, <2>1, <3>1
  <2>2. CASE ~(i <= n)
    <3>1. /\ i - n \in 1 .. l /\ i - n \in Nat /\ i - n - 1 \in Nat
          /\ n + (i - n) = i /\ n + (i - n - 1) = i - 1
      BY <1>1, <1>2, <1>9, <2>2
    <3>2. whole[i] = after[i - n] /\ whole[i - 1] = after[i - n - 1]
      BY <1>6, <3>1
    <3>3. QED
      BY <1>4, <1>8, <1>9, <2>2, <3>1, <3>2
  <2>3. QED
    BY <2>1, <2>2
<1>10. ASSUME NEW i \in 0 .. n + l, NEW j \in 0 .. n + l, NEW p \in Pairs, i <= j,
              p \notin DOMAIN whole[i], \A k \in i + 1 .. j : r[k].kind # "update"
       PROVE  Fresh(whole[j], p)
  <2>1. CASE j <= n
    <3>1. /\ i \in 0 .. n /\ j \in 0 .. n
          /\ \A k \in i + 1 .. j : k \in 1 .. n + l /\ k <= n
      BY <1>1, <1>2, <1>10, <2>1
    <3>2. \A k \in i + 1 .. j : q[k].kind # "update"
      BY <1>4, <1>10, <3>1
    <3>3. QED
      BY <1>6, <1>7, <1>10, <3>1, <3>2
  <2>2. CASE i = j
    BY <1>10, <2>2 DEF Fresh
  <2>3. CASE ~(j <= n) /\ i # j
    <3>1. /\ j \in i + 1 .. j /\ j \in 1 .. n + l /\ j - n \in 1 .. l
      BY <1>1, <1>2, <1>10, <2>3
    <3>2. r[j].kind = "update"
      BY <1>4, <1>8, <2>3, <3>1
    <3>3. QED
      BY <1>10, <3>1, <3>2
  <2>4. QED
    BY <2>1, <2>2, <2>3
<1>11. Path(whole, r)
  BY <1>4, <1>9, <1>10 DEF Path
<1>12. whole[0] = from /\ whole[Len(r)] = after[l]
  <2>1. 0 \in 0 .. n /\ n \in Nat /\ l \in Nat
    OBVIOUS
  <2>2. whole[0] = from
    BY <1>5, <1>6, <2>1
  <2>3. whole[Len(r)] = after[l]
    BY <1>4, <1>6, <2>1
  <2>4. QED
    BY <2>2, <2>3
<1>13. QED
  BY <1>2, <1>3, <1>6, <1>11, <1>12 DEF Leads

(* What arrives is merged into the model and posted for the storage; a     *)
(* load posts what it puts into the model.                                 *)
LEMMA ArrivalsReplayed ==
  ASSUME TypeInv, Replayed,
         \/ InfoArrives \/ DataArrives \/ LoadNext
         \/ \E p \in Pairs : BookArrives(p)
         \/ \E p \in Pairs, side \in Sides : TradeArrives(p, side)
  PROVE  Replayed'
<1>1. /\ queue \in Seq(Event) /\ storage \in OfSome(Market) /\ model \in OfSome(Market)
      /\ listing \in OfSome(Statuses) /\ rows \in OfSome(UserConfig)
      /\ Leads(queue, storage, model)
  BY DEF TypeInv, TypeOK, Replayed
<1>2. ASSUME NEW events \in Seq(Event), NEW markets, Leads(events, storage, markets),
             NEW load \in Load, NEW p \in DOMAIN load.group,
             AppendLoaded(markets, events, load, p), storage' = storage
      PROVE  Leads(queue', storage', model')
  <2>1. p \in Pairs /\ load.group[p] \in UserConfig
    BY OfSomeIs DEF Load
  <2>2. PICK e \in Event : e = Update(p, load.group[p])
    BY <2>1, PostsTyped
  <2>3. Leads(Append(events, e), storage, Applied(markets, e))
    BY <1>2, LeadsPosted
  <2>4. Applied(markets, e) = SetUserConfig(markets, p, load.group[p])
    BY <2>2 DEF Applied, Update
  <2>5. QED
    BY <1>2, <2>2, <2>3, <2>4 DEF AppendLoaded
<1>3. CASE InfoArrives
  <2>1. PICK e \in Event : e = [kind |-> "info", markets |-> listing]
    BY <1>1, PostsTyped
  <2>2. Leads(Append(queue, e), storage, Applied(model, e))
    BY <1>1, LeadsPosted
  <2>3. Applied(model, e) = MergeInfo(model, listing)
    BY <2>1 DEF Applied
  <2>4. QED
    BY <1>3, <2>1, <2>2, <2>3 DEF InfoArrives, Replayed
<1>4. CASE DataArrives
  <2>1. PICK e \in Event : e = Ticker
    BY <1>1, OfSomeIs, PostsTyped DEF Ticker
  <2>2. PICK posted \in Seq(Event) : posted = Append(queue, e)
    BY ONLY <1>1, AppendEvent
  <2>3. PICK merged : merged = MergeData(model, Ticker.pairs)
    OBVIOUS
  <2>4. Applied(model, e) = merged
    BY <2>1, <2>3 DEF Applied, Ticker
  <2>5. Leads(posted, storage, merged)
    BY <1>1, <2>2, <2>4, LeadsPosted
  <2>6. CASE loaded \/ rows = Nothing
    BY <1>4, <2>1, <2>2, <2>3, <2>5, <2>6 DEF DataArrives, Replayed
  <2>7. CASE ~loaded /\ rows # Nothing
    <3>1. PICK p \in DOMAIN rows :
            AppendLoaded(merged, posted, [group |-> rows, left |-> DOMAIN rows \ {p}], p)
      BY <1>4, <2>1, <2>2, <2>3, <2>7 DEF DataArrives
    <3>2. PICK load \in Load : load = [group |-> rows, left |-> DOMAIN rows \ {p}]
      BY <1>1, OfSomeIs DEF Load
    <3>3. p \in DOMAIN load.group
      BY <3>2
    <3>4. storage' = storage
      BY <1>4 DEF DataArrives
    <3>5. QED
      BY <1>2, <2>5, <3>1, <3>2, <3>3, <3>4 DEF Replayed
  <2>8. QED
    BY <2>6, <2>7
<1>5. CASE LoadNext
  <2>1. loads \in Seq(Load) /\ loads # <<>>
    BY <1>5 DEF TypeInv, TypeOK, LoadNext
  <2>2. Last(loads) \in Load /\ Last(loads).left \subseteq DOMAIN Last(loads).group
    BY <2>1, LoadsOf DEF TypeInv, LoadsReady
  <2>3. PICK p \in Last(loads).left : AppendLoaded(model, queue, Last(loads), p)
    BY <1>5 DEF LoadNext
  <2>4. storage' = storage /\ p \in DOMAIN Last(loads).group
    BY <1>5, <2>2, <2>3 DEF LoadNext
  <2>5. QED
    BY <1>1, <1>2, <2>2, <2>3, <2>4 DEF Replayed
<1>6. ASSUME NEW p \in Pairs, BookArrives(p)
      PROVE  Replayed'
  <2>1. PICK e \in Event : e = [kind |-> "books", pair |-> p]
    BY PostsTyped
  <2>2. Leads(Append(queue, e), storage, Applied(model, e))
    BY <1>1, LeadsPosted
  <2>3. Applied(model, e) = model
    BY <2>1 DEF Applied
  <2>4. QED
    BY <1>6, <2>1, <2>2, <2>3 DEF BookArrives, copyVars, Replayed
<1>7. ASSUME NEW p \in Pairs, NEW side \in Sides, TradeArrives(p, side)
      PROVE  Replayed'
  <2>1. PICK e \in Event : e = [kind |-> "history", pair |-> p, side |-> side]
    BY PostsTyped
  <2>2. Leads(Append(queue, e), storage, Applied(model, e))
    BY <1>1, LeadsPosted
  <2>3. Applied(model, e) = model
    BY <2>1 DEF Applied
  <2>4. QED
    BY <1>7, <2>1, <2>2, <2>3 DEF TradeArrives, copyVars, Replayed
<1>8. QED
  BY <1>3, <1>4, <1>5, <1>6, <1>7

(* A delivery makes of the storage what its event says; the signal of a    *)
(* step makes of the model what it posts for the storage.                  *)
LEMMA DeliveriesReplayed ==
  ASSUME TypeInv, Replayed, Deliver
  PROVE  Replayed'
<1>1. /\ queue \in Seq(Event) /\ storage \in OfSome(Market) /\ model \in OfSome(Market)
      /\ Leads(queue, storage, model)
  BY DEF TypeInv, TypeOK, Replayed
<1>2. queue # <<>>
  BY DEF Deliver, DeliverInfo, DeliverData, DeliverUpdate, DeliverForward, DeliverBook,
         DeliverTrade
<1>3. PICK e \in Event : e = Head(queue)
  BY <1>1, <1>2, HeadTyped
<1>4. PICK rest \in Seq(Event) : rest = Tail(queue)
  BY <1>1, <1>2, HeadTyped
<1>5. Leads(rest, Applied(storage, e), model)
  BY <1>1, <1>2, <1>3, <1>4, LeadsDelivered
<1>6. CASE DeliverInfo \/ DeliverData \/ DeliverUpdate \/ DeliverBook \/ DeliverTrade
  <2>1. queue' = rest /\ model' = model
    BY <1>4, <1>6 DEF DeliverInfo, DeliverData, DeliverUpdate, DeliverBook, DeliverTrade,
                      copyVars
  <2>2. storage' = Applied(storage, e)
    BY <1>3, <1>6 DEF DeliverInfo, DeliverData, DeliverUpdate, DeliverBook, DeliverTrade,
                      copyVars, Applied
  <2>3. QED
    BY <1>5, <2>1, <2>2 DEF Replayed
<1>7. CASE DeliverForward
  <2>1. e.kind = "forward" /\ e.pair \in Pairs /\ e.config \in UserConfig
    BY <1>3, <1>7, EventKinds DEF DeliverForward
  <2>2. Applied(storage, e) = storage
    BY <2>1 DEF Applied
  <2>3. PICK f \in Event : f = Update(e.pair, e.config)
    BY <2>1, PostsTyped
  <2>4. Leads(Append(rest, f), storage, Applied(model, f))
    BY <1>5, <2>2, LeadsPosted
  <2>5. Applied(model, f) = SetUserConfig(model, e.pair, e.config)
    BY <2>3 DEF Applied, Update
  <2>6. QED
    BY <1>3, <1>4, <1>7, <2>3, <2>4, <2>5 DEF DeliverForward, Replayed
<1>8. QED
  BY <1>6, <1>7 DEF Deliver

(* A configuration that is set in the model is posted for the storage.     *)
LEMMA SetReplayed ==
  ASSUME TypeInv, Replayed, NEW p \in Pairs, NEW c \in UserConfig, storage' = storage,
         model' = SetUserConfig(model, p, c), queue' = Append(queue, Update(p, c))
  PROVE  Replayed'
<1>1. queue \in Seq(Event) /\ model \in OfSome(Market) /\ Leads(queue, storage, model)
  BY DEF TypeInv, TypeOK, Replayed
<1>2. PICK e \in Event : e = Update(p, c)
  BY PostsTyped
<1>3. Leads(Append(queue, e), storage, Applied(model, e))
  BY <1>1, LeadsPosted
<1>4. Applied(model, e) = SetUserConfig(model, p, c)
  BY <1>2 DEF Applied, Update
<1>5. QED
  BY <1>2, <1>3, <1>4 DEF Replayed

(* The window marks a market before the configuration is made of it, which *)
(* then takes its place; a pair that is stopped is known to the storage.   *)
LEMMA ClicksReplayed ==
  ASSUME Unhurried, TypeInv, Replayed, NEW p \in Pairs,
         AppendMarket(p) \/ PauseMarket(p) \/ RemoveMarket(p)
  PROVE  Replayed'
<1>1. /\ queue \in Seq(Event) /\ storage \in OfSome(Market) /\ model \in OfSome(Market)
      /\ Leads(queue, storage, model)
  BY DEF TypeInv, TypeOK, Replayed
<1>2. p \in DOMAIN model /\ storage' = storage
  BY DEF AppendMarket, PauseMarket, RemoveMarket, Offered, Shown, TradingPairs
<1>3. model[p].config \in UserConfig
  BY <1>1, <1>2, ConfigTyped
<1>4. CASE AppendMarket(p)
  <2>1. PICK d : d = Marked(p, TRUE)[p].config
    OBVIOUS
  <2>2. d \in UserConfig
    BY <1>1, <1>2, <2>1, MarkedTyped
  <2>3. PICK c \in UserConfig : c = [d EXCEPT !.steps = 0]
    <3>1. 0 \in 0 .. MaxSteps
      BY BoundsAssumption
    <3>2. [d EXCEPT !.steps = 0] \in UserConfig
      BY <2>2, <3>1 DEF UserConfig
    <3>3. QED
      BY <3>2
  <2>4. model' = SetUserConfig(model, p, c) /\ queue' = Append(queue, Update(p, c))
    BY <1>4, <2>1, <2>3 DEF AppendMarket
  <2>5. QED
    BY <1>2, <2>4, SetReplayed
<1>5. CASE PauseMarket(p)
  <2>1. PICK c \in UserConfig : c = [model[p].config EXCEPT !.pause = ~@]
    BY <1>3 DEF UserConfig
  <2>2. model' = SetUserConfig(model, p, c) /\ queue' = Append(queue, Update(p, c))
    BY <1>5, <2>1 DEF PauseMarket
  <2>3. QED
    BY <1>2, <2>2, SetReplayed
<1>6. CASE RemoveMarket(p)
  <2>1. p \in DOMAIN storage
    <3>1. SUFFICES ASSUME p \notin DOMAIN storage
                   PROVE  FALSE
      OBVIOUS
    <3>2. Updated = {}
      BY <1>6 DEF RemoveMarket, Patient, Quiet, Unhurried
    <3>3. \A k \in 1 .. Len(queue) : queue[k].kind # "update"
      BY <1>1, <3>2 DEF Updated, ToSet
    <3>4. Fresh(model, p)
      BY <1>1, <3>1, <3>3, LeadsFresh
    <3>5. model[p].config.tradable
      BY <1>6 DEF RemoveMarket, Shown, TradingPairs
    <3>6. QED
      BY <1>2, <3>4, <3>5 DEF Fresh, NewConfig
  <2>2. storage[p].config \in UserConfig
    BY <1>1, <2>1, ConfigTyped
  <2>3. PICK c \in UserConfig :
          c = [storage[p].config EXCEPT !.tradable = FALSE, !.rate = 0]
    BY <2>2, RatesAssumption DEF UserConfig
  <2>4. model' = SetUserConfig(model, p, c) /\ queue' = Append(queue, Update(p, c))
    BY <1>6, <2>1, <2>3 DEF RemoveMarket
  <2>5. QED
    BY <1>2, <2>4, SetReplayed
<1>7. QED
  BY <1>4, <1>5, <1>6

(* TrendSearcher sets the configurations of a pass in the model, and posts *)
(* them in the same order.                                                 *)
LEMMA TrendReplayed ==
  ASSUME TypeInv, Replayed, TrendTimer
  PROVE  Replayed'
<1>1. /\ queue \in Seq(Event) /\ storage \in OfSome(Market) /\ model \in OfSome(Market)
      /\ Leads(queue, storage, model)
  BY DEF TypeInv, TypeOK, Replayed
<1>2. Reached \subseteq DOMAIN storage /\ Reached \subseteq Pairs
  BY TradedTyped DEF Reached, TypeInv
<1>3. PICK rate \in RatesFound :
        LET moved == {p \in Reached : rate[p] # storage[p].config.rate}
            config == [p \in moved |-> [storage[p].config EXCEPT !.rate = rate[p]]]
        IN /\ \E pass \in [1 .. Cardinality(moved) -> moved] :
                /\ \A i, j \in DOMAIN pass : i < j => pass[i] < pass[j]
                /\ queue' = queue \o [i \in DOMAIN pass |-> Update(pass[i], config[pass[i]])]
           /\ model' = [p \in DOMAIN model |->
                IF p \in moved THEN [model[p] EXCEPT !.config = config[p]] ELSE model[p]]
  BY DEF TrendTimer
<1> DEFINE moved == {p \in Reached : rate[p] # storage[p].config.rate}
           config == [p \in moved |-> [storage[p].config EXCEPT !.rate = rate[p]]]
<1>4. ASSUME NEW p \in moved
      PROVE  p \in Pairs /\ config[p] \in UserConfig
  <2>1. p \in Reached /\ rate[p] \in Rates
    BY DEF RatesFound
  <2>2. p \in Pairs /\ storage[p].config \in UserConfig
    BY <1>1, <1>2, <2>1, ConfigTyped
  <2>3. QED
    BY <2>1, <2>2 DEF UserConfig
<1>5. PICK pass \in [1 .. Cardinality(moved) -> moved] :
        /\ \A i, j \in DOMAIN pass : i < j => pass[i] < pass[j]
        /\ queue' = queue \o [i \in DOMAIN pass |-> Update(pass[i], config[pass[i]])]
  BY <1>3
<1>6. model' = [p \in DOMAIN model |->
        IF p \in moved THEN [model[p] EXCEPT !.config = config[p]] ELSE model[p]]
  BY <1>3
<1>7. moved \in SUBSET Nat /\ IsFiniteSet(moved)
  BY <1>2, PairsAssumption, FS_Subset
<1> DEFINE posted == [i \in DOMAIN pass |-> Update(pass[i], config[pass[i]])]
           after == [j \in Nat |-> [p \in DOMAIN model |->
                       IF \E k \in DOMAIN pass : k <= j /\ pass[k] = p
                       THEN [model[p] EXCEPT !.config = config[p]] ELSE model[p]]]
<1> HIDE DEF moved, config
<1>8. PICK n \in Nat : n = Cardinality(moved)
  BY <1>7, FS_CardinalityType
<1>9. DOMAIN pass = 1 .. n /\ pass \in [1 .. n -> moved]
  BY <1>8
<1>10. /\ posted \in Seq(Event) /\ Len(posted) = n
       /\ \A j \in 1 .. n : posted[j] = Update(pass[j], config[pass[j]])
  <2>1. \A j \in 1 .. n : posted[j] = Update(pass[j], config[pass[j]])
    BY <1>9
  <2>2. \A j \in 1 .. n : Update(pass[j], config[pass[j]]) \in Event
    BY <1>4, <1>9, PostsTyped
  <2>3. QED
    BY <1>9, <2>1, <2>2, IsASeq
<1>11. DOMAIN model \subseteq Pairs /\ model \in [DOMAIN model -> Market]
  BY <1>1, OfSomeIs
<1>12. \A p \in DOMAIN model \cap moved : [model[p] EXCEPT !.config = config[p]] \in Market
  BY <1>4, <1>11 DEF Market
<1>13. /\ after \in [Nat -> OfSome(Market)]
       /\ \A j \in Nat : after[j] = [p \in DOMAIN model |->
                           IF \E k \in DOMAIN pass : k <= j /\ pass[k] = p
                           THEN [model[p] EXCEPT !.config = config[p]] ELSE model[p]]
  <2>1. ASSUME NEW j \in Nat
        PROVE  after[j] \in OfSome(Market)
    <3>1. \A p \in DOMAIN model : (\E k \in DOMAIN pass : k <= j /\ pass[k] = p) => p \in moved
      OBVIOUS
    <3>2. DOMAIN after[j] = DOMAIN model /\ after[j] \in [DOMAIN model -> Market]
      BY <1>11, <1>12, <3>1
    <3>3. QED
      BY <1>11, <3>2, OfSomeIs
  <2>2. QED
    BY <2>1
<1> HIDE DEF posted, after
<1>14. after[0] = model
  <2>1. ~\E k \in DOMAIN pass : k <= 0
    BY <1>9
  <2>2. after[0] = [p \in DOMAIN model |-> model[p]]
    BY <1>13, <2>1
  <2>3. QED
    BY <1>11, <2>2
<1>15. after[n] = model'
  <2>1. \A p \in DOMAIN model :
          (\E k \in DOMAIN pass : k <= n /\ pass[k] = p) <=> p \in moved
    <3>1. \A x \in moved : \E k \in DOMAIN pass : pass[k] = x
      <4>1. \A x \in moved :
              \E k \in DOMAIN pass : \A j \in DOMAIN pass : pass[j] = x <=> j = k
        BY <1>5, <1>7, PassMeetsAll
      <4>2. QED
        BY <4>1
    <3>2. \A k \in DOMAIN pass : k <= n
      BY <1>9
    <3>3. QED
      BY <3>1, <3>2
  <2>2. QED
    BY <1>6, <1>13, <2>1
<1>16. ASSUME NEW j \in 1 .. n
       PROVE  posted[j].kind = "update" /\ after[j] = Applied(after[j - 1], posted[j])
  <2>1. j \in Nat /\ j - 1 \in Nat /\ j \in DOMAIN pass /\ pass[j] \in moved
    <3>1. j \in Nat /\ j - 1 \in Nat
      BY <1>8
    <3>2. QED
      BY <1>9, <3>1
  <2>2. PICK x \in moved : x = pass[j]
    BY <2>1
  <2>3. Applied(after[j - 1], posted[j]) = SetUserConfig(after[j - 1], x, config[x])
    BY <1>10, <2>2 DEF Applied, Update
  <2>4. /\ DOMAIN after[j - 1] = DOMAIN model /\ DOMAIN after[j] = DOMAIN model
        /\ \A p \in DOMAIN model : after[j - 1][p] =
             IF \E k \in DOMAIN pass : k <= j - 1 /\ pass[k] = p
             THEN [model[p] EXCEPT !.config = config[p]] ELSE model[p]
        /\ \A p \in DOMAIN model : after[j][p] =
             IF \E k \in DOMAIN pass : k <= j /\ pass[k] = p
             THEN [model[p] EXCEPT !.config = config[p]] ELSE model[p]
        /\ after[j] = [p \in DOMAIN model |-> after[j][p]]
    BY <1>13, <2>1
  <2>5. \A k \in DOMAIN pass : k <= j <=> k <= j - 1 \/ k = j
    BY <1>9
  <2>6. ASSUME NEW p \in DOMAIN model
        PROVE  after[j][p] = SetUserConfig(after[j - 1], x, config[x])[p]
    <3>1. CASE p = x
      <4>1. after[j][p] = [model[p] EXCEPT !.config = config[p]]
        BY <1>9, <2>1, <2>2, <2>4, <3>1
      <4>2. SetUserConfig(after[j - 1], x, config[x])[p]
              = [after[j - 1][p] EXCEPT !.config = config[p]]
        BY <2>4, <3>1 DEF SetUserConfig
      <4>3. model[p] \in Market
        BY <1>11
      <4>4. [after[j - 1][p] EXCEPT !.config = config[p]]
              = [model[p] EXCEPT !.config = config[p]]
        <5>1. \/ after[j - 1][p] = model[p]
              \/ after[j - 1][p] = [model[p] EXCEPT !.config = config[p]]
          BY <2>4
        <5>2. [[model[p] EXCEPT !.config = config[p]] EXCEPT !.config = config[p]]
                = [model[p] EXCEPT !.config = config[p]]
          BY <4>3 DEF Market
        <5>3. QED
          BY <5>1, <5>2
      <4>5. QED
        BY <4>1, <4>2, <4>4
    <3>2. CASE p # x
      <4>1. (\E k \in DOMAIN pass : k <= j /\ pass[k] = p)
              <=> (\E k \in DOMAIN pass : k <= j - 1 /\ pass[k] = p)
        BY <2>2, <2>5, <3>2
      <4>2. after[j][p] = after[j - 1][p]
        BY <2>4, <4>1
      <4>3. SetUserConfig(after[j - 1], x, config[x])[p] = after[j - 1][p]
        BY <2>4, <3>2 DEF SetUserConfig
      <4>4. QED
        BY <4>2, <4>3
    <3>3. QED
      BY <3>1, <3>2
  <2>7. /\ DOMAIN SetUserConfig(after[j - 1], x, config[x]) = DOMAIN model
        /\ SetUserConfig(after[j - 1], x, config[x])
             = [p \in DOMAIN model |-> SetUserConfig(after[j - 1], x, config[x])[p]]
    <3>1. after[j - 1] \in OfSome(Market)
      BY <1>13, <2>1
    <3>2. SetUserConfig(after[j - 1], x, config[x]) \in OfSome(Market)
      BY <1>4, <3>1, SetUserConfigTyped
    <3>3. DOMAIN SetUserConfig(after[j - 1], x, config[x]) = DOMAIN model
      BY <1>4, <2>4, <3>1, SetUserConfigTyped
    <3>4. QED
      BY <3>2, <3>3, OfSomeIs
  <2>8. posted[j].kind = "update"
    BY <1>10 DEF Update
  <2>9. QED
    BY <2>3, <2>4, <2>6, <2>7, <2>8
<1>17. storage' = storage /\ queue' = queue \o posted
  BY <1>5 DEF TrendTimer, posted
<1>18. Leads(queue \o posted, storage, after[n])
  BY <1>1, <1>10, <1>13, <1>14, <1>16, LeadsUpdates
<1>19. QED
  BY <1>15, <1>17, <1>18 DEF Replayed

(* A step posts a signal, which makes nothing of the storage.              *)
LEMMA HanukkahReplayed ==
  ASSUME TypeInv, Replayed, HanukkahTimer
  PROVE  Replayed'
<1>1. /\ queue \in Seq(Event) /\ storage \in OfSome(Market) /\ model \in OfSome(Market)
      /\ Leads(queue, storage, model) /\ queue' \in Seq(Event)
  BY HanukkahTyped DEF TypeInv, TypeOK, Replayed
<1>2. UNCHANGED <<storage, model>>
  BY DEF HanukkahTimer, copyVars
<1>3. CASE queue' = queue
  BY <1>1, <1>2, <1>3 DEF Replayed
<1>4. ASSUME NEW p, NEW c, PostForward(p, c)
      PROVE  Replayed'
  <2>1. PICK e : e = [kind |-> "forward", pair |-> p, config |-> c]
    OBVIOUS
  <2>2. queue' = Append(queue, e) /\ e.kind = "forward"
    BY <1>4, <2>1 DEF PostForward
  <2>3. e \in Event
    BY ONLY <1>1, <2>2, AppendProperties, ElementOfSeq
  <2>4. Applied(model, e) = model
    BY <2>2 DEF Applied
  <2>5. Leads(Append(queue, e), storage, model)
    BY <1>1, <2>3, <2>4, LeadsPosted
  <2>6. QED
    BY <1>2, <2>2, <2>5 DEF Replayed
<1>5. QED
  BY <1>3, <1>4 DEF HanukkahTimer, CloseStep, CloseWith, EndCycle

(* A start begins with nothing anywhere.                                   *)
LEMMA StartReplayed ==
  /\ Init => Replayed
  /\ Restarted => Replayed'
<1>1. Leads(<<>>, Nothing, Nothing)
  BY NothingTyped, LeadsNowhere
<1>2. QED
  BY <1>1 DEF Init, Restarted, Replayed

(* The queue leads from the markets of the storage to those of the model   *)
(* in every step.                                                          *)
LEMMA ReplayedStep ==
  ASSUME Unhurried
  PROVE  TypeInv /\ Replayed /\ [Next]_vars => Replayed'
<1>1. SUFFICES ASSUME TypeInv, Replayed, [Next]_vars
               PROVE  Replayed'
  OBVIOUS
<1>2. CASE \/ InfoArrives \/ DataArrives \/ LoadNext
           \/ \E p \in Pairs : BookArrives(p)
           \/ \E p \in Pairs, side \in Sides : TradeArrives(p, side)
  BY <1>1, <1>2, ArrivalsReplayed
<1>3. CASE Deliver
  BY <1>1, <1>3, DeliveriesReplayed
<1>4. CASE \E p \in Pairs : AppendMarket(p) \/ PauseMarket(p) \/ RemoveMarket(p)
  BY <1>1, <1>4, ClicksReplayed
<1>5. CASE TrendTimer
  BY <1>1, <1>5, TrendReplayed
<1>6. CASE HanukkahTimer
  BY <1>1, <1>6, HanukkahReplayed
<1>7. CASE Stop \/ Crash \/ Upgrade
  BY <1>7, StartReplayed DEF Stop, StopWith, Crash, Upgrade
<1>8. CASE LoadEnd \/ ListingChanges \/ UNCHANGED vars
  BY <1>1, <1>8 DEF LoadEnd, ListingChanges, vars, copyVars, Replayed
<1>9. QED
  BY <1>1, <1>2, <1>3, <1>4, <1>5, <1>6, <1>7, <1>8 DEF Next

(* Once every posted event is delivered the windows show the markets the   *)
(* algorithms have, for every number of pairs, of events and of loads      *)
(* inside each other, through starts and changes of the listing, as long   *)
(* as nobody clicks while a configuration is posted (the direct and the    *)
(* queued connections of the controller).                                  *)
THEOREM ModelAgreesHolds ==
  ASSUME Unhurried
  PROVE  Spec => []ModelAgrees
<1>1. TypeInv /\ Replayed => ModelAgrees
  <2>1. SUFFICES ASSUME TypeInv, Replayed, queue = <<>>
                 PROVE  model = storage
    BY DEF ModelAgrees
  <2>2. storage \in OfSome(Market) /\ Leads(<<>>, storage, model)
    BY <2>1 DEF TypeInv, TypeOK, Replayed
  <2>3. QED
    BY <2>2, LeadsNowhere
<1>2. QED
  BY <1>1, StartReplayed, ReplayedStep, TypesCorrect, PTL DEF Spec
=============================================================================
