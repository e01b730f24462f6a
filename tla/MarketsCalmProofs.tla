------------------------- MODULE MarketsCalmProofs --------------------------
(***************************************************************************)
(* What the user has put into trade, and how far its cycle is, for any set *)
(* of pairs, any table of steps, and any stop, crash or change of the      *)
(* scheme: proofs about Markets in a calm environment, where nobody acts   *)
(* upon a configuration while another of the same pair is still posted and *)
(* the exchange lists what it listed at first.  (The run HanukkahLostUpdate *)
(* and the races of Markets show what happens else.)                       *)
(*                                                                         *)
(* A configuration travels: it is in the window, in the queue, once or     *)
(* twice, in the storage, and in a row when the bot is gone.  The          *)
(* invariant names the one that counts: what is posted for the pair if     *)
(* something is, else what the storage has.  That one has the mark and the *)
(* steps the user and the algorithm have given it; a pair that a load has  *)
(* still to append has them in its row.                                    *)
(***************************************************************************)
EXTENDS MarketsProofs

Calm == Races = {} /\ "listing" \notin Faults

(* An event that brings a configuration of the pair.                       *)
Configures(e, p) == e.kind \in {"update", "forward"} /\ e.pair = p

(* None, at most one, and one that the window does not have yet.           *)
Free(q, p) == \A i \in DOMAIN q : ~Configures(q[i], p)
One(q, p) == \A i, j \in DOMAIN q : Configures(q[i], p) /\ Configures(q[j], p) => i = j
Forwarded(q, p) == \E i \in DOMAIN q : Configures(q[i], p) /\ q[i].kind = "forward"

(* What a copy has for the pair, and the configuration that counts.        *)
Stored(markets, p) == IF p \in DOMAIN markets THEN markets[p].config ELSE NewConfig
Counts(q, markets, p, c) ==
  /\ \A i \in DOMAIN q : Configures(q[i], p) => q[i].config = c
  /\ Free(q, p) => c = Stored(markets, p)

(* The rows that are still to be appended, by a load or by one to come.    *)
Coming == IF loaded THEN {} ELSE IF loads = <<>> THEN DOMAIN rows ELSE loads[1].left

Right(p, c) ==
  /\ Counts(queue, storage, p, c)
  /\ ~Forwarded(queue, p) => Stored(model, p) = c
  /\ p \in Coming => c = NewConfig /\ Free(queue, p)
  /\ p \notin Coming => /\ p \in wanted <=> c.tradable
                        /\ p \in wanted => c.steps = progress[p]

RowRight(p) ==
  /\ p \in Coming => p \in DOMAIN rows \ leftover
  /\ p \in DOMAIN rows \ leftover
       => p \in wanted /\ rows[p].tradable /\ rows[p].steps = progress[p]

PairInv(p) ==
  /\ One(queue, p)
  /\ \E c \in UserConfig : Right(p, c)
  /\ RowRight(p)

(* The descriptions that are posted list all pairs, and the storage has    *)
(* them, or the description comes before anything else.                    *)
Whole(q) == \A i \in DOMAIN q : q[i].kind = "info" => DOMAIN q[i].markets = Pairs
Described(q, markets) ==
  DOMAIN markets = Pairs \/ (markets = Nothing /\ q # <<>> /\ q[1].kind = "info")

Listed ==
  /\ DOMAIN listing = Pairs
  /\ Whole(queue)
  /\ informed => DOMAIN model = Pairs /\ Described(queue, storage)
  /\ ~informed => /\ queue = <<>> /\ storage = Nothing /\ model = Nothing
                  /\ loads = <<>> /\ ~loaded /\ streams = {}

(* There is one load, of the rows as they are.                             *)
Loading ==
  /\ loads # <<>> => /\ Len(loads) = 1 /\ ~loaded
                     /\ \A p \in loads[1].left : loads[1].group[p] = rows[p]
  /\ ~loaded /\ loads = <<>> => wanted \subseteq DOMAIN rows

(* The sessions look at the markets of the storage.                        *)
Live == \A p \in DOMAIN session : session[p] = {}

Travels == Listed /\ Loading /\ Live /\ \A p \in Pairs : PairInv(p)
CalmInv == TypeInv /\ Travels

-----------------------------------------------------------------------------
(* What becomes of the configuration that counts.                          *)

(* Another queue and storage say of the pair what the first ones said.     *)
Keeps(q, markets, r, after, p) ==
  /\ One(q, p) => One(r, p)
  /\ \A c \in UserConfig : Counts(q, markets, p, c) => Counts(r, after, p, c)
  /\ Free(q, p) => Free(r, p)
  /\ Forwarded(q, p) => Forwarded(r, p)

(* An event of something else is posted.                                   *)
LEMMA OtherPosted ==
  ASSUME NEW q \in Seq(Event), NEW e \in Event, NEW p, ~Configures(e, p),
         NEW markets, NEW after, Stored(after, p) = Stored(markets, p)
  PROVE  Keeps(q, markets, Append(q, e), after, p)
<1>1. PICK r \in Seq(Event) : r = Append(q, e)
  BY AppendEvent
<1>2. /\ DOMAIN r = DOMAIN q \cup {Len(q) + 1}
      /\ \A i \in DOMAIN q : r[i] = q[i]
      /\ r[Len(q) + 1] = e /\ Len(q) + 1 \notin DOMAIN q
  BY ONLY <1>1, q \in Seq(Event), e \in Event, AppendEvent
<1>3. (Free(q, p) <=> Free(r, p)) /\ (One(q, p) => One(r, p))
  BY ONLY <1>2, ~Configures(e, p) DEF Free, One
<1>4. Forwarded(q, p) => Forwarded(r, p)
  BY ONLY <1>2 DEF Forwarded
<1>5. ASSUME NEW c, Counts(q, markets, p, c)
      PROVE  Counts(r, after, p, c)
  BY ONLY <1>2, <1>3, <1>5, ~Configures(e, p), Stored(after, p) = Stored(markets, p) DEF Counts
<1>6. QED
  BY <1>1, <1>3, <1>4, <1>5 DEF Keeps

(* A configuration is posted where none was.                               *)
LEMMA ItPosted ==
  ASSUME NEW q \in Seq(Event), NEW e \in Event, NEW p, Configures(e, p), Free(q, p),
         NEW markets
  PROVE  /\ One(Append(q, e), p)
         /\ Counts(Append(q, e), markets, p, e.config)
         /\ Forwarded(Append(q, e), p) <=> e.kind = "forward"
<1>1. PICK r \in Seq(Event) : r = Append(q, e)
  BY AppendEvent
<1>2. /\ DOMAIN r = DOMAIN q \cup {Len(q) + 1}
      /\ \A i \in DOMAIN q : r[i] = q[i]
      /\ r[Len(q) + 1] = e /\ Len(q) + 1 \notin DOMAIN q
  BY ONLY <1>1, q \in Seq(Event), e \in Event, AppendEvent
<1>3. \A i \in DOMAIN r : Configures(r[i], p) <=> i = Len(q) + 1
  BY ONLY <1>2, Configures(e, p), Free(q, p) DEF Free
<1>4. One(r, p)
  BY ONLY <1>3 DEF One
<1>5. Counts(r, markets, p, e.config)
  BY ONLY <1>2, <1>3 DEF Counts, Free
<1>6. Forwarded(r, p) <=> e.kind = "forward"
  BY ONLY <1>2, <1>3 DEF Forwarded
<1>7. QED
  BY <1>1, <1>4, <1>5, <1>6

(* The oldest event is delivered, and what is left is the same one place   *)
(* earlier.                                                                *)
LEMMA TailIs ==
  ASSUME NEW q \in Seq(Event), q # <<>>
  PROVE  /\ Tail(q) \in Seq(Event) /\ Head(q) = q[1] /\ Head(q) \in Event
         /\ 1 \in DOMAIN q
         /\ \A i \in DOMAIN Tail(q) : i + 1 \in DOMAIN q /\ Tail(q)[i] = q[i + 1] /\ i \in Nat
         /\ \A i \in DOMAIN q : i = 1 \/ (i - 1 \in DOMAIN Tail(q) /\ Tail(q)[i - 1] = q[i])
<1>1. Len(q) \in Nat /\ Len(q) > 0 /\ Len(Tail(q)) = Len(q) - 1
  OBVIOUS
<1>2. \A i \in 1 .. Len(q) - 1 : Tail(q)[i] = q[i + 1]
  OBVIOUS
<1>3. DOMAIN q = 1 .. Len(q) /\ DOMAIN Tail(q) = 1 .. Len(q) - 1
  BY <1>1
<1>4. QED
  BY <1>1, <1>2, <1>3

(* An event of something else is delivered.                                *)
LEMMA OtherDelivered ==
  ASSUME NEW q \in Seq(Event), q # <<>>, NEW p, ~Configures(Head(q), p),
         NEW markets, NEW after, Stored(after, p) = Stored(markets, p)
  PROVE  Keeps(q, markets, Tail(q), after, p)
<1>1. PICK r \in Seq(Event) : r = Tail(q)
  BY TailIs
<1>2. /\ \A i \in DOMAIN r : i + 1 \in DOMAIN q /\ r[i] = q[i + 1] /\ i \in Nat
      /\ \A i \in DOMAIN q : i = 1 \/ (i - 1 \in DOMAIN r /\ r[i - 1] = q[i])
      /\ ~Configures(q[1], p)
  BY <1>1, TailIs
<1>3. Free(q, p) <=> Free(r, p)
  BY ONLY <1>2 DEF Free
<1>4. One(q, p) => One(r, p)
  <2>1. SUFFICES ASSUME One(q, p), NEW i \in DOMAIN r, NEW j \in DOMAIN r,
                        Configures(r[i], p), Configures(r[j], p)
                 PROVE  i = j
    BY DEF One
  <2>2. i + 1 = j + 1 /\ i \in Nat /\ j \in Nat
    BY ONLY <1>2, <2>1 DEF One
  <2>3. QED
    BY <2>2
<1>5. Forwarded(q, p) => Forwarded(r, p)
  BY ONLY <1>2 DEF Forwarded
<1>6. ASSUME NEW c, Counts(q, markets, p, c)
      PROVE  Counts(r, after, p, c)
  BY ONLY <1>2, <1>3, <1>6, Stored(after, p) = Stored(markets, p) DEF Counts
<1>7. QED
  BY <1>1, <1>3, <1>4, <1>5, <1>6 DEF Keeps

(* The configuration is delivered: it was what counts, and none is left.   *)
LEMMA ItDelivered ==
  ASSUME NEW q \in Seq(Event), q # <<>>, NEW p, Configures(Head(q), p), One(q, p)
  PROVE  /\ Free(Tail(q), p)
         /\ \A markets, c : Counts(q, markets, p, c) => c = Head(q).config
         /\ Forwarded(q, p) <=> Head(q).kind = "forward"
<1>1. PICK r \in Seq(Event) : r = Tail(q)
  BY TailIs
<1>2. /\ \A i \in DOMAIN r : i + 1 \in DOMAIN q /\ r[i] = q[i + 1] /\ i \in Nat
      /\ 1 \in DOMAIN q /\ Head(q) = q[1]
  BY <1>1, TailIs
<1>3. \A i \in DOMAIN q : Configures(q[i], p) => i = 1
  BY <1>2 DEF One
<1>4. Free(r, p)
  <2>1. SUFFICES ASSUME NEW i \in DOMAIN r, Configures(r[i], p)
                 PROVE  FALSE
    BY DEF Free
  <2>2. i + 1 = 1 /\ i \in Nat /\ 1 \in DOMAIN r
    BY <1>2, <1>3, <2>1
  <2>3. QED
    <3>1. DOMAIN r = 1 .. Len(r)
      OBVIOUS
    <3>2. QED
      BY <2>1, <2>2, <3>1
<1>5. \A markets, c : Counts(q, markets, p, c) => c = Head(q).config
  BY <1>2 DEF Counts
<1>6. Forwarded(q, p) <=> Head(q).kind = "forward"
  BY <1>2, <1>3 DEF Forwarded
<1>7. QED
  BY <1>1, <1>4, <1>5, <1>6

(* Nobody has posted a configuration of any pair.                          *)
LEMMA NothingPosted ==
  ASSUME Updated = {}, NEW p, queue \in Seq(Event)
  PROVE  Free(queue, p) /\ One(queue, p) /\ ~Forwarded(queue, p)
<1>1. \A i \in DOMAIN queue : queue[i].kind \notin {"update", "forward"}
  BY DEF Updated, ToSet
<1>2. QED
  BY <1>1 DEF Free, One, Forwarded, Configures

-----------------------------------------------------------------------------
(* What keeps the parts of the invariant.                                  *)

(* The merges do not touch the configurations ...                          *)
LEMMA MergesKeep ==
  ASSUME NEW markets \in OfSome(Market), NEW p \in Pairs
  PROVE  /\ \A info : p \in DOMAIN info
              => Stored(MergeInfo(markets, info), p) = Stored(markets, p)
         /\ \A pairs : Stored(MergeData(markets, pairs), p) = Stored(markets, p)
<1>1. \A info : p \in DOMAIN info
        => Stored(MergeInfo(markets, info), p) = Stored(markets, p)
  BY DEF Stored, MergeInfo
<1>2. ASSUME NEW pairs
      PROVE  Stored(MergeData(markets, pairs), p) = Stored(markets, p)
  <2>1. CASE p \in DOMAIN markets
    <3>1. markets[p] \in Market
      BY <2>1, ConfigTyped
    <3>2. SetConfig(markets[p]).config = markets[p].config
      BY <3>1 DEF SetConfig, Market
    <3>3. QED
      BY <2>1, <3>2 DEF Stored, MergeData
  <2>2. CASE p \notin DOMAIN markets
    BY <2>2 DEF Stored, MergeData
  <2>3. QED
    BY <2>1, <2>2
<1>3. QED
  BY <1>1, <1>2

(* ... and a configuration that is set touches that of its pair.           *)
LEMMA SetKeeps ==
  ASSUME NEW markets \in OfSome(Market), NEW p, NEW c \in UserConfig
  PROVE  /\ \A q : q # p => Stored(SetUserConfig(markets, p, c), q) = Stored(markets, q)
         /\ p \in DOMAIN markets => Stored(SetUserConfig(markets, p, c), p) = c
<1>1. DOMAIN markets \subseteq Pairs /\ markets \in [DOMAIN markets -> Market]
  BY OfSomeIs
<1>2. CASE p \in DOMAIN markets
  <2>1. DOMAIN SetUserConfig(markets, p, c) = DOMAIN markets
    BY <1>2 DEF SetUserConfig
  <2>2. \A q \in DOMAIN markets : q # p => SetUserConfig(markets, p, c)[q] = markets[q]
    BY <1>2 DEF SetUserConfig
  <2>3. SetUserConfig(markets, p, c)[p].config = c
    BY <1>1, <1>2 DEF SetUserConfig, Market
  <2>4. QED
    BY <1>2, <2>1, <2>2, <2>3 DEF Stored
<1>3. CASE p \notin DOMAIN markets
  BY <1>3 DEF SetUserConfig
<1>4. QED
  BY <1>2, <1>3

(* The descriptions stay before what they describe.                        *)
LEMMA DescribedPosted ==
  ASSUME NEW q \in Seq(Event), NEW e \in Event, NEW markets
  PROVE  /\ Described(q, markets) => Described(Append(q, e), markets)
         /\ Whole(q) /\ (e.kind = "info" => DOMAIN e.markets = Pairs) => Whole(Append(q, e))
         /\ q = <<>> /\ e.kind = "info" /\ markets = Nothing => Described(Append(q, e), markets)
<1>1. PICK r \in Seq(Event) : r = Append(q, e)
  BY AppendEvent
<1>2. /\ DOMAIN r = DOMAIN q \cup {Len(q) + 1}
      /\ \A i \in DOMAIN q : r[i] = q[i]
      /\ r[Len(q) + 1] = e
  BY ONLY <1>1, q \in Seq(Event), e \in Event, AppendEvent
<1>3. Whole(q) /\ (e.kind = "info" => DOMAIN e.markets = Pairs) => Whole(r)
  BY ONLY <1>2 DEF Whole
<1>4. r # <<>> /\ (q # <<>> => r[1] = q[1]) /\ (q = <<>> => r[1] = e)
  BY <1>1
<1>5. QED
  BY <1>1, <1>3, <1>4 DEF Described

(* What is left of a queue after a delivery describes whole markets.       *)
LEMMA DescribedDelivered ==
  ASSUME NEW q \in Seq(Event), q # <<>>, NEW markets, Described(q, markets), Whole(q)
  PROVE  /\ Whole(Tail(q))
         /\ Head(q).kind = "info" => DOMAIN Head(q).markets = Pairs
         /\ Head(q).kind # "info" => DOMAIN markets = Pairs
<1>1. /\ \A i \in DOMAIN Tail(q) : i + 1 \in DOMAIN q /\ Tail(q)[i] = q[i + 1]
      /\ Head(q) = q[1] /\ 1 \in DOMAIN q
  BY TailIs
<1>2. Whole(Tail(q))
  BY <1>1 DEF Whole
<1>3. QED
  BY <1>1, <1>2 DEF Whole, Described

(* Nothing is written of the pair, and nothing else of its parts changes.  *)
Undisturbed(p) ==
  /\ Keeps(queue, storage, queue', storage', p)
  /\ Stored(model', p) = Stored(model, p)
  /\ p \in Coming' <=> p \in Coming
  /\ p \in wanted' <=> p \in wanted
  /\ progress'[p] = progress[p]
  /\ p \in DOMAIN rows' \ leftover' <=> p \in DOMAIN rows \ leftover
  /\ p \in DOMAIN rows \ leftover => rows'[p] = rows[p]

(* A step that does not touch a pair keeps what is said of it.             *)
LEMMA PairKept ==
  ASSUME NEW p \in Pairs, PairInv(p), Undisturbed(p)
  PROVE  PairInv(p)'
<1>1. One(queue, p)'
  BY DEF PairInv, Undisturbed, Keeps
<1>2. PICK c \in UserConfig : Right(p, c)
  BY DEF PairInv
<1>3. Counts(queue, storage, p, c)'
  BY <1>2 DEF Right, Undisturbed, Keeps
<1>4. Right(p, c)'
  BY <1>2, <1>3 DEF Right, Undisturbed, Keeps
<1>5. RowRight(p)'
  BY DEF PairInv, Undisturbed, RowRight
<1>6. QED
  BY <1>1, <1>4, <1>5 DEF PairInv

(* The pairs that the step does not configure, when an event is posted.    *)
LEMMA PairAside ==
  ASSUME CalmInv, NEW p \in Pairs, NEW e \in Event, ~Configures(e, p),
         queue' = Append(queue, e), UNCHANGED storage,
         Stored(model', p) = Stored(model, p),
         p \in Coming' <=> p \in Coming,
         p \in wanted' <=> p \in wanted,
         progress'[p] = progress[p],
         p \in DOMAIN rows' \ leftover' <=> p \in DOMAIN rows \ leftover,
         p \in DOMAIN rows \ leftover => rows'[p] = rows[p]
  PROVE  PairInv(p)'
<1>1. queue \in Seq(Event)
  BY DEF CalmInv, Travels, TypeInv, TypeOK
<1>2. Keeps(queue, storage, Append(queue, e), storage', p)
  BY <1>1, OtherPosted
<1>3. Undisturbed(p)
  BY <1>2 DEF Undisturbed
<1>4. QED
  BY <1>3, PairKept DEF CalmInv, Travels

(* The pair a configuration is posted of, when none was.                   *)
LEMMA PairSet ==
  ASSUME CalmInv, NEW p \in Pairs, NEW e \in Event, Configures(e, p), Free(queue, p),
         queue' = Append(queue, e),
         e.kind = "update" => Stored(model', p) = e.config,
         p \notin Coming',
         p \in wanted' <=> e.config.tradable,
         p \in wanted' => e.config.steps = progress'[p],
         RowRight(p)'
  PROVE  PairInv(p)'
<1>1. queue \in Seq(Event) /\ e.config \in UserConfig /\ e.kind \in {"update", "forward"}
  BY EventKinds DEF CalmInv, Travels, TypeInv, TypeOK, Configures
<1>2. /\ One(queue', p) /\ Counts(queue', storage', p, e.config)
      /\ Forwarded(queue', p) <=> e.kind = "forward"
  BY <1>1, ItPosted
<1>3. Right(p, e.config)'
  BY <1>1, <1>2 DEF Right
<1>4. QED
  BY <1>1, <1>2, <1>3 DEF PairInv

(* While nothing is posted, the window and the storage have the            *)
(* configuration that counts; what is traded has been loaded.              *)
LEMMA AtRest ==
  ASSUME CalmInv, Updated = {}, NEW p \in Pairs
  PROVE  /\ Free(queue, p)
         /\ Stored(storage, p) \in UserConfig /\ Stored(model, p) = Stored(storage, p)
         /\ p \in Coming => Stored(storage, p) = NewConfig
         /\ p \notin Coming => /\ p \in wanted <=> Stored(storage, p).tradable
                               /\ p \in wanted => Stored(storage, p).steps = progress[p]
         /\ Stored(storage, p).tradable
              => p \notin Coming /\ (loaded \/ loads # <<>>)
<1>1. queue \in Seq(Event) /\ PairInv(p) /\ Loading
  BY DEF CalmInv, Travels, TypeInv, TypeOK
<1>2. Free(queue, p) /\ ~Forwarded(queue, p)
  BY <1>1, NothingPosted
<1>3. PICK c \in UserConfig : Right(p, c)
  BY <1>1 DEF PairInv
<1>4. c = Stored(storage, p) /\ c = Stored(model, p)
  BY <1>2, <1>3 DEF Right, Counts
<1>5. ~NewConfig.tradable
  BY DEF NewConfig
<1>6. c.tradable => p \notin Coming /\ p \in wanted
  BY <1>3, <1>5 DEF Right
<1>7. p \in wanted /\ p \notin Coming => loaded \/ loads # <<>>
  BY <1>1 DEF Loading, Coming
<1>8. QED
  BY <1>2, <1>3, <1>4, <1>6, <1>7 DEF Right

-----------------------------------------------------------------------------
(* The steps: what arrives.                                                *)

(* An event that brings no configuration of any pair is posted, and the    *)
(* window keeps its configurations.                                        *)
LEMMA NeutralPosted ==
  ASSUME CalmInv, NEW e \in Event, e.kind \notin {"update", "forward"},
         e.kind = "info" => DOMAIN e.markets = Pairs,
         informed \/ e.kind = "info", informed',
         queue' = Append(queue, e),
         DOMAIN model' = Pairs, \A p \in Pairs : Stored(model', p) = Stored(model, p),
         UNCHANGED <<listing, storage, session, rowVars, userVars>>,
         \/ UNCHANGED loadVars
         \/ loaded' /\ UNCHANGED loads /\ loads = <<>> /\ (loaded \/ rows = Nothing)
  PROVE  Travels'
<1>1. queue \in Seq(Event) /\ Listed /\ Loading /\ Live
  BY DEF CalmInv, Travels, TypeInv, TypeOK
<1>2. UNCHANGED <<listing, storage, session, rows, leftover, wanted, progress, loads>>
  BY DEF rowVars, userVars, loadVars
<1>3. Coming' = Coming
  BY <1>2, NothingTyped DEF Coming, loadVars
<1>4. Loading'
  BY <1>1, <1>2 DEF Loading, loadVars
<1>5. Live'
  BY <1>1, <1>2 DEF Live
<1>6. Listed'
  <2>1. Whole(queue)'
    BY <1>1, DescribedPosted DEF Listed
  <2>2. Described(queue', storage)
    <3>1. CASE informed
      BY <1>1, <3>1, DescribedPosted DEF Listed
    <3>2. CASE ~informed
      BY <1>1, <3>2, DescribedPosted DEF Listed
    <3>3. QED
      BY <3>1, <3>2
  <2>3. QED
    BY <1>1, <1>2, <2>1, <2>2 DEF Listed
<1>7. ASSUME NEW p \in Pairs
      PROVE  PairInv(p)'
  <2>1. ~Configures(e, p)
    BY DEF Configures
  <2>2. QED
    BY <1>2, <1>3, <2>1, PairAside
<1>8. QED
  BY <1>4, <1>5, <1>6, <1>7 DEF Travels

(* Descriptions, books and trades that arrive say nothing of configurations. *)
LEMMA ArrivalsCalm ==
  ASSUME CalmInv,
         \/ InfoArrives
         \/ \E p \in Pairs : BookArrives(p)
         \/ \E p \in Pairs, side \in Sides : TradeArrives(p, side)
  PROVE  Travels'
<1>1. /\ listing \in OfSome(Statuses) /\ model \in OfSome(Market)
      /\ DOMAIN listing = Pairs /\ Listed
  BY DEF CalmInv, Travels, TypeInv, TypeOK, Listed
<1>2. CASE InfoArrives
  <2> DEFINE e == [kind |-> "info", markets |-> listing]
  <2>1. e \in Event /\ e.kind = "info" /\ e.markets = listing
    BY <1>1, PostsTyped
  <2>2. /\ queue' = Append(queue, e) /\ model' = MergeInfo(model, listing) /\ informed'
        /\ UNCHANGED <<listing, storage, session, loadVars, rowVars, userVars>>
    BY <1>2 DEF InfoArrives
  <2>3. DOMAIN model' = Pairs /\ \A p \in Pairs : Stored(model', p) = Stored(model, p)
    BY <1>1, <2>2, MergeInfoTyped, MergesKeep
  <2> HIDE DEF e
  <2>4. QED
    BY <1>1, <2>1, <2>2, <2>3, NeutralPosted
<1>3. ASSUME NEW p \in Pairs, BookArrives(p)
      PROVE  Travels'
  <2> DEFINE e == [kind |-> "books", pair |-> p]
  <2>1. e \in Event /\ e.kind = "books"
    BY PostsTyped
  <2>2. /\ queue' = Append(queue, e) /\ streams # {}
        /\ UNCHANGED <<model, listing, storage, session, informed, loadVars, rowVars, userVars>>
    BY <1>3 DEF BookArrives, copyVars
  <2>3. informed /\ DOMAIN model = Pairs
    BY <1>1, <2>2 DEF Listed
  <2> HIDE DEF e
  <2>4. QED
    BY <2>1, <2>2, <2>3, NeutralPosted
<1>4. ASSUME NEW p \in Pairs, NEW side \in Sides, TradeArrives(p, side)
      PROVE  Travels'
  <2> DEFINE e == [kind |-> "history", pair |-> p, side |-> side]
  <2>1. e \in Event /\ e.kind = "history"
    BY PostsTyped
  <2>2. /\ queue' = Append(queue, e) /\ informed
        /\ UNCHANGED <<model, listing, storage, session, informed, loadVars, rowVars, userVars>>
    BY <1>4 DEF TradeArrives, copyVars
  <2>3. DOMAIN model = Pairs
    BY <1>1, <2>2 DEF Listed
  <2> HIDE DEF e
  <2>4. QED
    BY <2>1, <2>2, <2>3, NeutralPosted
<1>5. QED
  BY <1>2, <1>3, <1>4

-----------------------------------------------------------------------------
(* The steps: the loads.                                                   *)

(* A load appends one of the pairs that are to come: its row has what      *)
(* counts for the pair from now on.                                        *)
LEMMA PairLoaded ==
  ASSUME CalmInv, NEW p \in Coming, NEW markets \in OfSome(Market),
         DOMAIN markets = Pairs,
         \A q \in Pairs : Stored(markets, q) = Stored(model, q),
         NEW events \in Seq(Event),
         \A q \in Pairs : Keeps(queue, storage, events, storage, q),
         Whole(events) /\ Described(events, storage),
         NEW load, load.group[p] = rows[p],
         AppendLoaded(markets, events, load, p),
         loads' # <<>>, Len(loads') = 1, ~loaded, ~loaded',
         loads'[1].left = Coming \ {p},
         \A q \in Coming \ {p} : loads'[1].group[q] = rows[q],
         informed, informed',
         UNCHANGED <<listing, storage, session, rowVars, userVars>>
  PROVE  Travels'
<1>1. /\ Listed /\ Loading /\ Live /\ rows \in OfSome(UserConfig) /\ loads \in Seq(Load)
      /\ wanted \subseteq Pairs
  BY DEF CalmInv, Travels, TypeInv, TypeOK
<1>2. UNCHANGED <<listing, storage, session, rows, leftover, wanted, progress>>
  BY DEF rowVars, userVars
<1>3. p \in Pairs
  <2>1. loads # <<>> => loads[1] \in Load
    BY <1>1
  <2>2. DOMAIN rows \subseteq Pairs
    BY <1>1, OfSomeIs
  <2>3. QED
    BY <2>1, <2>2 DEF Coming, Load
<1>4. /\ PairInv(p) /\ p \in DOMAIN rows \ leftover /\ p \in wanted
      /\ rows[p].tradable /\ rows[p].steps = progress[p]
  BY <1>3 DEF CalmInv, Travels, PairInv, RowRight
<1>5. rows[p] \in UserConfig
  BY <1>1, <1>4, OfSomeIs
<1> DEFINE e == Update(p, rows[p])
<1>6. /\ e \in Event /\ e.kind = "update" /\ e.pair = p /\ e.config = rows[p]
      /\ \A q : Configures(e, q) <=> q = p
  <2>1. e \in Event
    BY <1>3, <1>5, PostsTyped
  <2>2. QED
    BY <2>1 DEF Update, Configures
<1>7. queue' = Append(events, e) /\ model' = SetUserConfig(markets, p, rows[p])
  BY DEF AppendLoaded
<1> HIDE DEF e
<1>8. /\ \A q \in Pairs : q # p => Stored(model', q) = Stored(model, q)
      /\ Stored(model', p) = rows[p] /\ DOMAIN model' = Pairs
  BY <1>3, <1>5, <1>7, SetKeeps, SetUserConfigTyped
<1>9. Coming' = Coming \ {p}
  BY DEF Coming
<1>10. Listed'
  BY <1>1, <1>2, <1>6, <1>7, <1>8, DescribedPosted DEF Listed
<1>11. Loading'
  BY <1>2 DEF Loading
<1>12. Live'
  BY <1>1, <1>2 DEF Live
<1>13. ASSUME NEW q \in Pairs
       PROVE  PairInv(q)'
  <2>1. CASE q = p
    <3>1. PICK c \in UserConfig : Right(p, c)
      BY <1>4 DEF PairInv
    <3>2. Free(queue, p)
      BY <3>1 DEF Right
    <3>3. Free(events, p)
      BY <1>3, <3>2 DEF Keeps
    <3>4. /\ One(queue', p) /\ Counts(queue', storage', p, rows[p])
          /\ Forwarded(queue', p) <=> e.kind = "forward"
      BY <1>6, <1>7, <3>3, ItPosted
    <3>5. Right(p, rows[p])'
      BY <1>2, <1>4, <1>6, <1>8, <1>9, <3>4 DEF Right
    <3>6. RowRight(p)'
      BY <1>2, <1>4, <1>9 DEF RowRight
    <3>7. rows'[p] \in UserConfig
      BY <1>2, <1>5
    <3>8. PairInv(p)'
      BY <3>4, <3>5, <3>6, <3>7 DEF PairInv
    <3>9. QED
      BY <2>1, <3>8
  <2>2. CASE q # p
    <3>1. Keeps(events, storage, Append(events, e), storage', q)
      BY <1>2, <1>6, <2>2, OtherPosted
    <3>2. Keeps(queue, storage, queue', storage', q)
      BY <1>7, <3>1 DEF Keeps
    <3>3. Undisturbed(q)
      BY <1>2, <1>8, <1>9, <2>2, <3>2 DEF Undisturbed
    <3>4. QED
      BY <3>3, PairKept DEF CalmInv, Travels
  <2>3. QED
    BY <2>1, <2>2
<1>14. QED
  BY <1>10, <1>11, <1>12, <1>13 DEF Travels

(* The data, which may begin the load, its next pair, and its end.         *)
LEMMA DataCalm ==
  ASSUME Calm, CalmInv, DataArrives
  PROVE  Travels'
<1> DEFINE merged == MergeData(model, Ticker.pairs)
           posted == Append(queue, Ticker)
           load(p) == [group |-> rows, left |-> DOMAIN rows \ {p}]
<1>1. /\ listing \in OfSome(Statuses) /\ model \in OfSome(Market) /\ queue \in Seq(Event)
      /\ rows \in OfSome(UserConfig) /\ DOMAIN listing = Pairs /\ Listed /\ Loading
  BY DEF CalmInv, Travels, TypeInv, TypeOK, Listed
<1>2. Ticker \in Event /\ Ticker.kind = "data"
  <2>1. DOMAIN listing \subseteq Pairs
    BY <1>1
  <2>2. QED
    BY <2>1, PostsTyped DEF Ticker
<1>3. /\ informed /\ informed' /\ loads = <<>> /\ DOMAIN model = Pairs
      /\ UNCHANGED <<listing, storage, session, rowVars, userVars>>
  BY <1>1 DEF DataArrives, Calm, Listed
<1>4. /\ merged \in OfSome(Market) /\ DOMAIN merged = Pairs
      /\ \A p \in Pairs : Stored(merged, p) = Stored(model, p)
  BY <1>1, <1>3, MergeDataTyped, MergesKeep
<1>5. CASE loaded \/ rows = Nothing
  <2>1. model' = merged /\ queue' = Append(queue, Ticker) /\ loaded' /\ UNCHANGED loads
    BY <1>5 DEF DataArrives
  <2> HIDE DEF merged, posted
  <2>2. QED
    BY <1>2, <1>3, <1>4, <1>5, <2>1, NeutralPosted
<1>6. CASE ~loaded /\ rows # Nothing
  <2>1. /\ UNCHANGED loaded
        /\ \E p \in DOMAIN rows : /\ AppendLoaded(merged, posted, load(p), p)
                                  /\ loads' = Append(loads, load(p))
    BY <1>6 DEF DataArrives
  <2>2. PICK p \in DOMAIN rows : /\ AppendLoaded(merged, posted, load(p), p)
                                 /\ loads' = Append(loads, load(p))
    BY <2>1
  <2>3. load(p).group = rows /\ load(p).left = DOMAIN rows \ {p}
    OBVIOUS
  <2>4. loads' # <<>> /\ Len(loads') = 1 /\ loads'[1] = load(p)
    BY <1>3, <2>2
  <2>5. posted \in Seq(Event) /\ Whole(posted) /\ Described(posted, storage)
    BY <1>1, <1>2, <1>3, AppendEvent, DescribedPosted DEF Listed
  <2>6. \A q \in Pairs : Keeps(queue, storage, posted, storage, q)
    <3>1. \A q : ~Configures(Ticker, q)
      BY <1>2 DEF Configures
    <3>2. QED
      BY <1>1, <1>2, <3>1, OtherPosted
  <2>7. Coming = DOMAIN rows
    BY <1>3, <1>6 DEF Coming
  <2> DEFINE l == load(p)
  <2>8. /\ l.group = rows /\ l.left = Coming \ {p} /\ loads'[1] = l /\ p \in Coming
        /\ AppendLoaded(merged, posted, l, p)
    BY <2>2, <2>3, <2>4, <2>7
  <2> HIDE DEF merged, posted, load, l
  <2>9. QED
    BY <1>3, <1>4, <1>6, <2>1, <2>4, <2>5, <2>6, <2>8, PairLoaded
<1>7. QED
  BY <1>5, <1>6

(* A load goes on with the next pair.                                      *)
LEMMA LoadNextCalm ==
  ASSUME CalmInv, LoadNext
  PROVE  Travels'
<1>1. /\ queue \in Seq(Event) /\ model \in OfSome(Market) /\ loads \in Seq(Load)
      /\ Listed /\ Loading
  BY DEF CalmInv, Travels, TypeInv, TypeOK
<1>2. /\ loads # <<>> /\ UNCHANGED <<listing, storage, session, informed, loaded,
                                     rowVars, userVars>>
  BY DEF LoadNext
<1>3. Len(loads) = 1 /\ ~loaded /\ informed /\ Coming = loads[1].left /\ DOMAIN model = Pairs
  BY <1>1, <1>2 DEF Loading, Listed, Coming
<1>4. Last(loads) = loads[1] /\ loads[1] \in Load /\ Front(loads) = <<>>
  BY <1>1, <1>2, <1>3 DEF Last, Front
<1>5. PICK p \in loads[1].left :
        /\ AppendLoaded(model, queue, loads[1], p)
        /\ loads' = Append(Front(loads), [loads[1] EXCEPT !.left = @ \ {p}])
  BY <1>4 DEF LoadNext
<1>6. /\ [loads[1] EXCEPT !.left = @ \ {p}].left = loads[1].left \ {p}
      /\ [loads[1] EXCEPT !.left = @ \ {p}].group = loads[1].group
  BY <1>4 DEF Load
<1>7. loads' # <<>> /\ Len(loads') = 1 /\ loads'[1] = [loads[1] EXCEPT !.left = @ \ {p}]
  BY <1>4, <1>5
<1>8. \A q \in loads[1].left : loads[1].group[q] = rows[q]
  BY <1>1, <1>2 DEF Loading
<1>9. \A q \in Pairs : Keeps(queue, storage, queue, storage, q)
  BY DEF Keeps
<1>10. /\ p \in Coming /\ loads[1].group[p] = rows[p]
       /\ loads'[1].left = Coming \ {p}
       /\ \A q \in Coming \ {p} : loads'[1].group[q] = rows[q]
  BY <1>3, <1>5, <1>6, <1>7, <1>8
<1>11. informed' /\ ~loaded' /\ Whole(queue) /\ Described(queue, storage)
  BY <1>1, <1>2, <1>3 DEF Listed
<1>12. QED
  BY <1>1, <1>2, <1>3, <1>5, <1>7, <1>9, <1>10, <1>11, PairLoaded

(* A load ends, and the one it interrupted goes on.                        *)
LEMMA LoadEndCalm ==
  ASSUME CalmInv, LoadEnd
  PROVE  Travels'
<1>1. loads \in Seq(Load) /\ Listed /\ Loading /\ Live /\ \A p \in Pairs : PairInv(p)
  BY DEF CalmInv, Travels, TypeInv, TypeOK
<1>2. /\ loads # <<>> /\ loaded' /\ loads' = Front(loads) /\ Last(loads).left = {}
      /\ UNCHANGED <<listing, storage, model, session, queue, informed, rows, leftover,
                     wanted, progress>>
  BY DEF LoadEnd, copyVars, rowVars, userVars
<1>3. Len(loads) = 1 /\ ~loaded /\ informed
  BY <1>1, <1>2 DEF Loading, Listed
<1>4. Last(loads) = loads[1] /\ loads' = <<>>
  BY <1>1, <1>2, <1>3 DEF Last, Front
<1>5. Coming = {} /\ Coming' = {}
  BY <1>2, <1>3, <1>4 DEF Coming
<1>6. Listed' /\ Loading' /\ Live'
  BY <1>1, <1>2, <1>3, <1>4 DEF Listed, Loading, Live
<1>7. ASSUME NEW p \in Pairs
      PROVE  PairInv(p)'
  <2>1. Undisturbed(p)
    BY <1>2, <1>5 DEF Undisturbed, Keeps
  <2>2. QED
    BY <1>1, <2>1, PairKept
<1>8. QED
  BY <1>6, <1>7 DEF Travels

-----------------------------------------------------------------------------
(* The steps: deliveries.                                                  *)

(* Something is posted only after the description has come.                *)
LEMMA Posted ==
  ASSUME CalmInv, queue # <<>>
  PROVE  /\ informed /\ DOMAIN model = Pairs /\ Head(queue) \in Event
         /\ Tail(queue) \in Seq(Event) /\ Whole(Tail(queue))
         /\ Head(queue).kind = "info" => DOMAIN Head(queue).markets = Pairs
         /\ Head(queue).kind # "info" => DOMAIN storage = Pairs
<1>1. queue \in Seq(Event) /\ Listed
  BY DEF CalmInv, Travels, TypeInv, TypeOK
<1>2. informed /\ DOMAIN model = Pairs /\ Described(queue, storage) /\ Whole(queue)
  BY <1>1 DEF Listed
<1>3. QED
  BY <1>1, <1>2, TailIs, DescribedDelivered

(* The delivery of what brings no configuration.                           *)
LEMMA NeutralDelivered ==
  ASSUME CalmInv, queue # <<>>, Head(queue).kind \notin {"update", "forward"},
         queue' = Tail(queue), DOMAIN storage' = Pairs,
         \A p \in Pairs : Stored(storage', p) = Stored(storage, p),
         Live',
         UNCHANGED <<listing, model, streams, informed, loadVars, rowVars, userVars>>
  PROVE  Travels'
<1>1. queue \in Seq(Event) /\ Listed /\ Loading
  BY DEF CalmInv, Travels, TypeInv, TypeOK
<1>2. UNCHANGED <<listing, model, informed, loaded, loads, rows, leftover, wanted, progress>>
  BY DEF rowVars, userVars, loadVars
<1>3. Listed'
  BY <1>1, <1>2, Posted DEF Listed, Described
<1>4. Loading'
  BY <1>1, <1>2 DEF Loading
<1>5. Coming' = Coming
  BY <1>2 DEF Coming
<1>6. ASSUME NEW p \in Pairs
      PROVE  PairInv(p)'
  <2>1. ~Configures(Head(queue), p)
    BY DEF Configures
  <2>2. Keeps(queue, storage, queue', storage', p)
    BY <1>1, <2>1, OtherDelivered
  <2>3. Undisturbed(p)
    BY <1>2, <1>5, <2>2 DEF Undisturbed
  <2>4. QED
    BY <2>3, PairKept DEF CalmInv, Travels
<1>7. QED
  BY <1>3, <1>4, <1>6 DEF Travels

(* Deliveries that carry no configuration leave every pair as it is.       *)
LEMMA NeutralDeliveriesCalm ==
  ASSUME CalmInv, DeliverInfo \/ DeliverData \/ DeliverBook \/ DeliverTrade
  PROVE  Travels'
<1>1. /\ storage \in OfSome(Market) /\ session \in OfSome(Sessions) /\ Live
      /\ queue \in Seq(Event)
  BY DEF CalmInv, Travels, TypeInv, TypeOK
<1>2. /\ queue # <<>> /\ queue' = Tail(queue)
      /\ UNCHANGED <<listing, model, streams, informed, loadVars, rowVars, userVars>>
  BY DEF DeliverInfo, DeliverData, DeliverBook, DeliverTrade, copyVars
<1>3. CASE DeliverInfo
  <2>1. /\ Head(queue).kind = "info"
        /\ storage' = MergeInfo(storage, Head(queue).markets)
        /\ session' = [p \in DOMAIN session |->
                         IF session[p] = {} /\ p \notin DOMAIN Head(queue).markets
                         THEN {storage[p].config} ELSE session[p]]
    BY <1>3 DEF DeliverInfo
  <2>2. DOMAIN Head(queue).markets = Pairs /\ Head(queue).markets \in OfSome(Statuses)
    BY <1>2, <2>1, Posted, EventKinds
  <2>3. DOMAIN storage' = Pairs /\ \A p \in Pairs : Stored(storage', p) = Stored(storage, p)
    BY <1>1, <2>1, <2>2, MergeInfoTyped, MergesKeep
  <2>4. DOMAIN session \subseteq Pairs
    BY <1>1, OfSomeIs
  <2>5. Live'
    BY <1>1, <2>1, <2>2, <2>4 DEF Live
  <2>6. QED
    BY <1>2, <2>1, <2>3, <2>5, NeutralDelivered
<1>4. CASE DeliverData
  <2>1. /\ Head(queue).kind = "data" /\ storage' = MergeData(storage, Head(queue).pairs)
        /\ UNCHANGED session
    BY <1>4 DEF DeliverData
  <2>2. DOMAIN storage' = Pairs /\ \A p \in Pairs : Stored(storage', p) = Stored(storage, p)
    BY <1>1, <1>2, <2>1, Posted, MergeDataTyped, MergesKeep
  <2>3. Live'
    BY <1>1, <2>1 DEF Live
  <2>4. QED
    BY <1>2, <2>1, <2>2, <2>3, NeutralDelivered
<1>5. CASE DeliverBook \/ DeliverTrade
  <2>1. Head(queue).kind \in {"books", "history"} /\ UNCHANGED <<storage, session>>
    BY <1>5 DEF DeliverBook, DeliverTrade, copyVars
  <2>2. DOMAIN storage = Pairs
    BY <1>2, <2>1, Posted
  <2>3. Live'
    BY <1>1, <2>1 DEF Live
  <2>4. QED
    BY <1>2, <2>1, <2>2, <2>3, NeutralDelivered
<1>6. QED
  BY <1>3, <1>4, <1>5

(* The delivery of a configuration: to the storage, which is the last it   *)
(* comes to, ...                                                           *)
LEMMA DeliverUpdateCalm ==
  ASSUME CalmInv, DeliverUpdate
  PROVE  Travels'
<1>1. /\ storage \in OfSome(Market) /\ queue \in Seq(Event) /\ Listed /\ Loading /\ Live
  BY DEF CalmInv, Travels, TypeInv, TypeOK
<1> DEFINE e == Head(queue)
<1>2. /\ queue # <<>> /\ e.kind = "update"
      /\ storage' = SetUserConfig(storage, e.pair, e.config)
      /\ queue' = Tail(queue)
      /\ UNCHANGED <<listing, model, session, streams, informed, loadVars, rowVars, userVars>>
  BY DEF DeliverUpdate
<1>3. UNCHANGED <<listing, model, session, streams, informed, loaded, loads, rows, leftover,
                  wanted, progress>>
  BY <1>2 DEF loadVars, rowVars, userVars
<1>4. /\ informed /\ DOMAIN model = Pairs /\ DOMAIN storage = Pairs /\ Whole(queue')
      /\ e.pair \in Pairs /\ e.config \in UserConfig
  BY <1>2, Posted, EventKinds
<1>5. /\ DOMAIN storage' = Pairs /\ Stored(storage', e.pair) = e.config
      /\ \A p : p # e.pair => Stored(storage', p) = Stored(storage, p)
  BY <1>1, <1>2, <1>4, SetUserConfigTyped, SetKeeps
<1> HIDE DEF e
<1>6. Listed'
  BY <1>1, <1>3, <1>4, <1>5 DEF Listed, Described
<1>7. Loading' /\ Live'
  BY <1>1, <1>3 DEF Loading, Live
<1>8. Coming' = Coming
  BY <1>3 DEF Coming
<1>9. ASSUME NEW p \in Pairs
      PROVE  PairInv(p)'
  <2>1. CASE p = e.pair
    <3>1. Configures(Head(queue), p)
      BY <1>2, <2>1 DEF Configures, e
    <3>2. PairInv(p)
      BY DEF CalmInv, Travels
    <3>3. /\ Free(queue', p) /\ ~Forwarded(queue, p)
          /\ \A c : Counts(queue, storage, p, c) => c = e.config
      BY <1>1, <1>2, <3>1, <3>2, ItDelivered DEF PairInv, e
    <3>4. Free(queue', p) => One(queue', p) /\ ~Forwarded(queue', p)
      BY DEF Free, One, Forwarded
    <3>5. Counts(queue', storage', p, e.config)
      BY <1>5, <2>1, <3>3 DEF Counts, Free
    <3>6. Right(p, e.config)
      BY <3>2, <3>3 DEF PairInv, Right
    <3>7. PICK c \in UserConfig : c = e.config
      BY <1>4
    <3>8. Right(p, c)'
      BY <1>3, <1>8, <3>3, <3>4, <3>5, <3>6, <3>7 DEF Right
    <3>9. RowRight(p)'
      BY <1>3, <1>8, <3>2 DEF PairInv, RowRight
    <3>10. QED
      BY <3>3, <3>4, <3>8, <3>9 DEF PairInv
  <2>2. CASE p # e.pair
    <3>1. ~Configures(Head(queue), p)
      BY <2>2 DEF Configures, e
    <3>2. Keeps(queue, storage, queue', storage', p)
      BY <1>1, <1>2, <1>5, <2>2, <3>1, OtherDelivered
    <3>3. Undisturbed(p)
      BY <1>3, <1>8, <3>2 DEF Undisturbed
    <3>4. QED
      BY <3>3, PairKept DEF CalmInv, Travels
  <2>3. QED
    BY <2>1, <2>2
<1>10. QED
  BY <1>6, <1>7, <1>9 DEF Travels

(* ... and to the window, which posts it to the storage.                   *)
LEMMA DeliverForwardCalm ==
  ASSUME CalmInv, DeliverForward
  PROVE  Travels'
<1>1. /\ model \in OfSome(Market) /\ queue \in Seq(Event) /\ Listed /\ Loading /\ Live
  BY DEF CalmInv, Travels, TypeInv, TypeOK
<1> DEFINE e == Head(queue)
           u == Update(e.pair, e.config)
           rest == Tail(queue)
<1>2. /\ queue # <<>> /\ e.kind = "forward"
      /\ model' = SetUserConfig(model, e.pair, e.config)
      /\ queue' = Append(rest, u)
      /\ UNCHANGED <<listing, storage, session, streams, informed, loadVars, rowVars, userVars>>
  BY DEF DeliverForward
<1>3. UNCHANGED <<listing, storage, session, streams, informed, loaded, loads, rows, leftover,
                  wanted, progress>>
  BY <1>2 DEF loadVars, rowVars, userVars
<1>4. /\ informed /\ DOMAIN model = Pairs /\ DOMAIN storage = Pairs
      /\ rest \in Seq(Event) /\ Whole(rest)
      /\ e.pair \in Pairs /\ e.config \in UserConfig
  BY <1>2, Posted, EventKinds
<1>5. /\ DOMAIN model' = Pairs /\ Stored(model', e.pair) = e.config
      /\ \A p : p # e.pair => Stored(model', p) = Stored(model, p)
  BY <1>1, <1>2, <1>4, SetUserConfigTyped, SetKeeps
<1>6. /\ u \in Event /\ u.kind = "update" /\ u.pair = e.pair /\ u.config = e.config
      /\ \A p : Configures(u, p) <=> p = e.pair
  <2>1. u \in Event
    BY <1>4, PostsTyped
  <2>2. QED
    BY <2>1 DEF Update, Configures
<1>7. \A p : Configures(e, p) <=> p = e.pair
  BY <1>2 DEF Configures
<1> HIDE DEF u
<1>8. Whole(queue')
  BY <1>2, <1>4, <1>6, DescribedPosted
<1> HIDE DEF e, rest
<1>9. Listed'
  BY <1>1, <1>3, <1>4, <1>5, <1>8 DEF Listed, Described
<1>10. Loading' /\ Live'
  BY <1>1, <1>3 DEF Loading, Live
<1>11. Coming' = Coming
  BY <1>3 DEF Coming
<1>12. ASSUME NEW p \in Pairs
       PROVE  PairInv(p)'
  <2>1. CASE p = e.pair
    <3>1. PairInv(p)
      BY DEF CalmInv, Travels
    <3>2. /\ Free(rest, p)
          /\ \A c : Counts(queue, storage, p, c) => c = e.config
      BY <1>1, <1>2, <1>7, <2>1, <3>1, ItDelivered DEF PairInv, e, rest
    <3>3. /\ One(queue', p) /\ Counts(queue', storage', p, e.config)
          /\ ~Forwarded(queue', p)
      BY <1>2, <1>4, <1>6, <2>1, <3>2, ItPosted
    <3>4. Right(p, e.config)
      BY <3>1, <3>2 DEF PairInv, Right
    <3>5. p \notin Coming
      <4>1. ~Free(queue, p)
        BY <1>1, <1>2, <1>7, <2>1, TailIs DEF Free, e
      <4>2. QED
        BY <3>4, <4>1 DEF Right
    <3>6. PICK c \in UserConfig : c = e.config
      BY <1>4
    <3>7. Right(p, c)'
      BY <1>3, <1>5, <1>11, <2>1, <3>3, <3>4, <3>5, <3>6 DEF Right
    <3>8. RowRight(p)'
      BY <1>3, <1>11, <3>1 DEF PairInv, RowRight
    <3>9. QED
      BY <3>3, <3>7, <3>8 DEF PairInv
  <2>2. CASE p # e.pair
    <3>1. ~Configures(Head(queue), p) /\ ~Configures(u, p)
      BY <1>6, <1>7, <2>2 DEF e
    <3>2. Keeps(queue, storage, rest, storage, p)
      BY <1>1, <1>2, <3>1, OtherDelivered DEF rest
    <3>3. Keeps(rest, storage, Append(rest, u), storage', p)
      BY <1>3, <1>4, <1>6, <3>1, OtherPosted
    <3>4. Keeps(queue, storage, queue', storage', p)
      BY <1>2, <3>2, <3>3 DEF Keeps
    <3>5. Undisturbed(p)
      BY <1>3, <1>5, <1>11, <2>2, <3>4 DEF Undisturbed
    <3>6. QED
      BY <3>5, PairKept DEF CalmInv, Travels
  <2>3. QED
    BY <2>1, <2>2
<1>13. QED
  BY <1>9, <1>10, <1>12 DEF Travels

-----------------------------------------------------------------------------
(* The steps: the user.                                                    *)

(* The user gives a pair a configuration, while none is posted.            *)
LEMMA ClickCalm ==
  ASSUME CalmInv, Updated = {}, NEW p \in Pairs, NEW c \in UserConfig,
         loaded, informed, loads = <<>>,
         model' = SetUserConfig(model, p, c),
         queue' = Append(queue, Update(p, c)),
         Live',
         UNCHANGED <<listing, storage, informed, loadVars, rows>>,
         p \in wanted' <=> c.tradable,
         p \in wanted' => c.steps = progress'[p],
         \A q \in Pairs : q # p =>
           /\ q \in wanted' <=> q \in wanted
           /\ progress'[q] = progress[q]
           /\ q \in leftover' <=> q \in leftover,
         RowRight(p)'
  PROVE  Travels'
<1>1. /\ model \in OfSome(Market) /\ queue \in Seq(Event) /\ Listed
  BY DEF CalmInv, Travels, TypeInv, TypeOK
<1>2. UNCHANGED <<listing, storage, informed, loaded, loads, rows>>
  BY DEF loadVars
<1>3. Coming = {} /\ Coming' = {}
  BY <1>2 DEF Coming
<1>4. DOMAIN model = Pairs
  BY <1>1 DEF Listed
<1>5. /\ DOMAIN model' = Pairs /\ Stored(model', p) = c
      /\ \A q : q # p => Stored(model', q) = Stored(model, q)
  BY <1>1, <1>4, SetUserConfigTyped, SetKeeps
<1> DEFINE e == Update(p, c)
<1>6. /\ e \in Event /\ e.kind = "update" /\ e.config = c
      /\ \A q : Configures(e, q) <=> q = p
  <2>1. e \in Event
    BY PostsTyped
  <2>2. QED
    BY <2>1 DEF Update, Configures
<1>7. queue' = Append(queue, e)
  OBVIOUS
<1> HIDE DEF e
<1>8. Listed'
  BY <1>1, <1>2, <1>5, <1>6, <1>7, DescribedPosted DEF Listed
<1>9. Loading'
  BY <1>2 DEF Loading
<1>10. ASSUME NEW q \in Pairs
       PROVE  PairInv(q)'
  <2>1. CASE q = p
    <3>1. Free(queue, p)
      BY AtRest
    <3>2. PairInv(p)'
      BY <1>3, <1>5, <1>6, <1>7, <3>1, PairSet
    <3>3. QED
      BY <2>1, <3>2
  <2>2. CASE q # p
    BY <1>2, <1>3, <1>5, <1>6, <1>7, <2>2, PairAside
  <2>3. QED
    BY <2>1, <2>2
<1>11. QED
  BY <1>8, <1>9, <1>10 DEF Travels

(* What the windows show is what the storage has.                          *)
LEMMA Windows ==
  ASSUME Calm, CalmInv, Patient, NEW p \in DOMAIN model
  PROVE  /\ Updated = {} /\ loads = <<>> /\ informed /\ p \in Pairs
         /\ DOMAIN model = Pairs
         /\ model[p].config \in UserConfig /\ model[p].config = Stored(storage, p)
         /\ model[p].config.tradable =>
              loaded /\ p \in wanted /\ model[p].config.steps = progress[p]
<1>1. Updated = {} /\ loads = <<>>
  BY DEF Calm, Patient, Quiet
<1>2. model \in OfSome(Market) /\ Listed
  BY DEF CalmInv, Travels, TypeInv, TypeOK
<1>3. p \in Pairs /\ model[p].config \in UserConfig
  BY <1>2, ConfigTyped
<1>4. informed /\ DOMAIN model = Pairs
  BY <1>2, NothingTyped DEF Listed
<1>5. Stored(model, p) = model[p].config
  BY DEF Stored
<1>6. QED
  BY <1>1, <1>3, <1>4, <1>5, AtRest

(* The user puts a pair into trade while nothing is under way.             *)
LEMMA AppendCalm ==
  ASSUME Calm, CalmInv, NEW p \in Pairs, AppendMarket(p)
  PROVE  Travels'
<1>1. /\ Live /\ progress \in [Pairs -> 0 .. MaxSteps] /\ MaxSteps \in Nat
      /\ model \in OfSome(Market) /\ Loading /\ PairInv(p)
  BY BoundsAssumption DEF CalmInv, Travels, TypeInv, TypeOK
<1>2. p \in DOMAIN model /\ Patient /\ (loaded \/ loads # <<>>)
      /\ ~model[p].config.tradable
  BY DEF AppendMarket, Offered
<1>3. /\ Updated = {} /\ loads = <<>> /\ informed /\ loaded
      /\ model[p].config \in UserConfig /\ model[p].config = Stored(storage, p)
  BY <1>2, Windows
<1> DEFINE marked == Marked(p, TRUE)[p].config
           c == [marked EXCEPT !.steps = 0]
<1>4. marked \in UserConfig /\ marked.tradable = TRUE
  <2>1. model[p] \in Market
    BY <1>1, <1>2, ConfigTyped
  <2>2. marked = [model[p].config EXCEPT !.tradable = TRUE]
    BY <1>2, <2>1 DEF Marked, Market
  <2>3. QED
    BY <1>3, <2>2 DEF UserConfig
<1>5. c \in UserConfig /\ c.tradable = TRUE /\ c.steps = 0
  <2>1. ASSUME NEW d \in UserConfig
        PROVE  /\ [d EXCEPT !.steps = 0] \in UserConfig
               /\ [d EXCEPT !.steps = 0].tradable = d.tradable
               /\ [d EXCEPT !.steps = 0].steps = 0
    BY <1>1 DEF UserConfig
  <2> HIDE DEF marked
  <2>2. QED
    BY <1>4, <2>1
<1>6. /\ model' = SetUserConfig(model, p, c) /\ queue' = Append(queue, Update(p, c))
      /\ wanted' = wanted \cup {p} /\ progress' = [progress EXCEPT ![p] = 0]
      /\ UNCHANGED <<listing, storage, session, informed, loadVars, rows, leftover>>
  BY DEF AppendMarket, rowVars
<1> HIDE DEF marked, c
<1>7. progress'[p] = 0 /\ \A q \in Pairs : q # p => progress'[q] = progress[q]
  BY <1>1, <1>6
<1>8. Live'
  BY <1>1, <1>6 DEF Live
<1>9. RowRight(p)'
  <2>1. p \notin Coming' /\ p \notin Coming
    BY <1>3, <1>6 DEF Coming, loadVars
  <2>2. ~Stored(storage, p).tradable
    BY <1>2, <1>3
  <2>3. p \notin wanted
    BY <1>3, <2>1, <2>2, AtRest
  <2>4. p \notin DOMAIN rows \ leftover
    BY <1>1, <2>3 DEF PairInv, RowRight
  <2>5. QED
    BY <1>6, <2>1, <2>4 DEF RowRight
<1>10. QED
  BY <1>3, <1>5, <1>6, <1>7, <1>8, <1>9, ClickCalm

(* The user pauses a pair while nothing is under way.                      *)
LEMMA PauseCalm ==
  ASSUME Calm, CalmInv, NEW p \in Pairs, PauseMarket(p)
  PROVE  Travels'
<1>1. Live /\ PairInv(p)
  BY DEF CalmInv, Travels
<1>2. p \in DOMAIN model /\ Patient /\ model[p].config.tradable
  BY DEF PauseMarket, Shown, TradingPairs
<1>3. /\ Updated = {} /\ loads = <<>> /\ informed /\ loaded
      /\ model[p].config \in UserConfig
      /\ p \in wanted /\ model[p].config.steps = progress[p]
  BY <1>2, Windows
<1> DEFINE c == [model[p].config EXCEPT !.pause = ~@]
<1>4. c \in UserConfig /\ c.tradable = model[p].config.tradable
      /\ c.steps = model[p].config.steps
  BY <1>3 DEF UserConfig
<1>5. /\ model' = SetUserConfig(model, p, c) /\ queue' = Append(queue, Update(p, c))
      /\ UNCHANGED <<listing, storage, session, informed, loadVars, rows, leftover,
                     wanted, progress>>
  BY DEF PauseMarket, rowVars, userVars
<1> HIDE DEF c
<1>6. Live'
  BY <1>1, <1>5 DEF Live
<1>7. RowRight(p)'
  BY <1>1, <1>5 DEF PairInv, RowRight, Coming, loadVars
<1>8. QED
  BY <1>2, <1>3, <1>4, <1>5, <1>6, <1>7, ClickCalm

(* The user stops a pair while nothing is under way.                       *)
LEMMA RemoveCalm ==
  ASSUME Calm, CalmInv, NEW p \in Pairs, RemoveMarket(p)
  PROVE  Travels'
<1>1. Live /\ PairInv(p) /\ storage \in OfSome(Market)
  BY DEF CalmInv, Travels, TypeInv, TypeOK
<1>2. p \in DOMAIN model /\ Patient /\ model[p].config.tradable
  BY DEF RemoveMarket, Shown, TradingPairs
<1>3. /\ Updated = {} /\ loads = <<>> /\ informed /\ loaded
      /\ model[p].config = Stored(storage, p)
  BY <1>2, Windows
<1>4. p \in DOMAIN storage
  BY <1>2, <1>3 DEF Stored, NewConfig
<1>5. storage[p].config \in UserConfig
  BY <1>1, <1>4, ConfigTyped
<1> DEFINE c == [storage[p].config EXCEPT !.tradable = FALSE, !.rate = 0]
<1>6. c \in UserConfig /\ c.tradable = FALSE
  BY <1>5, RatesAssumption DEF UserConfig
<1>7. /\ model' = SetUserConfig(model, p, c) /\ queue' = Append(queue, Update(p, c))
      /\ session' = Without(session, p)
      /\ wanted' = wanted \ {p}
      /\ leftover' = leftover \cup ({p} \cap DOMAIN rows)
      /\ UNCHANGED <<listing, storage, informed, loadVars, rows, progress>>
  BY <1>4 DEF RemoveMarket
<1> HIDE DEF c
<1>8. Live'
  <2>1. \A q \in DOMAIN session' : q \in DOMAIN session /\ session'[q] = session[q]
    BY <1>7 DEF Without, Restrict
  <2>2. QED
    BY <1>1, <2>1 DEF Live
<1>9. RowRight(p)'
  BY <1>3, <1>7 DEF RowRight, Coming, loadVars
<1>10. QED
  BY <1>3, <1>6, <1>7, <1>8, <1>9, ClickCalm

-----------------------------------------------------------------------------
(* The steps: the timers.                                                  *)

(* A queue and what is posted after it.                                    *)
LEMMA Batch ==
  ASSUME NEW q \in Seq(Event), NEW s \in Seq(Event)
  PROVE  \E r \in Seq(Event) :
           /\ r = q \o s
           /\ \A i \in DOMAIN r : i \in DOMAIN q \/ \E j \in DOMAIN s : i = Len(q) + j
           /\ \A i \in DOMAIN q : i \in DOMAIN r /\ r[i] = q[i]
           /\ \A j \in DOMAIN s : Len(q) + j \in DOMAIN r /\ r[Len(q) + j] = s[j]
<1>1. PICK n \in Nat : n = Len(q)
  OBVIOUS
<1>2. PICK l \in Nat : l = Len(s)
  OBVIOUS
<1>3. PICK r \in Seq(Event) : r = q \o s
  BY ConcatProperties
<1>4. /\ Len(r) = n + l
      /\ \A i \in 1 .. n + l : r[i] = IF i <= n THEN q[i] ELSE s[i - n]
  BY <1>1, <1>2, <1>3, ConcatProperties
<1>5. DOMAIN r = 1 .. n + l /\ DOMAIN q = 1 .. n /\ DOMAIN s = 1 .. l
  BY <1>1, <1>2, <1>4
<1>6. \A i \in DOMAIN r : i \in DOMAIN q \/ \E j \in DOMAIN s : i = n + j
  <2>1. SUFFICES ASSUME NEW i \in DOMAIN r, i \notin DOMAIN q
                 PROVE  \E j \in DOMAIN s : i = n + j
    OBVIOUS
  <2>2. i - n \in DOMAIN s /\ i = n + (i - n)
    BY ONLY <1>1, <1>2, <1>5, <2>1
  <2>3. QED
    BY <2>2
<1>7. \A i \in DOMAIN q : i \in DOMAIN r /\ r[i] = q[i]
  BY ONLY <1>1, <1>2, <1>4, <1>5
<1>8. \A j \in DOMAIN s : n + j \in DOMAIN r /\ r[n + j] = s[j]
  <2>1. ASSUME NEW j \in DOMAIN s
        PROVE  n + j \in DOMAIN r /\ r[n + j] = s[j]
    <3>1. n + j \in 1 .. n + l /\ ~(n + j <= n) /\ (n + j) - n = j
      BY ONLY <1>1, <1>2, <1>5, <2>1
    <3>2. QED
      BY <1>4, <1>5, <3>1
  <2>2. QED
    BY <2>1
<1>9. QED
  BY <1>1, <1>3, <1>6, <1>7, <1>8

(* A batch of configurations, one of each pair it is about, after a queue  *)
(* that has none of them.                                                  *)
LEMMA BatchPosted ==
  ASSUME NEW q \in Seq(Event), NEW s \in Seq(Event), NEW p, Free(q, p), NEW markets
  PROVE  /\ (\A j \in DOMAIN s : ~Configures(s[j], p)) => Keeps(q, markets, q \o s, markets, p)
         /\ \A k \in DOMAIN s :
              (\A j \in DOMAIN s : Configures(s[j], p) <=> j = k)
              => /\ One(q \o s, p) /\ Counts(q \o s, markets, p, s[k].config)
                 /\ Forwarded(q \o s, p) => s[k].kind = "forward"
<1>1. PICK r \in Seq(Event) :
        /\ r = q \o s
        /\ \A i \in DOMAIN r : i \in DOMAIN q \/ \E j \in DOMAIN s : i = Len(q) + j
        /\ \A i \in DOMAIN q : i \in DOMAIN r /\ r[i] = q[i]
        /\ \A j \in DOMAIN s : Len(q) + j \in DOMAIN r /\ r[Len(q) + j] = s[j]
  BY Batch
<1>2. ASSUME \A j \in DOMAIN s : ~Configures(s[j], p)
      PROVE  Keeps(q, markets, r, markets, p)
  <2>1. Free(r, p)
    BY ONLY <1>1, <1>2, Free(q, p) DEF Free
  <2>2. One(r, p) /\ ~Forwarded(q, p)
    BY ONLY <2>1, Free(q, p) DEF Free, One, Forwarded
  <2>3. ASSUME NEW c \in UserConfig, Counts(q, markets, p, c)
        PROVE  Counts(r, markets, p, c)
    BY ONLY <2>1, <2>3, Free(q, p) DEF Free, Counts
  <2>4. QED
    BY <2>1, <2>2, <2>3 DEF Keeps
<1>3. ASSUME NEW k \in DOMAIN s, \A j \in DOMAIN s : Configures(s[j], p) <=> j = k
      PROVE  /\ One(r, p) /\ Counts(r, markets, p, s[k].config)
             /\ Forwarded(r, p) => s[k].kind = "forward"
  <2>1. \A i \in DOMAIN r : Configures(r[i], p) => i = Len(q) + k
    BY ONLY <1>1, <1>3, Free(q, p) DEF Free
  <2>2. Len(q) + k \in DOMAIN r /\ r[Len(q) + k] = s[k] /\ Configures(s[k], p)
    BY ONLY <1>1, <1>3
  <2>3. QED
    BY ONLY <2>1, <2>2 DEF One, Counts, Forwarded, Free
<1>4. QED
  BY <1>1, <1>2, <1>3

(* Events that describe no markets may follow any queue.                   *)
LEMMA BatchWhole ==
  ASSUME NEW q \in Seq(Event), NEW s \in Seq(Event), Whole(q),
         \A j \in DOMAIN s : s[j].kind # "info"
  PROVE  Whole(q \o s)
<1>1. PICK r \in Seq(Event) :
        /\ r = q \o s
        /\ \A i \in DOMAIN r : i \in DOMAIN q \/ \E j \in DOMAIN s : i = Len(q) + j
        /\ \A i \in DOMAIN q : i \in DOMAIN r /\ r[i] = q[i]
        /\ \A j \in DOMAIN s : Len(q) + j \in DOMAIN r /\ r[Len(q) + j] = s[j]
  BY Batch
<1>2. ASSUME NEW i \in DOMAIN r, r[i].kind = "info"
      PROVE  DOMAIN r[i].markets = Pairs
  <2>1. i \in DOMAIN q
    BY <1>1, <1>2
  <2>2. QED
    BY <1>1, <1>2, <2>1 DEF Whole
<1>3. QED
  BY <1>1, <1>2 DEF Whole

(* TrendSearcher posts the configuration of every pair it moves, once, and *)
(* sets it in the window.                                                  *)
LEMMA TrendCalm ==
  ASSUME Calm, CalmInv, TrendTimer
  PROVE  Travels'
<1>1. /\ queue \in Seq(Event) /\ storage \in OfSome(Market) /\ model \in OfSome(Market)
      /\ queue' \in Seq(Event) /\ Listed /\ Loading /\ Live
  BY TrendTyped DEF CalmInv, Travels, TypeInv, TypeOK
<1>2. Updated = {}
  BY DEF TrendTimer, Quiet, Calm
<1>3. UNCHANGED <<listing, storage, session, informed, loaded, loads, rows, leftover, wanted,
                  progress>>
  BY DEF TrendTimer, loadVars, rowVars, userVars
<1>4. PICK rate \in RatesFound :
        LET moved == {p \in Reached : rate[p] # storage[p].config.rate}
            config == [p \in moved |-> [storage[p].config EXCEPT !.rate = rate[p]]]
        IN /\ moved # {}
           /\ \E pass \in [1 .. Cardinality(moved) -> moved] :
                /\ \A i, j \in DOMAIN pass : i < j => pass[i] < pass[j]
                /\ queue' = queue \o [i \in DOMAIN pass |-> Update(pass[i], config[pass[i]])]
           /\ model' = [p \in DOMAIN model |->
                IF p \in moved THEN [model[p] EXCEPT !.config = config[p]] ELSE model[p]]
  BY DEF TrendTimer
<1> DEFINE moved == {p \in Reached : rate[p] # storage[p].config.rate}
           config == [p \in moved |-> [storage[p].config EXCEPT !.rate = rate[p]]]
<1>5. Reached \subseteq TradingPairs(storage) /\ TradingPairs(storage) \subseteq Pairs
      /\ TradingPairs(storage) \subseteq DOMAIN storage
  BY TradedTyped DEF Reached, CalmInv, TypeInv
<1>6. ASSUME NEW p \in moved
      PROVE  /\ p \in Pairs /\ config[p] \in UserConfig
             /\ p \notin Coming /\ p \in wanted
             /\ config[p].tradable /\ config[p].steps = progress[p]
  <2>1. p \in Pairs /\ p \in DOMAIN storage /\ storage[p].config.tradable
        /\ rate[p] \in Rates
    BY <1>5 DEF TradingPairs, RatesFound
  <2>2. storage[p].config \in UserConfig /\ Stored(storage, p) = storage[p].config
    BY <1>1, <2>1, ConfigTyped DEF Stored
  <2>3. /\ config[p] \in UserConfig /\ config[p].tradable = storage[p].config.tradable
        /\ config[p].steps = storage[p].config.steps
    BY <2>1, <2>2 DEF UserConfig
  <2>4. /\ p \notin Coming /\ p \in wanted /\ storage[p].config.steps = progress[p]
    BY <1>2, <2>1, <2>2, AtRest
  <2>5. QED
    BY <2>1, <2>3, <2>4
<1>7. PICK pass \in [1 .. Cardinality(moved) -> moved] :
        /\ \A i, j \in DOMAIN pass : i < j => pass[i] < pass[j]
        /\ queue' = queue \o [i \in DOMAIN pass |-> Update(pass[i], config[pass[i]])]
  BY <1>4
<1>8. moved \subseteq Pairs /\ moved # {}
  BY <1>4, <1>5
<1>9. moved \in SUBSET Nat /\ IsFiniteSet(moved)
  BY <1>8, PairsAssumption, FS_Subset
<1>10. \A x \in moved : \E k \in DOMAIN pass : \A j \in DOMAIN pass : pass[j] = x <=> j = k
  <2> HIDE DEF moved, config
  <2>1. QED
    BY <1>7, <1>9, PassMeetsAll
<1>11. /\ informed /\ DOMAIN model = Pairs /\ DOMAIN storage = Pairs
  <2>1. DOMAIN storage # {}
    BY <1>5, <1>8
  <2>2. QED
    BY <1>1, <2>1, NothingTyped DEF Listed, Described
<1> DEFINE posted == [i \in DOMAIN pass |-> Update(pass[i], config[pass[i]])]
<1>12. model' = [p \in DOMAIN model |->
         IF p \in moved THEN [model[p] EXCEPT !.config = config[p]] ELSE model[p]]
  BY <1>4
<1>13. /\ DOMAIN model' = Pairs
       /\ \A p \in Pairs : Stored(model', p) = IF p \in moved THEN config[p] ELSE Stored(model, p)
  <2>1. \A p \in Pairs : model[p] \in Market
    BY <1>1, <1>11, ConfigTyped
  <2>2. ASSUME NEW p \in Pairs
        PROVE  Stored(model', p) = IF p \in moved THEN config[p] ELSE Stored(model, p)
    <3> HIDE DEF moved, config
    <3>1. QED
      BY <1>11, <1>12, <2>1 DEF Stored, Market
  <2>3. QED
    BY <1>11, <1>12, <2>2
<1> HIDE DEF moved, config
<1>14. /\ posted \in Seq(Event) /\ DOMAIN posted = DOMAIN pass
       /\ \A i \in DOMAIN pass : /\ posted[i] = Update(pass[i], config[pass[i]])
                                 /\ posted[i].kind = "update"
                                 /\ posted[i].config = config[pass[i]]
                                 /\ \A p : Configures(posted[i], p) <=> pass[i] = p
  <2>1. Cardinality(moved) \in Nat /\ DOMAIN pass = 1 .. Cardinality(moved)
    BY <1>9, FS_CardinalityType
  <2>2. \A i \in DOMAIN pass : Update(pass[i], config[pass[i]]) \in Event
    BY <1>6, PostsTyped
  <2>3. posted \in Seq(Event)
    BY <2>1, <2>2, IsASeq
  <2>4. QED
    BY <2>3 DEF Update, Configures
<1>15. queue' = queue \o posted
  BY <1>7
<1> HIDE DEF posted
<1>16. Whole(queue')
  <2>1. \A i \in DOMAIN posted : posted[i].kind # "info"
    BY <1>14
  <2>2. Whole(queue)
    BY <1>1 DEF Listed
  <2>3. QED
    BY <1>1, <1>14, <1>15, <2>1, <2>2, BatchWhole
<1>17. Listed'
  BY <1>1, <1>3, <1>11, <1>13, <1>16 DEF Listed, Described
<1>18. Loading' /\ Live' /\ Coming' = Coming
  BY <1>1, <1>3 DEF Loading, Live, Coming
<1>19. ASSUME NEW p \in Pairs
       PROVE  PairInv(p)'
  <2>1. Free(queue, p) /\ PairInv(p)
    BY <1>2, AtRest DEF CalmInv, Travels
  <2>2. CASE p \in moved
    <3>1. PICK k \in DOMAIN posted : \A j \in DOMAIN posted : Configures(posted[j], p) <=> j = k
      BY <1>10, <1>14, <2>2
    <3>2. pass[k] = p /\ posted[k].config = config[p] /\ posted[k].kind = "update"
      BY <1>14, <3>1
    <3>3. /\ One(queue', p) /\ Counts(queue', storage, p, config[p]) /\ ~Forwarded(queue', p)
      <4>1. queue \in Seq(Event) /\ posted \in Seq(Event) /\ Free(queue, p)
        BY <1>1, <1>14, <2>1
      <4>2. /\ One(queue \o posted, p) /\ Counts(queue \o posted, storage, p, posted[k].config)
            /\ Forwarded(queue \o posted, p) => posted[k].kind = "forward"
        BY ONLY <4>1, <3>1, BatchPosted
      <4>3. QED
        BY <1>15, <3>2, <4>2
    <3>4. PICK c \in UserConfig : c = config[p]
      BY <1>6, <2>2
    <3>5. Right(p, c)'
      BY <1>3, <1>6, <1>13, <1>18, <2>2, <3>3, <3>4 DEF Right
    <3>6. RowRight(p)'
      BY <1>3, <1>18, <2>1 DEF PairInv, RowRight
    <3>7. QED
      BY <3>3, <3>5, <3>6 DEF PairInv
  <2>3. CASE p \notin moved
    <3>1. \A j \in DOMAIN posted : ~Configures(posted[j], p)
      BY <1>14, <2>3
    <3>2. Keeps(queue, storage, queue', storage', p)
      BY <1>1, <1>3, <1>14, <1>15, <2>1, <3>1, BatchPosted
    <3>3. Undisturbed(p)
      BY <1>3, <1>13, <1>18, <2>3, <3>2 DEF Undisturbed
    <3>4. QED
      BY <2>1, <3>3, PairKept
  <2>4. QED
    BY <2>2, <2>3
<1>20. QED
  BY <1>17, <1>18, <1>19 DEF Travels

(* A step of a pair that is traded: its row and the configuration that is  *)
(* posted say how far the cycle is.                                        *)
LEMMA StepCalm ==
  ASSUME CalmInv, Updated = {}, NEW p \in TradingPairs(storage), NEW c \in UserConfig,
         queue' = Append(queue, [kind |-> "forward", pair |-> p, config |-> c]),
         c.tradable, c.steps = progress'[p],
         p \in DOMAIN rows' => rows'[p].tradable /\ rows'[p].steps = progress'[p],
         \A q \in Pairs : q # p =>
           /\ progress'[q] = progress[q]
           /\ q \in DOMAIN rows' <=> q \in DOMAIN rows
           /\ q \in leftover' <=> q \in leftover
           /\ q \in DOMAIN rows => rows'[q] = rows[q],
         Live',
         UNCHANGED <<listing, storage, model, informed, loadVars, wanted>>
  PROVE  Travels'
<1>1. /\ queue \in Seq(Event) /\ Listed /\ Loading /\ storage \in OfSome(Market)
      /\ loads \in Seq(Load)
  BY DEF CalmInv, Travels, TypeInv, TypeOK
<1>2. UNCHANGED <<listing, storage, model, informed, loaded, loads, wanted>>
  BY DEF loadVars
<1>3. /\ p \in Pairs /\ p \in DOMAIN storage /\ Stored(storage, p).tradable
  BY TradedTyped DEF TradingPairs, Stored, CalmInv, TypeInv
<1>4. /\ p \notin Coming /\ p \in wanted /\ (loaded \/ loads # <<>>) /\ Free(queue, p)
  BY <1>3, AtRest
<1>5. Coming' = Coming
  BY <1>2, <1>4 DEF Coming
<1>6. informed
  BY <1>1, <1>3, NothingTyped DEF Listed
<1> DEFINE e == [kind |-> "forward", pair |-> p, config |-> c]
<1>7. /\ e \in Event /\ e.kind = "forward" /\ e.config = c
      /\ \A q : Configures(e, q) <=> q = p
  BY <1>3, PostsTyped DEF Configures
<1>8. queue' = Append(queue, e)
  OBVIOUS
<1> HIDE DEF e
<1>9. Listed'
  BY <1>1, <1>2, <1>6, <1>7, <1>8, DescribedPosted DEF Listed
<1>10. Loading'
  <2>1. ASSUME loads # <<>>, NEW q \in loads[1].left
        PROVE  loads[1].group[q] = rows'[q]
    <3>1. q \in Coming
      BY <1>1, <2>1 DEF Loading, Coming
    <3>2. q \in Pairs
      <4>1. loads[1] \in Load
        BY <1>1, <2>1
      <4>2. QED
        BY <2>1, <4>1 DEF Load
    <3>3. q \in DOMAIN rows
      BY <3>1, <3>2 DEF CalmInv, Travels, PairInv, RowRight
    <3>4. QED
      BY <1>1, <1>4, <2>1, <3>1, <3>2, <3>3 DEF Loading
  <2>2. QED
    BY <1>1, <1>2, <1>4, <2>1 DEF Loading
<1>11. ASSUME NEW q \in Pairs
       PROVE  PairInv(q)'
  <2>1. CASE q = p
    <3>1. RowRight(p)'
      BY <1>2, <1>4, <1>5 DEF RowRight
    <3>2. PairInv(p)'
      BY <1>2, <1>3, <1>4, <1>5, <1>7, <1>8, <3>1, PairSet
    <3>3. QED
      BY <2>1, <3>2
  <2>2. CASE q # p
    BY <1>2, <1>5, <1>7, <1>8, <2>2, PairAside
  <2>3. QED
    BY <2>1, <2>2
<1>12. QED
  BY <1>9, <1>10, <1>11 DEF Travels

(* The timer of Hanukkah: the sessions are made, or a step of a pair goes  *)
(* on.                                                                     *)
LEMMA HanukkahCalm ==
  ASSUME Calm, CalmInv, HanukkahTimer
  PROVE  Travels'
<1>1. /\ Live /\ rows \in OfSome(UserConfig) /\ leftover \subseteq DOMAIN rows
      /\ progress \in [Pairs -> 0 .. MaxSteps] /\ MaxSteps \in Nat
      /\ storage \in OfSome(Market) /\ Listed /\ Loading /\ \A p \in Pairs : PairInv(p)
  BY BoundsAssumption DEF CalmInv, Travels, TypeInv, TypeOK
<1>2. Updated = {}
  BY DEF HanukkahTimer, Quiet, Calm
<1>3. /\ session' = WithSessions
      /\ UNCHANGED <<listing, storage, model, streams, informed, loadVars, wanted>>
  BY DEF HanukkahTimer, copyVars
<1>4. \A p \in DOMAIN WithSessions : WithSessions[p] = {}
  BY <1>1 DEF WithSessions, Live
<1>5. Live'
  BY <1>3, <1>4 DEF Live
<1>6. CASE UNCHANGED <<queue, rowVars, progress>>
  <2>1. UNCHANGED <<listing, storage, model, streams, queue, informed, loaded, loads, rows,
                    leftover, wanted, progress>>
    BY <1>3, <1>6 DEF rowVars, loadVars
  <2>2. Listed' /\ Loading' /\ Coming' = Coming
    BY <1>1, <2>1 DEF Listed, Loading, Coming
  <2>3. ASSUME NEW p \in Pairs
        PROVE  PairInv(p)'
    <3>1. Undisturbed(p)
      BY <2>1, <2>2 DEF Undisturbed, Keeps
    <3>2. QED
      BY <1>1, <3>1, PairKept
  <2>4. QED
    BY <1>5, <2>2, <2>3 DEF Travels
<1>7. ASSUME NEW p \in TradingPairs(storage), CloseStep(p) \/ EndCycle(p)
      PROVE  Travels'
  <2>1. p \in Pairs /\ p \in DOMAIN storage /\ storage[p].config.tradable
    BY TradedTyped DEF TradingPairs, CalmInv, TypeInv
  <2>2. /\ storage[p].config \in UserConfig /\ Stored(storage, p) = storage[p].config
    BY <1>1, <2>1, ConfigTyped DEF Stored
  <2>3. storage[p].config.steps = progress[p]
    BY <1>2, <2>1, <2>2, AtRest
  <2>4. ConfigOf(p) = storage[p].config
    <3>1. p \in DOMAIN WithSessions
      BY DEF WithSessions
    <3>2. QED
      BY <1>4, <3>1 DEF ConfigOf
  <2>5. progress[p] \in 0 .. MaxSteps
    BY <1>1, <2>1
  <2> DEFINE d == storage[p].config
  <2>6. CASE CloseStep(p)
    <3>1. /\ d.steps < MaxSteps
          /\ PostForward(p, NextStep(p))
          /\ rows' = With(rows, p, Row(NextStep(p)))
          /\ leftover' = leftover \ {p}
          /\ progress' = [progress EXCEPT ![p] = IF @ < MaxSteps THEN @ + 1 ELSE @]
      BY <2>4, <2>6 DEF CloseStep, CloseWith
    <3>2. /\ NextStep(p) \in UserConfig /\ NextStep(p).tradable
          /\ NextStep(p).steps = progress[p] + 1
      <4>1. d.steps + 1 \in 0 .. MaxSteps
        BY <1>1, <2>3, <2>5, <3>1
      <4>2. NextStep(p) = [d EXCEPT !.steps = @ + 1]
        BY <2>4 DEF NextStep
      <4>3. QED
        BY <2>1, <2>2, <2>3, <4>1, <4>2 DEF UserConfig
    <3>3. Row(NextStep(p)).tradable /\ Row(NextStep(p)).steps = progress[p] + 1
      <4>1. \A c \in UserConfig : Row(c).tradable = TRUE /\ Row(c).steps = c.steps
        BY DEF Row, UserConfig
      <4>2. QED
        BY <3>2, <4>1
    <3>4. /\ progress'[p] = progress[p] + 1
          /\ \A q \in Pairs : q # p => progress'[q] = progress[q]
      <4>1. progress[p] < MaxSteps
        BY <2>3, <3>1
      <4>2. QED
        BY <1>1, <2>1, <3>1, <4>1
    <3>5. /\ DOMAIN rows' = DOMAIN rows \cup {p} /\ rows'[p] = Row(NextStep(p))
          /\ \A q \in DOMAIN rows : q # p => rows'[q] = rows[q]
      BY <3>1 DEF With
    <3>6. queue' = Append(queue, [kind |-> "forward", pair |-> p, config |-> NextStep(p)])
      BY <3>1 DEF PostForward
    <3>7. \A q \in Pairs : q # p =>
            /\ progress'[q] = progress[q]
            /\ q \in DOMAIN rows' <=> q \in DOMAIN rows
            /\ q \in leftover' <=> q \in leftover
            /\ q \in DOMAIN rows => rows'[q] = rows[q]
      BY <3>1, <3>4, <3>5
    <3>8. /\ NextStep(p).steps = progress'[p]
          /\ rows'[p].tradable /\ rows'[p].steps = progress'[p]
      BY <3>2, <3>3, <3>4, <3>5
    <3>9. QED
      BY <1>2, <1>3, <1>5, <3>2, <3>6, <3>7, <3>8, StepCalm
  <2>7. CASE EndCycle(p)
    <3> DEFINE c == [d EXCEPT !.steps = 0]
    <3>1. /\ PostForward(p, c) /\ rows' = Without(rows, p) /\ leftover' = leftover \ {p}
          /\ progress' = [progress EXCEPT ![p] = 0]
      BY <2>4, <2>7 DEF EndCycle
    <3>2. c \in UserConfig /\ c.tradable /\ c.steps = 0
      BY <1>1, <2>1, <2>2 DEF UserConfig
    <3>3. progress'[p] = 0 /\ \A q \in Pairs : q # p => progress'[q] = progress[q]
      BY <1>1, <2>1, <3>1
    <3>4. /\ DOMAIN rows' = DOMAIN rows \ {p}
          /\ \A q \in DOMAIN rows : q # p => rows'[q] = rows[q]
      BY <3>1 DEF Without, Restrict
    <3>5. queue' = Append(queue, [kind |-> "forward", pair |-> p, config |-> c])
      BY <3>1 DEF PostForward
    <3> HIDE DEF c
    <3>6. \A q \in Pairs : q # p =>
            /\ progress'[q] = progress[q]
            /\ q \in DOMAIN rows' <=> q \in DOMAIN rows
            /\ q \in leftover' <=> q \in leftover
            /\ q \in DOMAIN rows => rows'[q] = rows[q]
      BY <3>1, <3>3, <3>4
    <3>7. p \notin DOMAIN rows' /\ c.steps = progress'[p]
      BY <3>2, <3>3, <3>4
    <3>8. QED
      BY <1>2, <1>3, <1>5, <3>2, <3>5, <3>6, <3>7, StepCalm
  <2>8. QED
    BY <1>7, <2>6, <2>7
<1>8. QED
  BY <1>6, <1>7 DEF HanukkahTimer

-----------------------------------------------------------------------------
(* The steps: the end of the bot and the next start.                       *)

(* A start with the rows of the pairs that are wanted, and no others.      *)
LEMMA RestartCalm ==
  ASSUME CalmInv, Restarted, UNCHANGED listing,
         \A p \in DOMAIN rows' : /\ p \notin leftover' /\ p \in wanted'
                                 /\ rows'[p].tradable /\ rows'[p].steps = progress'[p],
         wanted' \subseteq DOMAIN rows'
  PROVE  Travels'
<1>1. /\ storage' = Nothing /\ model' = Nothing /\ session' = Nothing /\ queue' = <<>>
      /\ ~informed' /\ ~loaded' /\ loads' = <<>> /\ streams' = {}
  BY DEF Restarted
<1>2. DOMAIN queue' = {} /\ DOMAIN listing = Pairs
  BY <1>1 DEF CalmInv, Travels, Listed
<1>3. Listed' /\ Loading' /\ Live'
  BY <1>1, <1>2, NothingTyped DEF Listed, Whole, Loading, Live
<1>4. Coming' = DOMAIN rows'
  BY <1>1 DEF Coming
<1>5. ASSUME NEW p \in Pairs
      PROVE  PairInv(p)'
  <2>1. Free(queue', p) /\ One(queue', p) /\ ~Forwarded(queue', p)
    BY <1>2 DEF Free, One, Forwarded
  <2>2. Stored(storage', p) = NewConfig /\ Stored(model', p) = NewConfig
    BY <1>1, NothingTyped DEF Stored
  <2>3. Counts(queue', storage', p, NewConfig)
    BY <1>2, <2>2 DEF Counts
  <2>4. PICK c \in UserConfig : c = NewConfig
    BY NewConfigTyped
  <2>5. ~c.tradable
    BY <2>4 DEF NewConfig
  <2>6. Right(p, c)'
    BY <1>4, <2>1, <2>2, <2>3, <2>4, <2>5 DEF Right
  <2>7. RowRight(p)'
    BY <1>4 DEF RowRight
  <2>8. QED
    BY <2>1, <2>6, <2>7 DEF PairInv
<1>6. QED
  BY <1>3, <1>5 DEF Travels

(* The rows that are saved, or left, are those of the pairs that are       *)
(* traded.                                                                 *)
LEMMA EndsCalm ==
  ASSUME Calm, CalmInv, Stop \/ Crash \/ Upgrade
  PROVE  Travels'
<1>1. /\ wanted \subseteq Pairs /\ rows \in OfSome(UserConfig) /\ Loading
      /\ progress \in [Pairs -> 0 .. MaxSteps]
  BY DEF CalmInv, Travels, TypeInv, TypeOK
<1>2. CASE Stop
  <2>1. /\ Restarted /\ UNCHANGED <<listing, wanted, progress>> /\ rows' = Saved
        /\ leftover' = {} /\ Updated = {} /\ loaded
    BY <1>2 DEF Stop, StopWith, userVars, Quiet, Calm
  <2>2. Coming = {}
    BY <2>1 DEF Coming
  <2>3. /\ DOMAIN rows' = TradingPairs(storage) /\ TradingPairs(storage) \subseteq Pairs
        /\ \A p \in TradingPairs(storage) : /\ rows'[p] = storage[p].config
                                            /\ p \in DOMAIN storage
                                            /\ storage[p].config.tradable
    BY <2>1, TradedTyped DEF Saved, TradingPairs, CalmInv, TypeInv
  <2>4. \A p \in Pairs : /\ p \in wanted <=> Stored(storage, p).tradable
                         /\ p \in wanted => Stored(storage, p).steps = progress[p]
    BY <2>1, <2>2, AtRest
  <2>5. ASSUME NEW p \in DOMAIN rows'
        PROVE  /\ p \notin leftover' /\ p \in wanted'
               /\ rows'[p].tradable /\ rows'[p].steps = progress'[p]
    <3>1. p \in Pairs /\ Stored(storage, p) = storage[p].config
      BY <2>3 DEF Stored
    <3>2. QED
      BY <2>1, <2>3, <2>4, <3>1
  <2>6. wanted' \subseteq DOMAIN rows'
    <3>1. \A p : Stored(storage, p).tradable => p \in TradingPairs(storage)
      BY DEF Stored, NewConfig, TradingPairs
    <3>2. QED
      BY <1>1, <2>1, <2>3, <2>4, <3>1
  <2>7. QED
    BY <2>1, <2>5, <2>6, RestartCalm
<1>3. CASE Crash
  <2>1. /\ Restarted /\ UNCHANGED <<listing, rows, leftover>> /\ leftover = {}
        /\ wanted' = wanted \cap DOMAIN rows
        /\ progress' = [p \in Pairs |-> IF p \in wanted' THEN progress[p] ELSE 0]
    BY <1>3 DEF Crash, rowVars, Calm
  <2>2. DOMAIN rows \subseteq Pairs
    BY <1>1, OfSomeIs
  <2>3. ASSUME NEW p \in DOMAIN rows
        PROVE  p \in wanted /\ rows[p].tradable /\ rows[p].steps = progress[p]
    BY <2>1, <2>2 DEF CalmInv, Travels, PairInv, RowRight
  <2>4. ASSUME NEW p \in DOMAIN rows'
        PROVE  /\ p \notin leftover' /\ p \in wanted'
               /\ rows'[p].tradable /\ rows'[p].steps = progress'[p]
    BY <2>1, <2>2, <2>3
  <2>5. QED
    BY <2>1, <2>4, RestartCalm
<1>4. CASE Upgrade
  <2>1. Restarted /\ UNCHANGED listing /\ rows' = Nothing /\ wanted' = {}
    BY <1>4 DEF Upgrade
  <2>2. QED
    BY <2>1, NothingTyped, RestartCalm
<1>5. QED
  BY <1>2, <1>3, <1>4

-----------------------------------------------------------------------------
(* The theorems.                                                           *)

(* Every step keeps the invariant.                                         *)
LEMMA CalmStep ==
  ASSUME Calm
  PROVE  CalmInv /\ [Next]_vars => CalmInv'
<1> SUFFICES ASSUME CalmInv, [Next]_vars
             PROVE  Travels'
  BY TypeStep DEF CalmInv
<1>1. CASE \/ InfoArrives
           \/ \E p \in Pairs : BookArrives(p)
           \/ \E p \in Pairs, side \in Sides : TradeArrives(p, side)
  BY <1>1, ArrivalsCalm
<1>2. CASE DataArrives \/ LoadNext \/ LoadEnd
  BY <1>2, DataCalm, LoadNextCalm, LoadEndCalm
<1>3. CASE Deliver
  BY <1>3, NeutralDeliveriesCalm, DeliverUpdateCalm, DeliverForwardCalm DEF Deliver
<1>4. CASE \E p \in Pairs : AppendMarket(p) \/ PauseMarket(p) \/ RemoveMarket(p)
  BY <1>4, AppendCalm, PauseCalm, RemoveCalm
<1>5. CASE TrendTimer \/ HanukkahTimer
  BY <1>5, TrendCalm, HanukkahCalm
<1>6. CASE Stop \/ Crash \/ Upgrade
  BY <1>6, EndsCalm
<1>7. CASE ListingChanges
  BY <1>7 DEF ListingChanges, Calm
<1>8. CASE UNCHANGED vars
  <2>1. UNCHANGED <<listing, storage, model, session, streams, queue, informed, loaded,
                    loads, rows, leftover, wanted, progress>>
    BY <1>8 DEF vars, copyVars, loadVars, rowVars, userVars
  <2>2. Listed' /\ Loading' /\ Live' /\ Coming' = Coming
    BY <2>1 DEF CalmInv, Travels, Listed, Loading, Live, Coming
  <2>3. ASSUME NEW p \in Pairs
        PROVE  PairInv(p)'
    <3>1. Undisturbed(p)
      BY <2>1, <2>2 DEF Undisturbed, Keeps
    <3>2. QED
      BY <3>1, PairKept DEF CalmInv, Travels
  <2>4. QED
    BY <2>2, <2>3 DEF Travels
<1>9. QED
  BY <1>1, <1>2, <1>3, <1>4, <1>5, <1>6, <1>7, <1>8 DEF Next

(* At the start nothing is known and nothing is under way.                 *)
LEMMA CalmStart == Init => Travels
<1> SUFFICES ASSUME Init
             PROVE  Travels
  OBVIOUS
<1>1. /\ DOMAIN queue = {} /\ DOMAIN listing = Pairs /\ DOMAIN rows = {}
      /\ DOMAIN session = {} /\ storage = Nothing /\ model = Nothing
      /\ ~loaded /\ loads = <<>> /\ queue = <<>> /\ ~informed /\ wanted = {} /\ streams = {}
  BY NothingTyped DEF Init
<1>2. Listed /\ Loading /\ Live
  BY <1>1 DEF Listed, Whole, Loading, Live
<1>3. ASSUME NEW p \in Pairs
      PROVE  PairInv(p)
  <2>1. Free(queue, p) /\ One(queue, p) /\ p \notin Coming /\ RowRight(p)
    BY <1>1 DEF Free, One, Coming, RowRight
  <2>2. Stored(storage, p) = NewConfig /\ Stored(model, p) = NewConfig
    BY <1>1, NothingTyped DEF Stored
  <2>3. Right(p, NewConfig)
    BY <1>1, <2>1, <2>2 DEF Right, Counts, NewConfig
  <2>4. QED
    BY <2>1, <2>3, NewConfigTyped DEF PairInv
<1>4. QED
  BY <1>2, <1>3 DEF Travels

(* In a calm environment the invariant holds always.                       *)
LEMMA CalmHolds ==
  ASSUME Calm
  PROVE  Spec => []CalmInv
<1>1. Spec => []TypeInv
  BY TypesCorrect
<1>2. TypeInv /\ Travels /\ [Next]_vars => Travels'
  BY CalmStep DEF CalmInv
<1>3. CalmInv <=> TypeInv /\ Travels
  BY DEF CalmInv
<1>4. QED
  BY <1>1, <1>2, <1>3, CalmStart, PTL DEF Spec

(* What the storage has once everything is delivered.                      *)
LEMMA SettledIs ==
  ASSUME CalmInv, Settled, loaded, NEW p \in Pairs
  PROVE  /\ p \in wanted <=> Stored(storage, p).tradable
         /\ p \in wanted => Stored(storage, p).steps = progress[p]
<1>1. DOMAIN queue = {} /\ Coming = {}
  BY DEF Settled, Coming
<1>2. Updated = {}
  BY <1>1 DEF Updated, ToSet
<1>3. QED
  BY <1>1, <1>2, AtRest

(* What the user has put into trade is traded: through closings, crashes,  *)
(* starts and loads, the steps of Hanukkah and the trends that the         *)
(* TrendSearcher finds.                                                    *)
THEOREM WantedTradedHolds ==
  ASSUME Calm
  PROVE  Spec => []WantedTraded
<1>1. CalmInv => WantedTraded
  <2>1. SUFFICES ASSUME CalmInv, Settled, loaded, NEW p \in wanted
                 PROVE  p \in TradingPairs(storage)
    BY DEF WantedTraded
  <2>2. p \in Pairs
    BY <2>1 DEF CalmInv, TypeInv, TypeOK
  <2>3. Stored(storage, p).tradable
    BY <2>1, <2>2, SettledIs
  <2>4. QED
    BY <2>3 DEF Stored, NewConfig, TradingPairs
<1>2. QED
  BY <1>1, CalmHolds, PTL

(* What the user has stopped is not traded again: no late configuration,   *)
(* row or load brings it back.                                             *)
THEOREM RemovedStaysOutHolds ==
  ASSUME Calm
  PROVE  Spec => []RemovedStaysOut
<1>1. CalmInv => RemovedStaysOut
  <2>1. SUFFICES ASSUME CalmInv, Settled, loaded, NEW p \in TradingPairs(storage)
                 PROVE  p \in wanted
    BY DEF RemovedStaysOut
  <2>2. p \in Pairs /\ Stored(storage, p).tradable
    BY <2>1, TradedTyped DEF CalmInv, TypeInv, TradingPairs, Stored
  <2>3. QED
    BY <2>1, <2>2, SettledIs
<1>2. QED
  BY <1>1, CalmHolds, PTL

(* The cycle of a pair that is traded is where it was left, after any      *)
(* number of crashes and starts (updateMarketMetaConfig, saveState).       *)
THEOREM StepsKeptHolds ==
  ASSUME Calm
  PROVE  Spec => []StepsKept
<1>1. CalmInv => StepsKept
  <2>1. SUFFICES ASSUME CalmInv, Settled, loaded, NEW p \in wanted, p \in DOMAIN storage
                 PROVE  storage[p].config.steps = progress[p]
    BY DEF StepsKept
  <2>2. p \in Pairs
    BY <2>1 DEF CalmInv, TypeInv, TypeOK
  <2>3. QED
    BY <2>1, <2>2, SettledIs DEF Stored
<1>2. QED
  BY <1>1, CalmHolds, PTL
=============================================================================
