------------------------------- MODULE Account --------------------------------
(***************************************************************************)
(* What an exchange promises of the money of one account: a purchase pays  *)
(* and receives at once, an offer locks what it offers and nothing else,   *)
(* and what is locked comes back or is paid for, whole.                    *)
(***************************************************************************)
EXTENDS Integers

CONSTANTS
  Pairs,       (* the pairs, each trades a coin for a base currency       *)
  Coin, Base,  (* the currencies of a pair                                *)
  Money,       (* the currencies of the account                           *)
  Ids,         (* what offers are told apart by                           *)
  Volumes,     (* bound: the volumes of orders                            *)
  Prices       (* bound: their prices                                     *)

VARIABLES
  free,        (* what may be spent of a currency                         *)
  locked,      (* what the offers of a currency hold                      *)
  offers       (* pair, volume and base volume of each offer              *)

accountVars == <<free, locked, offers>>

AccountInit ==
  /\ free \in [Money -> Int]
  /\ locked = [c \in Money |-> 0]
  /\ offers = {}

Pay(p, volume, base) ==
  /\ free' = [free EXCEPT ![Coin[p]] = @ + volume, ![Base[p]] = @ - base]
  /\ UNCHANGED <<locked, offers>>

Offer(p, volume, base) ==
  /\ volume <= free[Coin[p]]
  /\ free' = [free EXCEPT ![Coin[p]] = @ - volume]
  /\ locked' = [locked EXCEPT ![Coin[p]] = @ + volume]
  /\ \E i \in Ids : offers' = offers \union
       {[id |-> i, pair |-> p, volume |-> volume, base |-> base]}

Withdraw(o) ==
  /\ free' = [free EXCEPT ![Coin[o.pair]] = @ + o.volume]
  /\ locked' = [locked EXCEPT ![Coin[o.pair]] = @ - o.volume]
  /\ offers' = offers \ {o}

Accept(o) ==
  /\ free' = [free EXCEPT ![Base[o.pair]] = @ + o.base]
  /\ locked' = [locked EXCEPT ![Coin[o.pair]] = @ - o.volume]
  /\ offers' = offers \ {o}

AccountNext ==
  \/ \E p \in Pairs, volume \in Volumes, price \in Prices :
       Pay(p, volume, price * volume) \/ Offer(p, volume, price * volume)
  \/ \E o \in offers : Withdraw(o) \/ Accept(o)

AccountSpec == AccountInit /\ [][AccountNext]_accountVars
=============================================================================
