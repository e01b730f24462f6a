----------------------------- MODULE TradingCycle -----------------------------
(***************************************************************************)
(* What the Hanukkah algorithm promises of one pair, whatever the order in *)
(* which timers, reports and updates of the configuration come.            *)
(*                                                                         *)
(* A cycle starts with a purchase at step 0.  The bot then works with the  *)
(* steps of the table from the first to the last: it may pass over a step, *)
(* it never goes back to one, and at each step it adds to the position at  *)
(* most once.  Only when the whole position is sold does it start again.   *)
(***************************************************************************)
EXTENDS Integers

CONSTANTS
  Last,        (* the last step of the table                              *)
  MaxBuys      (* how many purchases a cycle may have                     *)

VARIABLES
  working,     (* the step the bot works with                             *)
  bought,      (* how many purchases the cycle has                        *)
  latest       (* the step of the latest of them                          *)

cycleVars == <<working, bought, latest>>

CycleTypeOK ==
  /\ working \in 0 .. Last
  /\ bought \in 0 .. MaxBuys
  /\ latest \in 0 .. Last

CycleInit == working = 0 /\ bought = 0 /\ latest = 0

(* The first purchase is made at step 0, another one for a later step than *)
(* the one before, but none that the bot has not come to.                  *)
Purchase ==
  /\ bought < MaxBuys
  /\ bought' = bought + 1
  /\ IF bought = 0 THEN latest' = 0 ELSE latest' \in latest + 1 .. working
  /\ UNCHANGED working

(* The price fell: on to the next step.                                    *)
Advance ==
  /\ bought > 0
  /\ working < Last
  /\ working' = working + 1
  /\ UNCHANGED <<bought, latest>>

Sold ==
  /\ bought > 0
  /\ bought' = 0 /\ latest' = 0
  /\ UNCHANGED working

Restart ==
  /\ bought = 0
  /\ working' = 0
  /\ UNCHANGED <<bought, latest>>

CycleNext == Purchase \/ Advance \/ Sold \/ Restart

CycleSpec == CycleInit /\ [][CycleNext]_cycleVars
=============================================================================
