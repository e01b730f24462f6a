----------------------------- MODULE MCHanukkah -----------------------------
(* Instances of Hanukkah for TLC: a table of two steps after step 0, with  *)
(* the drops and rebounds of the README of the program.                    *)
EXTENDS Hanukkah, TLC

MCDecline2 == <<3, 6>>
MCGrowth2 == <<2, 3>>

(* No drop, below the drop of step 1 and the rebound of step 2, at the     *)
(* drop of step 2.                                                         *)
MCRates == {0, -4, -6}
=============================================================================
