------------------------------ MODULE MCMarkets ------------------------------
(* Instances of Markets for TLC.                                           *)
EXTENDS Markets, TLC

MCOne == {1}
MCTwo == {1, 2}
MCRates == {0, -4}
MCFlat == {0}
=============================================================================
