----------------------------- MODULE MCOrderFlow -----------------------------
(***************************************************************************)
(* OrderFlow for TLC.  The pairs and the quotes are sets of model values   *)
(* which no definition tells apart, hence the symmetry; it is left out of  *)
(* the run that checks a liveness property.                                *)
(***************************************************************************)
EXTENDS OrderFlow, TLC

Symmetry == Permutations(Markets) \cup Permutations(Quotes)
=============================================================================
