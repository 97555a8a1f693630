------------------------- MODULE MCTradeRefinement -------------------------
(* The instance of TradeRefinement for TLC. *)
EXTENDS TradeRefinement, TLC

CONSTANTS a, b, e, i1, i2, i3

MCStartBag == [c \in Char |-> CASE c = a -> {i1} [] c = b -> {i2} [] OTHER -> {}]
MCStartPurse == [c \in Char |-> IF c = a THEN 2 ELSE 0]
MCTax(m) == IF m >= 2 THEN 1 ELSE 0
MCSymmetry == Permutations(Trade)
=============================================================================
