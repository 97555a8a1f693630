------------------------------ MODULE MCTrade ------------------------------
(* Instances of MapleTrade for TLC: the cfg files choose who starts rich. *)
EXTENDS MapleTrade, TLC

CONSTANTS a, b, e, i1, i2, i3, i4

MCPurses == [c \in Char |-> IF c = a THEN 2 ELSE 1]

\* a and e own a stack each, a and b some meso
MCBagOfEach == [c \in Char |-> CASE c = a -> {i1} [] c = e -> {i2} [] OTHER -> {}]
MCNoMeso == [c \in Char |-> 0]

\* the tax starts at a threshold
MCTax(m) == IF m >= 2 THEN 1 ELSE 0

MCSymmetry == Permutations(Trade)
=============================================================================
