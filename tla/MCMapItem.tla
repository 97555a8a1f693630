----------------------------- MODULE MCMapItem -----------------------------
(* Instances of MapleMapItem for TLC. *)
EXTENDS MapleMapItem

CONSTANTS a, b, e, m1, m2

\* e outside the others' party, or in one of its own
MCOneOutside == [c \in Char |-> IF c = e THEN {} ELSE Char \ {e}]
MCOneAlone == [c \in Char |-> IF c = e THEN {e} ELSE Char \ {e}]
MCAllHere == [c \in Char |-> m1]
=============================================================================
