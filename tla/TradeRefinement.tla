-------------------------- MODULE TradeRefinement --------------------------
(***************************************************************************)
(* MapleTrade implements TradeContract as long as an inviter waits for the *)
(* answer to its invitation before it invites somebody else, and nobody    *)
(* puts two one-of-a-kind stacks up, of which check() lets one be lost.    *)
(***************************************************************************)
EXTENDS MapleTrade

OneOfAKind == \A c \in Char : Cardinality(Window(c) \cap Exclusive) <= 1

\* The behaviours in which nobody with a partner invites again and no window
\* has two one-of-a-kind stacks.
SpecOneInvitation == Init /\ [][Next /\ ~ reinvited' /\ OneOfAKind']_vars

Peer(c) ==
    IF trade[c] = NoTrade \/ partner[trade[c]] = NoTrade
    THEN NoChar
    ELSE chr[partner[trade[c]]]

Contract == INSTANCE TradeContract WITH
    StartHold <- StartBag,
    StartCoins <- StartPurse,
    peer <- [c \in Char |-> Peer(c)],
    hold <- bag,
    coins <- purse,
    offer <- [c \in Char |-> Window(c)],
    stake <- [c \in Char |-> IF trade[c] = NoTrade THEN 0 ELSE meso[trade[c]]],
    agreed <- {c \in Char : trade[c] # NoTrade /\ locked[trade[c]]}

\* Every step of the trading code is a step of the contract or changes
\* nothing the contract speaks of.
ContractSpec == Contract!Spec
=============================================================================
