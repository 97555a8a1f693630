--------------------------- MODULE TradeContract ---------------------------
(***************************************************************************)
(* What trading promises two players, without windows, locks or trade      *)
(* objects.  A player has a peer, puts goods up, and may agree once; when  *)
(* the second of the two agrees the offers change hands in one step, and   *)
(* any other way out gives every offer back to who made it.                *)
(***************************************************************************)
EXTENDS Integers

CONSTANTS Char, Item, NoChar, Amounts, Tax(_), StartHold, StartCoins

VARIABLES
    peer,    \* whom a player is trading with, NoChar for nobody
    hold,    \* what a player has in hand
    coins,
    offer,   \* what a player has put up
    stake,
    agreed   \* the players who have agreed

vars == <<peer, hold, coins, offer, stake, agreed>>

Init ==
    /\ peer = [c \in Char |-> NoChar]
    /\ hold = StartHold
    /\ coins = StartCoins
    /\ offer = [c \in Char |-> {}]
    /\ stake = [c \in Char |-> 0]
    /\ agreed = {}

\* Two players who trade with nobody begin.
Meet(c, d) ==
    /\ c # d
    /\ peer[c] = NoChar
    /\ peer[d] = NoChar
    /\ peer' = [peer EXCEPT ![c] = d, ![d] = c]
    /\ UNCHANGED <<hold, coins, offer, stake, agreed>>

\* Only who has a peer and has not agreed may put something up.
PutUp(c, i) ==
    /\ peer[c] # NoChar
    /\ c \notin agreed
    /\ i \in hold[c]
    /\ hold' = [hold EXCEPT ![c] = @ \ {i}]
    /\ offer' = [offer EXCEPT ![c] = @ \cup {i}]
    /\ UNCHANGED <<peer, coins, stake, agreed>>

Stake(c, m) ==
    /\ peer[c] # NoChar
    /\ c \notin agreed
    /\ coins[c] >= m
    /\ coins' = [coins EXCEPT ![c] = @ - m]
    /\ stake' = [stake EXCEPT ![c] = @ + m]
    /\ UNCHANGED <<peer, hold, offer, agreed>>

Agree(c) ==
    /\ peer[c] # NoChar
    /\ agreed' = agreed \cup {c}
    /\ UNCHANGED <<peer, hold, coins, offer, stake>>

\* Both are out of the deal and nothing of theirs is left in it.
Part(c, d) ==
    /\ peer' = [peer EXCEPT ![c] = NoChar, ![d] = NoChar]
    /\ offer' = [offer EXCEPT ![c] = {}, ![d] = {}]
    /\ stake' = [stake EXCEPT ![c] = 0, ![d] = 0]
    /\ agreed' = agreed \ {c, d}

\* The second to agree: all of both offers changes hands, less the tax.
Swap(c, d) ==
    /\ peer[c] = d
    /\ d \in agreed
    /\ c \notin agreed
    /\ hold' = [hold EXCEPT ![c] = @ \cup offer[d], ![d] = @ \cup offer[c]]
    /\ coins' = [coins EXCEPT ![c] = @ + stake[d] - Tax(stake[d]),
                              ![d] = @ + stake[c] - Tax(stake[c])]
    /\ Part(c, d)

\* Any other end: nobody gets anything but its own offer back.
Withdraw(c, d) ==
    /\ peer[c] = d
    /\ \A x \in Char :
        /\ hold[x] \subseteq hold'[x]
        /\ hold'[x] \subseteq hold[x] \cup (IF x \in {c, d} THEN offer[x] ELSE {})
        /\ \/ coins'[x] = coins[x]
           \/ x \in {c, d} /\ coins'[x] = coins[x] + stake[x]
    /\ Part(c, d)

\* Goods that come from outside
Receive(c, i) ==
    /\ \A x \in Char : i \notin hold[x] \cup offer[x]
    /\ hold' = [hold EXCEPT ![c] = @ \cup {i}]
    /\ UNCHANGED <<peer, coins, offer, stake, agreed>>

Earn(c, m) ==
    /\ coins' = [coins EXCEPT ![c] = @ + m]
    /\ UNCHANGED <<peer, hold, offer, stake, agreed>>

Next ==
    \E c \in Char :
        \/ \E d \in Char : Meet(c, d) \/ Swap(c, d) \/ Withdraw(c, d)
        \/ \E i \in Item : PutUp(c, i) \/ Receive(c, i)
        \/ \E m \in Amounts : Stake(c, m) \/ Earn(c, m)
        \/ Agree(c)

Spec == Init /\ [][Next]_vars
=============================================================================
