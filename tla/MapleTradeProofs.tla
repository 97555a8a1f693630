-------------------------- MODULE MapleTradeProofs --------------------------
(***************************************************************************)
(* Theorems about MapleTrade for any number of characters, stacks and      *)
(* trade objects.                                                          *)
(***************************************************************************)
EXTENDS MapleTrade, FiniteSetTheorems, TLAPS

TypedLinks == TypeOK /\ Linked

USE DEF linkVars, windowVars, exchangeVars, goodsVars

\* A gain of meso, refused when it overflows, leaves a purse an int.
LEMMA CreditType ==
    ASSUME NEW p \in 0..MaxMeso, NEW m \in 0..MaxMeso
    PROVE  Credit(p, m) \in 0..MaxMeso
  BY TradeAssumption DEF Credit

LEMMA FillSubset ==
    ASSUME NEW b, NEW S, NEW T \in Fill(b, S)
    PROVE  T \subseteq S
  BY DEF Fill

\* Refunding the trades of two characters keeps every field in its type.
LEMMA RefundType ==
    ASSUME TypedLinks,
           NEW c \in Char, NEW d \in Char, c # d,
           NEW t \in Trade, NEW u \in Trade,
           Refund(c, t, d, u)
    PROVE  /\ bag' \in [Char -> SUBSET Item]
           /\ lost' \in SUBSET Item
           /\ purse' \in [Char -> 0..MaxMeso]
           /\ sunk' \in Int
           /\ items' \in [Trade -> SUBSET Item]
           /\ meso' \in [Trade -> 0..MaxMeso]
           /\ karma' = karma
           /\ floor' = floor
  <1>1. PICK x \in Fill(bag[c], items[t]), y \in Fill(bag[d], items[u]) :
            /\ bag' = [bag EXCEPT ![c] = @ \cup x, ![d] = @ \cup y]
            /\ lost' = lost \cup (items[t] \ x) \cup (items[u] \ y)
    BY DEF Refund
  <1>2. x \subseteq Item /\ y \subseteq Item
    BY FillSubset DEF TypedLinks, TypeOK
  <1>3. bag' \in [Char -> SUBSET Item] /\ lost' \in SUBSET Item
    BY <1>1, <1>2 DEF TypedLinks, TypeOK
  <1>4. purse' \in [Char -> 0..MaxMeso]
    BY CreditType DEF Refund, TypedLinks, TypeOK
  <1>5. sunk' \in Int
    BY <1>4, TradeAssumption DEF Refund, TypedLinks, TypeOK
  <1>6. /\ items' \in [Trade -> SUBSET Item]
        /\ meso' \in [Trade -> 0..MaxMeso]
        /\ karma' = karma
        /\ floor' = floor
    BY TradeAssumption DEF Refund, TypedLinks, TypeOK
  <1> QED BY <1>3, <1>4, <1>5, <1>6

LEMMA RefundOneType ==
    ASSUME TypedLinks, NEW c \in Char, NEW t \in Trade, RefundOne(c, t)
    PROVE  /\ bag' \in [Char -> SUBSET Item]
           /\ lost' \in SUBSET Item
           /\ purse' \in [Char -> 0..MaxMeso]
           /\ sunk' \in Int
           /\ items' \in [Trade -> SUBSET Item]
           /\ meso' \in [Trade -> 0..MaxMeso]
           /\ karma' = karma
           /\ floor' = floor
  <1>1. PICK x \in Fill(bag[c], items[t]) :
            /\ bag' = [bag EXCEPT ![c] = @ \cup x]
            /\ lost' = lost \cup (items[t] \ x)
    BY DEF RefundOne
  <1>2. x \subseteq Item
    BY FillSubset DEF TypedLinks, TypeOK
  <1>3. bag' \in [Char -> SUBSET Item] /\ lost' \in SUBSET Item
    BY <1>1, <1>2 DEF TypedLinks, TypeOK
  <1>4. purse' \in [Char -> 0..MaxMeso]
    BY CreditType DEF RefundOne, TypedLinks, TypeOK
  <1>5. sunk' \in Int
    BY <1>4, TradeAssumption DEF RefundOne, TypedLinks, TypeOK
  <1>6. /\ items' \in [Trade -> SUBSET Item]
        /\ meso' \in [Trade -> 0..MaxMeso]
        /\ karma' = karma
        /\ floor' = floor
    BY TradeAssumption DEF RefundOne, TypedLinks, TypeOK
  <1> QED BY <1>3, <1>4, <1>5, <1>6

LEMMA InitTypedLinks == Init => TypedLinks
  <1> SUFFICES ASSUME Init PROVE TypedLinks
    OBVIOUS
  <1>1. /\ floor \subseteq Item
        /\ karma \subseteq Item
        /\ bag \in [Char -> SUBSET Item]
        /\ purse \in [Char -> 0..MaxMeso]
        /\ 0 \in 0..MaxMeso
    BY TradeAssumption DEF Init
  <1>2. /\ trade \in [Char -> Trade \cup {NoTrade}]
        /\ chr \in [Trade -> Char \cup {NoChar}]
        /\ partner \in [Trade -> Trade \cup {NoTrade}]
        /\ locked \in [Trade -> BOOLEAN]
        /\ inTrade \in [Trade -> BOOLEAN]
    BY DEF Init
  <1>3. /\ items \in [Trade -> SUBSET Item]
        /\ meso \in [Trade -> 0..MaxMeso]
        /\ exchangeItems \in [Trade -> SUBSET Item]
        /\ exchangeMeso \in [Trade -> 0..MaxMeso]
    BY <1>1 DEF Init
  <1>6. /\ lost \in SUBSET Item
        /\ sunk \in Int
        /\ reinvited \in BOOLEAN
    <2>1. lost = {} /\ sunk = 0
      BY DEF Init
    <2>2. reinvited \in BOOLEAN
      BY Zenon DEF Init
    <2> QED BY <2>1, <2>2
  <1>4. TypeOK
    BY <1>1, <1>2, <1>3, <1>6 DEF TypeOK
  <1>5. Linked
    BY TradeAssumption DEF Init, Linked
  <1> QED BY <1>4, <1>5 DEF TypedLinks

-----------------------------------------------------------------------------
\* What the actions need of the constants.
LEMMA ConstantFacts ==
    /\ NoTrade \notin Trade
    /\ NoChar \notin Char
    /\ MaxMeso \in Nat
    /\ \A m \in Amounts : m \in 1..MaxMeso
  BY TradeAssumption

\* A character's trade is one of its own, with its partner another's.
LEMMA InTradeFacts ==
    ASSUME TypedLinks, NEW c \in Char, trade[c] # NoTrade
    PROVE  /\ trade[c] \in Trade
           /\ chr[trade[c]] = c
           /\ partner[trade[c]] # NoTrade =>
                /\ partner[trade[c]] \in Trade
                /\ partner[trade[c]] # trade[c]
                /\ chr[partner[trade[c]]] \in Char
                /\ chr[partner[trade[c]]] # c
  BY ConstantFacts DEF TypedLinks, TypeOK, Linked

LEMMA StartTradeStep ==
    ASSUME TypedLinks, NEW c \in Char, StartTrade(c)
    PROVE  TypedLinks'
  <1>1. PICK t \in Trade :
            /\ chr[t] = NoChar
            /\ chr' = [chr EXCEPT ![t] = c]
            /\ trade' = [trade EXCEPT ![c] = t]
    BY DEF StartTrade
  <1>2. TypeOK'
    BY <1>1 DEF StartTrade, TypedLinks, TypeOK
  <1>3. Linked'
    BY <1>1, ConstantFacts DEF StartTrade, TypedLinks, TypeOK, Linked
  <1> QED BY <1>2, <1>3 DEF TypedLinks

LEMMA InviteTradeStep ==
    ASSUME TypedLinks, NEW c \in Char, NEW d \in Char, InviteTrade(c, d)
    PROVE  TypedLinks'
  <1>1. PICK t \in Trade :
            /\ chr[t] = NoChar
            /\ chr' = [chr EXCEPT ![t] = d]
            /\ trade' = [trade EXCEPT ![d] = t]
            /\ partner' = [partner EXCEPT
                  ![t] = trade[c],
                  ![trade[c]] = IF locked[trade[c]] THEN @ ELSE t]
    BY DEF InviteTrade
  <1>2. /\ trade[c] \in Trade
        /\ chr[trade[c]] = c
        /\ c # d
        /\ trade[c] # t
    BY <1>1, InTradeFacts, ConstantFacts DEF InviteTrade
  <1>3. TypeOK'
    BY <1>1, <1>2 DEF InviteTrade, TypedLinks, TypeOK
  <1>4. Linked'
    BY <1>1, <1>2, ConstantFacts DEF InviteTrade, TypedLinks, TypeOK, Linked
  <1> QED BY <1>3, <1>4 DEF TypedLinks

LEMMA SetMesoStep ==
    ASSUME TypedLinks, NEW c \in Char, NEW m \in Amounts, SetMeso(c, m)
    PROVE  TypedLinks'
  <1>1. trade[c] \in Trade /\ partner[trade[c]] # NoTrade /\ m \in 1..MaxMeso
    BY InTradeFacts, ConstantFacts DEF SetMeso, MayPutUp
  <1>2. TypeOK'
    BY <1>1, ConstantFacts DEF SetMeso, TypedLinks, TypeOK
  <1>3. Linked'
    BY <1>1, ConstantFacts DEF SetMeso, TypedLinks, TypeOK, Linked
  <1> QED BY <1>2, <1>3 DEF TypedLinks

LEMMA SetItemsStep ==
    ASSUME TypedLinks, NEW c \in Char, NEW i \in Item, SetItems(c, i)
    PROVE  TypedLinks'
  <1>1. trade[c] \in Trade /\ partner[trade[c]] # NoTrade
    BY InTradeFacts DEF SetItems, MayPutUp
  <1>2. TypeOK'
    BY <1>1 DEF SetItems, TypedLinks, TypeOK
  <1>3. Linked'
    BY <1>1, ConstantFacts DEF SetItems, TypedLinks, TypeOK, Linked
  <1> QED BY <1>2, <1>3 DEF TypedLinks

\* Leaving a trade: links only disappear, and a refunded window is empty.
LEMMA LeaveStep ==
    ASSUME TypedLinks,
           trade' \in [Char -> Trade \cup {NoTrade}],
           \A c \in Char : trade'[c] \in {trade[c], NoTrade},
           UNCHANGED <<chr, partner>>,
           locked' \in [Trade -> BOOLEAN],
           \A t \in Trade : partner[t] = NoTrade => locked'[t] = locked[t],
           \A t \in Trade : items'[t] \in {items[t], {}} /\ meso'[t] \in {meso[t], 0}
    PROVE  Linked'
  BY ConstantFacts DEF TypedLinks, TypeOK, Linked

LEMMA CancelTradeStep ==
    ASSUME TypedLinks, NEW c \in Char, CancelTrade(c)
    PROVE  TypedLinks'
  <1> DEFINE t == trade[c]
             p == partner[t]
  <1>0. UNCHANGED <<linkVars, exchangeVars>>
    BY DEF CancelTrade
  <1>1. t \in Trade
    BY InTradeFacts DEF CancelTrade
  <1>2. CASE p # NoTrade /\ Refund(c, t, chr[p], p) /\ BothLeave(c, chr[p])
    <2>1. p \in Trade /\ chr[p] \in Char /\ chr[p] # c
      BY <1>1, <1>2, InTradeFacts, ConstantFacts
    <2> HIDE DEF t, p
    <2>2. /\ bag' \in [Char -> SUBSET Item]
          /\ lost' \in SUBSET Item
          /\ purse' \in [Char -> 0..MaxMeso]
          /\ sunk' \in Int
          /\ items' \in [Trade -> SUBSET Item]
          /\ meso' \in [Trade -> 0..MaxMeso]
          /\ karma' = karma
          /\ floor' = floor
      BY <1>1, <1>2, <2>1, RefundType
    <2>3. TypeOK'
      BY <1>0, <1>2, <2>1, <2>2 DEF BothLeave, TypedLinks, TypeOK
    <2>4. Linked'
      BY <1>0, <1>1, <1>2, <2>1, <2>2, LeaveStep
         DEF BothLeave, Refund, TypedLinks, TypeOK
    <2> QED BY <2>3, <2>4 DEF TypedLinks
  <1>3. CASE RefundOne(c, t) /\ trade' = [trade EXCEPT ![c] = NoTrade]
    <2> HIDE DEF t, p
    <2>2. /\ bag' \in [Char -> SUBSET Item]
          /\ lost' \in SUBSET Item
          /\ purse' \in [Char -> 0..MaxMeso]
          /\ sunk' \in Int
          /\ items' \in [Trade -> SUBSET Item]
          /\ meso' \in [Trade -> 0..MaxMeso]
          /\ karma' = karma
          /\ floor' = floor
      BY <1>1, <1>3, RefundOneType
    <2>3. TypeOK'
      BY <1>0, <1>3, <2>2 DEF TypedLinks, TypeOK
    <2>4. Linked'
      BY <1>0, <1>1, <1>3, <2>2, LeaveStep DEF RefundOne, TypedLinks, TypeOK
    <2> QED BY <2>3, <2>4 DEF TypedLinks
  <1> QED BY <1>2, <1>3 DEF CancelTrade

LEMMA DeclineTradeStep ==
    ASSUME TypedLinks, NEW c \in Char, DeclineTrade(c)
    PROVE  TypedLinks'
  <1> DEFINE t == trade[c]
             d == chr[partner[t]]
             u == IF partner[t] = NoTrade THEN NoTrade ELSE trade[d]
  <1>0. UNCHANGED <<linkVars, exchangeVars>>
    BY DEF DeclineTrade
  <1>1. t \in Trade
    BY InTradeFacts DEF DeclineTrade
  <1>2. CASE u # NoTrade /\ Refund(c, t, d, u) /\ BothLeave(c, d)
    <2>1. u \in Trade /\ d \in Char /\ d # c /\ u = trade[d]
      BY <1>1, <1>2, InTradeFacts, ConstantFacts
    <2> HIDE DEF t, d, u
    <2>2. /\ bag' \in [Char -> SUBSET Item]
          /\ lost' \in SUBSET Item
          /\ purse' \in [Char -> 0..MaxMeso]
          /\ sunk' \in Int
          /\ items' \in [Trade -> SUBSET Item]
          /\ meso' \in [Trade -> 0..MaxMeso]
          /\ karma' = karma
          /\ floor' = floor
      BY <1>1, <1>2, <2>1, RefundType
    <2>3. TypeOK'
      BY <1>0, <1>2, <2>1, <2>2 DEF BothLeave, TypedLinks, TypeOK
    <2>4. Linked'
      BY <1>0, <1>1, <1>2, <2>1, <2>2, LeaveStep
         DEF BothLeave, Refund, TypedLinks, TypeOK
    <2> QED BY <2>3, <2>4 DEF TypedLinks
  <1>3. CASE RefundOne(c, t) /\ trade' = [trade EXCEPT ![c] = NoTrade]
    <2> HIDE DEF t, d, u
    <2>2. /\ bag' \in [Char -> SUBSET Item]
          /\ lost' \in SUBSET Item
          /\ purse' \in [Char -> 0..MaxMeso]
          /\ sunk' \in Int
          /\ items' \in [Trade -> SUBSET Item]
          /\ meso' \in [Trade -> 0..MaxMeso]
          /\ karma' = karma
          /\ floor' = floor
      BY <1>1, <1>3, RefundOneType
    <2>3. TypeOK'
      BY <1>0, <1>3, <2>2 DEF TypedLinks, TypeOK
    <2>4. Linked'
      BY <1>0, <1>1, <1>3, <2>2, LeaveStep DEF RefundOne, TypedLinks, TypeOK
    <2> QED BY <2>3, <2>4 DEF TypedLinks
  <1> QED BY <1>2, <1>3 DEF DeclineTrade

LEMMA ConfirmFirstStep ==
    ASSUME TypedLinks, NEW c \in Char, ConfirmFirst(c)
    PROVE  TypedLinks'
  <1>1. /\ trade[c] \in Trade
        /\ partner[trade[c]] \in Trade
    BY InTradeFacts, ConstantFacts DEF ConfirmFirst
  <1>2. TypeOK'
    BY <1>1 DEF ConfirmFirst, Confirmed, TypedLinks, TypeOK
  <1>3. Linked'
    BY <1>1, ConstantFacts, LeaveStep DEF ConfirmFirst, Confirmed, TypedLinks, TypeOK
  <1> QED BY <1>2, <1>3 DEF TypedLinks

\* Who accepts an exchange can be paid its meso.
LEMMA CollectType ==
    ASSUME TypedLinks,
           NEW c \in Char, NEW d \in Char, c # d,
           NEW S \in SUBSET Item, NEW T \in SUBSET Item,
           NEW m \in 0..MaxMeso, NEW n \in 0..MaxMeso,
           Accepts(c, S, m), Accepts(d, T, n),
           Collect(c, S, m, d, T, n)
    PROVE  /\ bag' \in [Char -> SUBSET Item]
           /\ lost' \in SUBSET Item
           /\ purse' \in [Char -> 0..MaxMeso]
           /\ sunk' \in Int
           /\ karma' \in SUBSET Item
           /\ floor' \in SUBSET Item
  <1>1. PICK x \in Fill(bag[c], S), y \in Fill(bag[d], T) :
            /\ bag' = [bag EXCEPT ![c] = @ \cup x, ![d] = @ \cup y]
            /\ lost' = lost \cup (S \ x) \cup (T \ y)
    BY DEF Collect
  <1>2. x \subseteq Item /\ y \subseteq Item
    BY FillSubset
  <1>3. bag' \in [Char -> SUBSET Item] /\ lost' \in SUBSET Item
    BY <1>1, <1>2 DEF TypedLinks, TypeOK
  <1>4. Tax(m) \in 0..m /\ Tax(n) \in 0..n
    BY TradeAssumption
  <1>5. /\ purse[c] + m - Tax(m) \in 0..MaxMeso
        /\ purse[d] + n - Tax(n) \in 0..MaxMeso
    BY <1>4, ConstantFacts DEF Accepts, TypedLinks, TypeOK
  <1>6. purse' \in [Char -> 0..MaxMeso]
    BY <1>5 DEF Collect, TypedLinks, TypeOK
  <1>7. sunk' \in Int
    BY <1>4, ConstantFacts DEF Collect, TypedLinks, TypeOK
  <1>8. karma' \in SUBSET Item /\ floor' \in SUBSET Item
    BY DEF Collect, TypedLinks, TypeOK
  <1> QED BY <1>3, <1>6, <1>7, <1>8

LEMMA ConfirmSecondStep ==
    ASSUME TypedLinks, NEW c \in Char, ConfirmSecond(c)
    PROVE  TypedLinks'
  <1> DEFINE t == trade[c]
             p == partner[t]
             d == chr[p]
  <1>1. /\ t \in Trade
        /\ p \in Trade
        /\ d \in Char
        /\ c # d
        /\ partner[t] # NoTrade
    BY InTradeFacts, ConstantFacts DEF ConfirmSecond
  <1>2. Confirmed(t, p) /\ BothLeave(c, d)
    BY DEF ConfirmSecond
  <1>3. CASE /\ Accepts(c, exchangeItems[t], exchangeMeso[t])
             /\ Accepts(d, items[t], meso[t])
             /\ Collect(c, exchangeItems[t], exchangeMeso[t],
                        d, items[t], meso[t])
             /\ exchangeItems' = [exchangeItems EXCEPT ![t] = {}, ![p] = {}]
             /\ exchangeMeso' = [exchangeMeso EXCEPT ![t] = 0, ![p] = 0]
             /\ UNCHANGED windowVars
    <2> HIDE DEF t, p, d
    <2>1. /\ items[t] \in SUBSET Item
          /\ exchangeItems[t] \in SUBSET Item
          /\ meso[t] \in 0..MaxMeso
          /\ exchangeMeso[t] \in 0..MaxMeso
      BY <1>1 DEF TypedLinks, TypeOK
    <2>2. /\ bag' \in [Char -> SUBSET Item]
          /\ lost' \in SUBSET Item
          /\ purse' \in [Char -> 0..MaxMeso]
          /\ sunk' \in Int
          /\ karma' \in SUBSET Item
          /\ floor' \in SUBSET Item
      BY <1>1, <1>3, <2>1, CollectType
    <2>5. /\ exchangeItems' \in [Trade -> SUBSET Item]
          /\ exchangeMeso' \in [Trade -> 0..MaxMeso]
          /\ items' \in [Trade -> SUBSET Item]
          /\ meso' \in [Trade -> 0..MaxMeso]
      BY <1>1, <1>3, ConstantFacts DEF TypedLinks, TypeOK
    <2>6. /\ trade' \in [Char -> Trade \cup {NoTrade}]
          /\ chr' \in [Trade -> Char \cup {NoChar}]
          /\ partner' \in [Trade -> Trade \cup {NoTrade}]
          /\ locked' \in [Trade -> BOOLEAN]
          /\ inTrade' \in [Trade -> BOOLEAN]
          /\ reinvited' \in BOOLEAN
      BY <1>1, <1>2 DEF Confirmed, BothLeave, TypedLinks, TypeOK
    <2>3. TypeOK'
      BY <2>2, <2>5, <2>6 DEF TypeOK
    <2>4. Linked'
      BY <1>1, <1>2, <1>3, LeaveStep, ConstantFacts
         DEF Confirmed, BothLeave, TypedLinks, TypeOK
    <2> QED BY <2>3, <2>4 DEF TypedLinks
  <1>4. CASE /\ Refund(c, t, d, p)
             /\ exchangeItems' = [exchangeItems EXCEPT ![p] = items[t]]
             /\ exchangeMeso' = [exchangeMeso EXCEPT ![p] = meso[t]]
    <2> HIDE DEF t, p, d
    <2>2. /\ bag' \in [Char -> SUBSET Item]
          /\ lost' \in SUBSET Item
          /\ purse' \in [Char -> 0..MaxMeso]
          /\ sunk' \in Int
          /\ items' \in [Trade -> SUBSET Item]
          /\ meso' \in [Trade -> 0..MaxMeso]
          /\ karma' = karma
          /\ floor' = floor
      BY <1>1, <1>4, RefundType
    <2>3. TypeOK'
      BY <1>1, <1>2, <1>4, <2>2 DEF Confirmed, BothLeave, TypedLinks, TypeOK
    <2>4. /\ trade' \in [Char -> Trade \cup {NoTrade}]
          /\ \A x \in Char : trade'[x] \in {trade[x], NoTrade}
          /\ UNCHANGED <<chr, partner>>
      BY <1>1, <1>2 DEF Confirmed, BothLeave, TypedLinks, TypeOK
    <2>5. /\ locked' \in [Trade -> BOOLEAN]
          /\ \A x \in Trade : partner[x] = NoTrade => locked'[x] = locked[x]
      BY <1>1, <1>2 DEF Confirmed, TypedLinks, TypeOK
    <2>6. \A x \in Trade :
             items'[x] \in {items[x], {}} /\ meso'[x] \in {meso[x], 0}
      BY <1>1, <1>4 DEF Refund, TypedLinks, TypeOK
    <2>7. Linked'
      BY <2>4, <2>5, <2>6, LeaveStep
    <2> QED BY <2>3, <2>7 DEF TypedLinks
  <1> QED BY <1>3, <1>4 DEF ConfirmSecond

LEMMA ReceiveStep ==
    ASSUME TypedLinks, NEW c \in Char,
           \/ \E i \in Item : ReceiveItem(c, i)
           \/ \E m \in Amounts : ReceiveMeso(c, m)
    PROVE  TypedLinks'
  <1>1. TypeOK'
    <2>1. ASSUME NEW i \in Item, ReceiveItem(c, i) PROVE TypeOK'
      BY <2>1 DEF ReceiveItem, TypedLinks, TypeOK
    <2>2. ASSUME NEW m \in Amounts, ReceiveMeso(c, m) PROVE TypeOK'
      BY <2>2, ConstantFacts DEF ReceiveMeso, TypedLinks, TypeOK
    <2> QED BY <2>1, <2>2
  <1>2. Linked'
    BY DEF ReceiveItem, ReceiveMeso, TypedLinks, Linked
  <1> QED BY <1>1, <1>2 DEF TypedLinks

LEMMA NextTypedLinks == TypedLinks /\ [Next]_vars => TypedLinks'
  <1> SUFFICES ASSUME TypedLinks, [Next]_vars PROVE TypedLinks'
    OBVIOUS
  <1>1. CASE UNCHANGED vars
    BY <1>1 DEF vars, TypedLinks, TypeOK, Linked
  <1>2. ASSUME NEW c \in Char, VisitTrade(c) PROVE TypedLinks'
    BY <1>2, InTradeFacts DEF VisitTrade, TypedLinks, TypeOK, Linked
  <1> QED
    BY <1>1, <1>2, StartTradeStep, InviteTradeStep, SetMesoStep, SetItemsStep,
       ConfirmFirstStep, ConfirmSecondStep, CancelTradeStep, DeclineTradeStep,
       ReceiveStep DEF Next

\* Every field keeps its type, whatever the players do: meso stays within an
\* int, and no trade is its own character's partner (MapleTrade.java).
THEOREM TypeCorrect == Spec => []TypeOK
  <1>1. TypedLinks => TypeOK
    BY DEF TypedLinks
  <1> QED BY <1>1, InitTypedLinks, NextTypedLinks, PTL DEF Spec

\* Both ends of a link always belong to two different characters, also when
\* an inviter invites again (inviteTrade, setPartner).
THEOREM LinksSound == Spec => []Linked
  <1>1. TypedLinks => Linked
    BY DEF TypedLinks
  <1> QED BY <1>1, InitTypedLinks, NextTypedLinks, PTL DEF Spec

-----------------------------------------------------------------------------
(***************************************************************************)
(* Who holds what.  The invariant that carries SoleHolder through an       *)
(* exchange says who is paired with whom and what was confirmed: an        *)
(* exchange hands out exchangeItems, which is the partner's window only    *)
(* because the pair is mutual and a confirmed window does not change.      *)
(***************************************************************************)
TradeInv == TypedLinks /\ Paired /\ AgreedOffer /\ SoleHolder

\* A trade is live when its own character sits in it.
LEMMA LiveTrade ==
    ASSUME TypedLinks, NEW t \in Trade
    PROVE  /\ t \in Live => chr[t] \in Char /\ trade[chr[t]] = t
           /\ \A c \in Char : trade[c] = t => t \in Live
  BY ConstantFacts DEF TypedLinks, TypeOK, Linked, Live

\* Under the invariant a live trade with a partner is one end of a pair.
LEMMA PairFacts ==
    ASSUME TradeInv, ~ reinvited, NEW c \in Char,
           trade[c] # NoTrade, partner[trade[c]] # NoTrade
    PROVE  LET t == trade[c]
               p == partner[t]
               d == chr[p]
           IN  /\ t \in Trade /\ p \in Trade /\ d \in Char
               /\ c # d /\ t # p
               /\ trade[d] = p /\ partner[p] = t /\ chr[t] = c
  <1> DEFINE t == trade[c]
             p == partner[t]
  <1>1. t \in Trade /\ p \in Trade /\ chr[p] \in Char /\ chr[p] # c /\ chr[t] = c /\ t # p
    BY InTradeFacts DEF TradeInv
  <1>2. t \in Live
    BY <1>1, LiveTrade DEF TradeInv
  <1>3. p \in Live /\ partner[p] = t
    BY <1>1, <1>2 DEF TradeInv, Paired
  <1>4. trade[chr[p]] = p
    BY <1>1, <1>3, LiveTrade DEF TradeInv
  <1> QED BY <1>1, <1>3, <1>4

\* Two characters who are each other's partner leave together.
LEMMA PairLeaves ==
    ASSUME TradeInv, ~ reinvited, NEW c \in Char,
           trade[c] # NoTrade, partner[trade[c]] # NoTrade,
           BothLeave(c, chr[partner[trade[c]]]),
           UNCHANGED <<chr, partner>>
    PROVE  \A u \in Trade : u \in Live' =>
               /\ u \in Live
               /\ u # trade[c] /\ u # partner[trade[c]]
               /\ partner[u] # NoTrade =>
                    /\ partner[u] \in Live'
                    /\ partner[u] # trade[c] /\ partner[u] # partner[trade[c]]
  <1> DEFINE t == trade[c]
             p == partner[t]
             d == chr[p]
  <1>1. /\ t \in Trade /\ p \in Trade /\ d \in Char
        /\ c # d /\ t # p
        /\ trade[d] = p /\ partner[p] = t /\ chr[t] = c
        /\ trade[c] = t /\ chr[p] = d /\ partner[t] = p
    BY PairFacts
  <1>2. trade' = [trade EXCEPT ![c] = NoTrade, ![d] = NoTrade]
    BY DEF BothLeave
  <1> HIDE DEF t, p, d
  <1> SUFFICES ASSUME NEW u \in Trade, u \in Live'
               PROVE  /\ u \in Live /\ u # t /\ u # p
                      /\ partner[u] # NoTrade =>
                           partner[u] \in Live' /\ partner[u] # t /\ partner[u] # p
    BY DEF t, p
  <1>3. PICK x \in Char : trade'[x] = u
    BY DEF Live
  <1>4. trade[x] = u /\ x # c /\ x # d /\ u # NoTrade
    BY <1>1, <1>2, <1>3, ConstantFacts DEF TradeInv, TypedLinks, TypeOK
  <1>5. chr[u] = x
    BY <1>4, InTradeFacts DEF TradeInv
  <1>6. u \in Live /\ u # t /\ u # p
    BY <1>1, <1>4, <1>5, LiveTrade DEF TradeInv
  <1>7. ASSUME partner[u] # NoTrade
        PROVE  partner[u] \in Live' /\ partner[u] # t /\ partner[u] # p
    <2> DEFINE q == partner[u]
               y == chr[q]
    <2>1. q \in Trade /\ y \in Char /\ trade[y] = q /\ partner[q] = u
      BY <1>4, <1>7, PairFacts
    <2>2. q # t /\ q # p
      BY <1>1, <1>6, <2>1
    <2>3. y # c /\ y # d
      BY <1>1, <2>1, <2>2
    <2>4. trade'[y] = q
      BY <1>2, <2>1, <2>3 DEF TradeInv, TypedLinks, TypeOK
    <2>5. q \in Live'
      BY <2>1, <2>4 DEF Live
    <2> QED BY <2>2, <2>5
  <1> QED BY <1>6, <1>7

\* Two characters part with what was in their windows: X goes to c, Y to d
\* and Z is lost, and everything else stays where it was.
Redistributed(c, d, X, Y, Z) ==
    /\ c # d
    /\ X \cup Y \cup Z = Window(c) \cup Window(d)
    /\ X \cap Y = {} /\ X \cap Z = {} /\ Y \cap Z = {}
    /\ bag' = [bag EXCEPT ![c] = @ \cup X, ![d] = @ \cup Y]
    /\ lost' = lost \cup Z
    /\ floor' = floor
    /\ Window(c)' = {} /\ Window(d)' = {}
    /\ \A x \in Char \ {c, d} : Window(x)' = Window(x)

LEMMA Redistribute ==
    ASSUME TypedLinks, \A i \in Item : OneHolder(i),
           NEW c \in Char, NEW d \in Char,
           NEW X \in SUBSET Item, NEW Y \in SUBSET Item, NEW Z \in SUBSET Item,
           Redistributed(c, d, X, Y, Z)
    PROVE  \A i \in Item : OneHolder(i)'
  <1> USE DEF Redistributed
  <1> SUFFICES ASSUME NEW i \in Item PROVE OneHolder(i)'
    OBVIOUS
  <1>1. /\ bag'[c] = bag[c] \cup X
        /\ bag'[d] = bag[d] \cup Y
        /\ \A x \in Char \ {c, d} : bag'[x] = bag[x]
    BY DEF TypedLinks, TypeOK
  <1>2. OneHolder(i)
    OBVIOUS
  <1>3. CASE i \in Window(c) \cup Window(d)
    <2>1. /\ i \notin floor \cup lost
          /\ i \notin bag[c] /\ i \notin bag[d]
          /\ \A x \in Char \ {c, d} : i \notin bag[x] \cup Window(x)
      BY <1>2, <1>3 DEF OneHolder
    <2>2. CASE i \in X
      <3>1. i \notin Y /\ i \notin Z
        BY <2>2
      <3>2. /\ i \in bag'[c] \cup Window(c)' /\ i \notin Window(c)'
            /\ \A x \in Char \ {c} : i \notin bag'[x] \cup Window(x)'
            /\ i \notin floor' \cup lost'
        BY <1>1, <2>1, <2>2, <3>1
      <3> QED BY <3>2 DEF OneHolder
    <2>3. CASE i \in Y
      <3>1. i \notin X /\ i \notin Z
        BY <2>3
      <3>2. /\ i \in bag'[d] \cup Window(d)' /\ i \notin Window(d)'
            /\ \A x \in Char \ {d} : i \notin bag'[x] \cup Window(x)'
            /\ i \notin floor' \cup lost'
        BY <1>1, <2>1, <2>3, <3>1
      <3> QED BY <3>2 DEF OneHolder
    <2>4. CASE i \in Z
      <3>1. i \notin X /\ i \notin Y
        BY <2>4
      <3>2. /\ i \in lost' /\ i \notin floor'
            /\ \A x \in Char : i \notin bag'[x] \cup Window(x)'
        BY <1>1, <2>1, <2>4, <3>1
      <3> QED BY <3>2 DEF OneHolder
    <2> QED BY <1>3, <2>2, <2>3, <2>4
  <1>4. CASE i \notin Window(c) \cup Window(d)
    <2>1. i \notin X /\ i \notin Y /\ i \notin Z
      BY <1>4
    <2>2. \A x \in Char : i \in bag'[x] \cup Window(x)' <=> i \in bag[x] \cup Window(x)
      BY <1>1, <1>4, <2>1
    <2>3. \A x \in Char : i \in Window(x)' => i \in Window(x)
      BY <1>4
    <2>4. \A x \in Char : i \in bag'[x] <=> i \in bag[x]
      BY <1>1, <2>1
    <2> QED BY <1>2, <2>1, <2>2, <2>3, <2>4 DEF OneHolder
  <1> QED BY <1>3, <1>4

\* The pairs and the confirmed windows that two leaving partners leave behind
\* are as before.
LEMMA PairLeavesOthers ==
    ASSUME TradeInv, ~ reinvited, NEW c \in Char,
           trade[c] # NoTrade, partner[trade[c]] # NoTrade,
           BothLeave(c, chr[partner[trade[c]]]),
           UNCHANGED <<chr, partner>>,
           \A u \in Trade \ {trade[c], partner[trade[c]]} :
               /\ locked'[u] = locked[u]
               /\ items'[u] = items[u] /\ meso'[u] = meso[u]
               /\ exchangeItems'[u] = exchangeItems[u]
               /\ exchangeMeso'[u] = exchangeMeso[u]
    PROVE  Paired' /\ AgreedOffer'
  <1>1. \A u \in Trade : u \in Live' =>
            /\ u \in Live
            /\ u # trade[c] /\ u # partner[trade[c]]
            /\ partner[u] # NoTrade =>
                 /\ partner[u] \in Live'
                 /\ partner[u] # trade[c] /\ partner[u] # partner[trade[c]]
    BY PairLeaves
  <1>2. \A u \in Live' : u \in Trade
    BY DEF Live
  <1>3. Paired'
    BY <1>1, <1>2 DEF TradeInv, Paired
  <1>4. ASSUME NEW u \in Live', locked'[u]
        PROVE  /\ ~ locked'[partner'[u]]
               /\ exchangeItems'[partner'[u]] = items'[u]
               /\ exchangeMeso'[partner'[u]] = meso'[u]
    <2>1. u \in Trade /\ u \in Live /\ u # trade[c] /\ u # partner[trade[c]]
      BY <1>1, <1>2
    <2>2. locked[u] /\ items'[u] = items[u] /\ meso'[u] = meso[u]
      BY <1>4, <2>1
    <2>3. partner[u] # NoTrade
      BY <2>1, <2>2 DEF TradeInv, TypedLinks, Linked
    <2>4. /\ partner[u] \in Trade
          /\ partner[u] # trade[c] /\ partner[u] # partner[trade[c]]
      BY <1>1, <1>2, <1>4, <2>1, <2>3
    <2>5. /\ ~ locked[partner[u]]
          /\ exchangeItems[partner[u]] = items[u]
          /\ exchangeMeso[partner[u]] = meso[u]
      BY <2>1, <2>2 DEF TradeInv, AgreedOffer
    <2> QED BY <2>2, <2>4, <2>5
  <1> QED BY <1>3, <1>4 DEF AgreedOffer

\* Two paired characters leave with a redistribution of their two windows.
Splits(S, X, Y, Z) ==
    /\ X \cup Y \cup Z = S
    /\ X \cap Y = {} /\ X \cap Z = {} /\ Y \cap Z = {}

Handed(c, d, X, Y, Z) ==
    /\ bag' = [bag EXCEPT ![c] = @ \cup X, ![d] = @ \cup Y]
    /\ lost' = lost \cup Z
    /\ floor' = floor

LEMMA PairRedistributes ==
    ASSUME TradeInv, ~ reinvited,
           NEW c \in Char, NEW d \in Char, NEW t, NEW p,
           t = trade[c], t # NoTrade, p = partner[t], p # NoTrade, d = chr[p],
           BothLeave(c, d),
           NEW X \in SUBSET Item, NEW Y \in SUBSET Item, NEW Z \in SUBSET Item,
           Splits(items[t] \cup items[p], X, Y, Z),
           Handed(c, d, X, Y, Z),
           \A u \in Trade \ {t, p} : items'[u] = items[u]
    PROVE  SoleHolder'
  <1>1. /\ t \in Trade /\ p \in Trade
        /\ c # d /\ t # p
        /\ trade[d] = p
    BY PairFacts
  <1>2. /\ trade'[c] = NoTrade /\ trade'[d] = NoTrade
        /\ \A x \in Char \ {c, d} : trade'[x] = trade[x]
    BY <1>1 DEF BothLeave, TradeInv, TypedLinks, TypeOK
  <1>3. \A x \in Char \ {c, d} : trade[x] # t /\ trade[x] # p
    BY <1>1, InTradeFacts, ConstantFacts DEF TradeInv
  <1>4. /\ Window(c) = items[t] /\ Window(d) = items[p]
        /\ Window(c)' = {} /\ Window(d)' = {}
    BY <1>1, <1>2, ConstantFacts DEF Window
  <1>5. \A x \in Char \ {c, d} : Window(x)' = Window(x)
    BY <1>2, <1>3 DEF Window, TradeInv, TypedLinks, TypeOK
  <1>6. \A i \in Item : OneHolder(i)
    BY DEF TradeInv, SoleHolder
  <1>7. TypedLinks
    BY DEF TradeInv
  <1>9. Redistributed(c, d, X, Y, Z)
    BY <1>1, <1>4, <1>5 DEF Redistributed, Splits, Handed
  <1>10. \A i \in Item : OneHolder(i)'
    BY <1>6, <1>7, <1>9, Redistribute
  <1> QED BY <1>10 DEF SoleHolder

\* The two windows of a pair share nothing.
LEMMA PairWindows ==
    ASSUME TradeInv, ~ reinvited, NEW c \in Char,
           trade[c] # NoTrade, partner[trade[c]] # NoTrade
    PROVE  items[trade[c]] \cap items[partner[trade[c]]] = {}
  <1>1. PICK d \in Char : d # c /\ trade[d] = partner[trade[c]]
    BY PairFacts
  <1>2. Window(c) = items[trade[c]] /\ Window(d) = items[partner[trade[c]]]
    BY <1>1 DEF Window
  <1>3. ASSUME NEW i \in Window(c), i \in Window(d) PROVE FALSE
    <2>1. i \in Item
      BY <1>2, <1>3, InTradeFacts DEF TradeInv, TypedLinks, TypeOK
    <2>2. OneHolder(i)
      BY <2>1 DEF TradeInv, SoleHolder
    <2> QED BY <1>1, <1>3, <2>2 DEF OneHolder
  <1> QED BY <1>2, <1>3

\* A refund of both windows of a pair: by cancelTrade, declineTrade, or a
\* completeTrade that could not be carried out.
LEMMA PairRefund ==
    ASSUME TradeInv, ~ reinvited,
           NEW c \in Char, NEW d \in Char, NEW t, NEW p,
           t = trade[c], t # NoTrade, p = partner[t], p # NoTrade, d = chr[p],
           BothLeave(c, d), Refund(c, t, d, p)
    PROVE  SoleHolder'
  <1>1. /\ t \in Trade /\ p \in Trade /\ c # d
        /\ items[t] \in SUBSET Item /\ items[p] \in SUBSET Item
        /\ items[t] \cap items[p] = {}
    BY PairFacts, PairWindows DEF TradeInv, TypedLinks, TypeOK
  <1>2. PICK x \in Fill(bag[c], items[t]), y \in Fill(bag[d], items[p]) :
            /\ bag' = [bag EXCEPT ![c] = @ \cup x, ![d] = @ \cup y]
            /\ lost' = lost \cup (items[t] \ x) \cup (items[p] \ y)
    BY DEF Refund
  <1>3. x \subseteq items[t] /\ y \subseteq items[p]
    BY FillSubset
  <1> DEFINE Z == (items[t] \ x) \cup (items[p] \ y)
  <1>4. /\ x \in SUBSET Item /\ y \in SUBSET Item /\ Z \in SUBSET Item
        /\ Splits(items[t] \cup items[p], x, y, Z)
    BY <1>1, <1>3 DEF Splits
  <1>5. Handed(c, d, x, y, Z)
    BY <1>2 DEF Refund, Handed
  <1>6. \A u \in Trade \ {t, p} : items'[u] = items[u]
    BY <1>1 DEF Refund, TradeInv, TypedLinks, TypeOK
  <1> HIDE DEF Z
  <1> QED BY <1>4, <1>5, <1>6, PairRedistributes

\* A character without a partner leaves: nothing was put up.
LEMMA LoneLeaves ==
    ASSUME TradeInv, ~ reinvited, NEW c \in Char, NEW t,
           t = trade[c], t # NoTrade, partner[t] = NoTrade,
           RefundOne(c, t), trade' = [trade EXCEPT ![c] = NoTrade],
           UNCHANGED <<linkVars, exchangeVars>>
    PROVE  Paired' /\ AgreedOffer' /\ SoleHolder'
  <1>1. t \in Trade /\ items[t] = {} /\ meso[t] = 0 /\ chr[t] = c
    BY InTradeFacts DEF TradeInv, TypedLinks, Linked
  <1>2. items' = items /\ meso' = meso /\ floor' = floor
    BY <1>1 DEF RefundOne, TradeInv, TypedLinks, TypeOK
  <1>3. bag' = bag /\ lost' = lost
    <2>1. PICK x \in Fill(bag[c], {}) :
            /\ bag' = [bag EXCEPT ![c] = @ \cup x]
            /\ lost' = lost \cup ({} \ x)
      BY <1>1 DEF RefundOne
    <2>2. x = {}
      BY FillSubset
    <2> QED BY <2>1, <2>2 DEF TradeInv, TypedLinks, TypeOK
  <1>4. /\ trade'[c] = NoTrade
        /\ \A x \in Char \ {c} : trade'[x] = trade[x] /\ trade[x] # t
    BY <1>1, InTradeFacts DEF TradeInv, TypedLinks, TypeOK
  <1>5. Live' = Live \ {t}
    BY <1>1, <1>4, ConstantFacts DEF Live
  <1>6. Paired'
    <2>1. \A u \in Live : u \in Trade /\ u # NoTrade
      BY ConstantFacts DEF Live
    <2> QED BY <1>1, <1>5, <2>1 DEF TradeInv, Paired
  <1>7. AgreedOffer'
    BY <1>2, <1>5 DEF TradeInv, AgreedOffer
  <1>8. \A x \in Char : Window(x)' = Window(x)
    BY <1>1, <1>2, <1>4 DEF Window
  <1>9. SoleHolder'
    BY <1>2, <1>3, <1>8 DEF TradeInv, SoleHolder, OneHolder
  <1> QED BY <1>6, <1>7, <1>9

LEMMA CancelTradeOrderly ==
    ASSUME TradeInv, ~ reinvited, NEW c \in Char, CancelTrade(c)
    PROVE  Paired' /\ AgreedOffer' /\ SoleHolder'
  <1>0. UNCHANGED <<linkVars, exchangeVars>>
    BY DEF CancelTrade
  <1>1. CASE partner[trade[c]] # NoTrade
    <2> DEFINE t == trade[c]
               p == partner[t]
               d == chr[p]
    <2>1. /\ t # NoTrade /\ d \in Char /\ t \in Trade /\ p \in Trade
          /\ Refund(c, t, d, p) /\ BothLeave(c, d)
      BY <1>1, PairFacts DEF CancelTrade
    <2>2. SoleHolder'
      BY <1>1, <2>1, PairRefund
    <2>3. \A u \in Trade \ {t, p} : items'[u] = items[u] /\ meso'[u] = meso[u]
      BY <2>1 DEF Refund, TradeInv, TypedLinks, TypeOK
    <2>4. Paired' /\ AgreedOffer'
      BY <1>0, <1>1, <2>1, <2>3, PairLeavesOthers
    <2> QED BY <2>2, <2>4
  <1>2. CASE partner[trade[c]] = NoTrade
    BY <1>0, <1>2, LoneLeaves DEF CancelTrade
  <1> QED BY <1>1, <1>2

\* In a pair the trade that declineTrade cancels is the one that invited.
LEMMA DeclineTradeOrderly ==
    ASSUME TradeInv, ~ reinvited, NEW c \in Char, DeclineTrade(c)
    PROVE  Paired' /\ AgreedOffer' /\ SoleHolder'
  <1>1. CASE partner[trade[c]] # NoTrade
    <2>1. trade[chr[partner[trade[c]]]] = partner[trade[c]]
      BY <1>1, PairFacts DEF DeclineTrade
    <2>2. CancelTrade(c)
      BY <1>1, <2>1 DEF DeclineTrade, CancelTrade
    <2> QED BY <2>2, CancelTradeOrderly
  <1>2. CASE partner[trade[c]] = NoTrade
    BY <1>2, LoneLeaves DEF DeclineTrade
  <1> QED BY <1>1, <1>2

\* The second confirmation: what each side collects is the other's window.
LEMMA ConfirmSecondOrderly ==
    ASSUME TradeInv, ~ reinvited, NEW c \in Char, ConfirmSecond(c)
    PROVE  Paired' /\ AgreedOffer' /\ SoleHolder'
  <1> DEFINE t == trade[c]
             p == partner[t]
             d == chr[p]
  <1>1. /\ t # NoTrade /\ p # NoTrade
        /\ t \in Trade /\ p \in Trade /\ d \in Char
        /\ c # d /\ t # p /\ trade[d] = p /\ partner[p] = t
        /\ locked[p]
        /\ Confirmed(t, p) /\ BothLeave(c, d)
    BY PairFacts DEF ConfirmSecond
  <1>2. exchangeItems[t] = items[p]
    <2>1. p \in Live
      BY <1>1, LiveTrade DEF TradeInv
    <2> QED BY <1>1, <2>1 DEF TradeInv, AgreedOffer
  <1>3. /\ UNCHANGED <<chr, partner>>
        /\ \A u \in Trade \ {t, p} : locked'[u] = locked[u]
    BY <1>1 DEF Confirmed, TradeInv, TypedLinks, TypeOK
  <1>4. CASE /\ Collect(c, exchangeItems[t], exchangeMeso[t],
                        d, items[t], meso[t])
             /\ exchangeItems' = [exchangeItems EXCEPT ![t] = {}, ![p] = {}]
             /\ exchangeMeso' = [exchangeMeso EXCEPT ![t] = 0, ![p] = 0]
             /\ UNCHANGED windowVars
    <2>1. Paired' /\ AgreedOffer'
      <3>1. \A u \in Trade \ {t, p} :
                /\ exchangeItems'[u] = exchangeItems[u]
                /\ exchangeMeso'[u] = exchangeMeso[u]
                /\ items'[u] = items[u] /\ meso'[u] = meso[u]
        BY <1>4 DEF TradeInv, TypedLinks, TypeOK
      <3> QED BY <1>1, <1>3, <3>1, PairLeavesOthers
    <2>2. PICK x \in Fill(bag[c], items[p]), y \in Fill(bag[d], items[t]) :
            /\ bag' = [bag EXCEPT ![c] = @ \cup x, ![d] = @ \cup y]
            /\ lost' = lost \cup (items[p] \ x) \cup (items[t] \ y)
      BY <1>2, <1>4 DEF Collect
    <2> DEFINE Z == (items[p] \ x) \cup (items[t] \ y)
    <2>3. /\ x \subseteq items[p] /\ y \subseteq items[t]
          /\ items[t] \cap items[p] = {}
          /\ items[t] \in SUBSET Item /\ items[p] \in SUBSET Item
      BY <1>1, FillSubset, PairWindows DEF TradeInv, TypedLinks, TypeOK
    <2>4. /\ x \in SUBSET Item /\ y \in SUBSET Item /\ Z \in SUBSET Item
          /\ Splits(items[t] \cup items[p], x, y, Z)
      BY <2>3 DEF Splits
    <2>5. Handed(c, d, x, y, Z)
      BY <1>4, <2>2 DEF Collect, Handed
    <2>6. \A u \in Trade \ {t, p} : items'[u] = items[u]
      BY <1>4
    <2> HIDE DEF Z
    <2>7. SoleHolder'
      BY <1>1, <2>4, <2>5, <2>6, PairRedistributes
    <2> QED BY <2>1, <2>7
  <1>5. CASE /\ Refund(c, t, d, p)
             /\ exchangeItems' = [exchangeItems EXCEPT ![p] = items[t]]
             /\ exchangeMeso' = [exchangeMeso EXCEPT ![p] = meso[t]]
    <2>1. SoleHolder'
      BY <1>1, <1>5, PairRefund
    <2>2. \A u \in Trade \ {t, p} :
              /\ exchangeItems'[u] = exchangeItems[u]
              /\ exchangeMeso'[u] = exchangeMeso[u]
              /\ items'[u] = items[u] /\ meso'[u] = meso[u]
      BY <1>5 DEF Refund, TradeInv, TypedLinks, TypeOK
    <2>3. Paired' /\ AgreedOffer'
      BY <1>1, <1>3, <2>2, PairLeavesOthers
    <2> QED BY <2>1, <2>3
  <1> QED BY <1>4, <1>5 DEF ConfirmSecond

LEMMA ConfirmFirstOrderly ==
    ASSUME TradeInv, ~ reinvited, NEW c \in Char, ConfirmFirst(c)
    PROVE  Paired' /\ AgreedOffer' /\ SoleHolder'
  <1> DEFINE t == trade[c]
             p == partner[t]
  <1>1. /\ t \in Trade /\ p \in Trade /\ t # p /\ partner[p] = t
        /\ ~ locked[t] /\ ~ locked[p]
    BY PairFacts DEF ConfirmFirst
  <1>2. /\ UNCHANGED <<trade, chr, partner, items, meso, bag, floor, lost, reinvited>>
        /\ locked' = [locked EXCEPT ![t] = TRUE]
        /\ exchangeItems' = [exchangeItems EXCEPT ![p] = items[t]]
        /\ exchangeMeso' = [exchangeMeso EXCEPT ![p] = meso[t]]
    BY DEF ConfirmFirst, Confirmed
  <1>3. Live' = Live
    BY <1>2 DEF Live
  <1>4. Paired' /\ SoleHolder'
    BY <1>2, <1>3 DEF TradeInv, Paired, SoleHolder, OneHolder, Window
  <1>5. ASSUME NEW u \in Live', locked'[u]
        PROVE  /\ ~ locked'[partner'[u]]
               /\ exchangeItems'[partner'[u]] = items'[u]
               /\ exchangeMeso'[partner'[u]] = meso'[u]
    <2>1. u \in Trade /\ u \in Live /\ partner[t] = p
      BY <1>3 DEF Live
    <2>2. CASE u = t
      BY <1>1, <1>2, <2>1, <2>2 DEF TradeInv, TypedLinks, TypeOK
    <2>3. CASE u # t
      <3>1. locked[u]
        BY <1>2, <1>5, <2>1, <2>3 DEF TradeInv, TypedLinks, TypeOK
      <3>2. partner[u] \in Trade /\ partner[partner[u]] = u
        <4>1. partner[u] # NoTrade
          BY <2>1, <3>1 DEF TradeInv, TypedLinks, Linked
        <4> QED BY <2>1, <4>1 DEF TradeInv, TypedLinks, TypeOK, Paired
      <3>3. /\ ~ locked[partner[u]]
            /\ exchangeItems[partner[u]] = items[u]
            /\ exchangeMeso[partner[u]] = meso[u]
        BY <2>1, <3>1 DEF TradeInv, AgreedOffer
      <3>4. partner[u] # t /\ partner[u] # p
        BY <1>1, <2>1, <2>3, <3>1, <3>2
      <3> QED BY <1>2, <3>2, <3>3, <3>4 DEF TradeInv, TypedLinks, TypeOK
    <2> QED BY <2>2, <2>3
  <1> QED BY <1>4, <1>5 DEF AgreedOffer

\* A step that leaves the trades, their links and the confirmations alone and
\* puts nothing into a confirmed window.
LEMMA SameTrades ==
    ASSUME TradeInv, ~ reinvited,
           UNCHANGED <<trade, chr, partner, locked, reinvited, exchangeVars>>,
           \A t \in Trade : locked[t] => items'[t] = items[t] /\ meso'[t] = meso[t]
    PROVE  Paired' /\ AgreedOffer'
  <1>1. Live' = Live /\ \A t \in Live : t \in Trade
    BY DEF Live
  <1>2. Paired'
    BY <1>1 DEF TradeInv, Paired
  <1>3. AgreedOffer'
    BY <1>1 DEF TradeInv, AgreedOffer
  <1> QED BY <1>2, <1>3

LEMMA SetMesoOrderly ==
    ASSUME TradeInv, ~ reinvited, NEW c \in Char, NEW m \in Amounts, SetMeso(c, m)
    PROVE  Paired' /\ AgreedOffer' /\ SoleHolder'
  <1>1. trade[c] \in Trade /\ ~ locked[trade[c]]
    BY InTradeFacts DEF SetMeso, MayPutUp, TradeInv
  <1>2. \A t \in Trade : locked[t] => items'[t] = items[t] /\ meso'[t] = meso[t]
    BY <1>1 DEF SetMeso, TradeInv, TypedLinks, TypeOK
  <1>3. Paired' /\ AgreedOffer'
    BY <1>2, SameTrades DEF SetMeso
  <1>4. SoleHolder'
    BY DEF SetMeso, TradeInv, SoleHolder, OneHolder, Window
  <1> QED BY <1>3, <1>4

LEMMA SetItemsOrderly ==
    ASSUME TradeInv, ~ reinvited, NEW c \in Char, NEW i \in Item, SetItems(c, i)
    PROVE  Paired' /\ AgreedOffer' /\ SoleHolder'
  <1> DEFINE t == trade[c]
  <1>1. t \in Trade /\ ~ locked[t] /\ i \in bag[c]
    BY InTradeFacts DEF SetItems, MayPutUp, TradeInv
  <1>2. /\ UNCHANGED <<trade, linkVars, meso, exchangeVars, floor, lost>>
        /\ bag' = [bag EXCEPT ![c] = @ \ {i}]
        /\ items' = [items EXCEPT ![t] = @ \cup {i}]
    BY DEF SetItems
  <1>3. Paired' /\ AgreedOffer'
    <2>1. \A u \in Trade : locked[u] => items'[u] = items[u] /\ meso'[u] = meso[u]
      BY <1>1, <1>2 DEF TradeInv, TypedLinks, TypeOK
    <2> QED BY <1>2, <2>1, SameTrades
  <1>4. /\ bag'[c] = bag[c] \ {i} /\ Window(c)' = Window(c) \cup {i}
        /\ \A x \in Char \ {c} : bag'[x] = bag[x] /\ Window(x)' = Window(x)
    <2>1. \A x \in Char \ {c} : trade[x] # t
      BY <1>1, InTradeFacts, ConstantFacts DEF TradeInv
    <2> QED BY <1>1, <1>2, <2>1, ConstantFacts
            DEF Window, TradeInv, TypedLinks, TypeOK
  <1>5. ASSUME NEW j \in Item PROVE OneHolder(j)'
    <2>1. OneHolder(j)
      BY DEF TradeInv, SoleHolder
    <2>2. \A x \in Char : j \in bag'[x] \cup Window(x)' <=> j \in bag[x] \cup Window(x)
      BY <1>1, <1>4
    <2>3. \A x \in Char : j \in bag'[x] => j \notin Window(x)'
      BY <1>1, <1>4, <2>1 DEF OneHolder
    <2> QED BY <1>2, <2>1, <2>2, <2>3 DEF OneHolder
  <1> QED BY <1>3, <1>5 DEF SoleHolder

LEMMA ReceiveOrderly ==
    ASSUME TradeInv, ~ reinvited, NEW c \in Char,
           \/ \E i \in Item : ReceiveItem(c, i)
           \/ \E m \in Amounts : ReceiveMeso(c, m)
    PROVE  Paired' /\ AgreedOffer' /\ SoleHolder'
  <1>1. Paired' /\ AgreedOffer'
    BY SameTrades DEF ReceiveItem, ReceiveMeso
  <1>2. ASSUME NEW i \in Item, ReceiveItem(c, i) PROVE SoleHolder'
    <2>1. /\ i \in floor /\ floor' = floor \ {i} /\ lost' = lost
          /\ bag'[c] = bag[c] \cup {i}
          /\ \A x \in Char \ {c} : bag'[x] = bag[x]
          /\ \A x \in Char : Window(x)' = Window(x)
      BY <1>2 DEF ReceiveItem, Window, TradeInv, TypedLinks, TypeOK
    <2>2. ASSUME NEW j \in Item PROVE OneHolder(j)'
      <3>1. OneHolder(j)
        BY DEF TradeInv, SoleHolder
      <3>2. CASE j = i
        BY <2>1, <3>1, <3>2 DEF OneHolder
      <3>3. CASE j # i
        BY <2>1, <3>1, <3>3 DEF OneHolder
      <3> QED BY <3>2, <3>3
    <2> QED BY <2>2 DEF SoleHolder
  <1>3. ASSUME NEW m \in Amounts, ReceiveMeso(c, m) PROVE SoleHolder'
    BY <1>3 DEF ReceiveMeso, TradeInv, SoleHolder, OneHolder, Window
  <1> QED BY <1>1, <1>2, <1>3

\* A trade somebody begins has no partner yet, so no pair is affected.
LEMMA StartTradeOrderly ==
    ASSUME TradeInv, ~ reinvited, NEW c \in Char, StartTrade(c)
    PROVE  Paired' /\ AgreedOffer' /\ SoleHolder'
  <1>1. PICK t \in Trade : chr[t] = NoChar /\ trade' = [trade EXCEPT ![c] = t]
                           /\ chr' = [chr EXCEPT ![t] = c]
    BY DEF StartTrade
  <1>2. partner[t] = NoTrade /\ ~ locked[t] /\ items[t] = {}
    BY <1>1 DEF TradeInv, TypedLinks, Linked
  <1>3. /\ trade[c] = NoTrade
        /\ UNCHANGED <<partner, locked, items, meso, exchangeVars, bag, floor, lost>>
    BY DEF StartTrade
  <1>4. Live' = Live \cup {t}
    BY <1>1, <1>3, ConstantFacts DEF Live, TradeInv, TypedLinks, TypeOK
  <1>5. \A u \in Live : u \in Trade /\ chr[u] # NoChar
    BY ConstantFacts DEF Live, TradeInv, TypedLinks, TypeOK, Linked
  <1>6. Paired'
    <2>1. \A u \in Live : partner[u] # t
      BY <1>1, <1>5, ConstantFacts DEF TradeInv, TypedLinks, TypeOK, Linked
    <2>2. \A u \in Live : chr'[u] = chr[u]
      BY <1>1, <1>5 DEF TradeInv, TypedLinks, TypeOK
    <2> QED BY <1>2, <1>3, <1>4, <2>1, <2>2 DEF TradeInv, Paired
  <1>7. AgreedOffer'
    BY <1>2, <1>3, <1>4 DEF TradeInv, AgreedOffer
  <1>8. \A x \in Char : Window(x)' = Window(x)
    BY <1>1, <1>2, <1>3 DEF Window, TradeInv, TypedLinks, TypeOK
  <1>9. SoleHolder'
    BY <1>3, <1>8 DEF TradeInv, SoleHolder, OneHolder
  <1> QED BY <1>6, <1>7, <1>9

\* The inviter's trade had no partner, hence was not confirmed, and takes the
\* new one: the two form a pair.
LEMMA InviteTradeOrderly ==
    ASSUME TradeInv, ~ reinvited', NEW c \in Char, NEW d \in Char, InviteTrade(c, d)
    PROVE  Paired' /\ AgreedOffer' /\ SoleHolder'
  <1>1. PICK t \in Trade :
            /\ chr[t] = NoChar
            /\ chr' = [chr EXCEPT ![t] = d]
            /\ trade' = [trade EXCEPT ![d] = t]
            /\ partner' = [partner EXCEPT
                  ![t] = trade[c],
                  ![trade[c]] = IF locked[trade[c]] THEN @ ELSE t]
    BY DEF InviteTrade
  <1> DEFINE q == trade[c]
  <1>2. /\ q \in Trade /\ q # t /\ c # d /\ chr[q] = c
        /\ ~ reinvited /\ partner[q] = NoTrade /\ ~ locked[q]
        /\ partner[t] = NoTrade /\ ~ locked[t] /\ items[t] = {}
    <2>1. q \in Trade /\ chr[q] = c /\ c # d
      BY InTradeFacts DEF InviteTrade, TradeInv
    <2>2. ~ reinvited /\ partner[q] = NoTrade
      BY DEF InviteTrade
    <2>3. q # t
      BY <1>1, <2>1, ConstantFacts
    <2>4. partner[t] = NoTrade
      BY <1>1 DEF TradeInv, TypedLinks, Linked
    <2> QED BY <2>1, <2>2, <2>3, <2>4 DEF TradeInv, TypedLinks, Linked
  <1>3. /\ trade[d] = NoTrade /\ q # NoTrade
        /\ UNCHANGED <<locked, items, meso, exchangeVars, bag, floor, lost>>
    BY DEF InviteTrade
  <1>4. /\ partner'[t] = q /\ partner'[q] = t
        /\ \A u \in Trade \ {t, q} : partner'[u] = partner[u]
        /\ chr'[t] = d /\ \A u \in Trade \ {t} : chr'[u] = chr[u]
    BY <1>1, <1>2 DEF TradeInv, TypedLinks, TypeOK
  <1> HIDE DEF q
  <1>5. q \in Live /\ Live' = Live \cup {t}
    BY <1>1, <1>2, <1>3, ConstantFacts DEF q, Live, TradeInv, TypedLinks, TypeOK
  <1>6. \A u \in Live : u \in Trade /\ u # t /\ u # NoTrade
    BY <1>1, ConstantFacts DEF Live, TradeInv, TypedLinks, TypeOK, Linked
  <1>7. \A u \in Live : partner[u] # NoTrade =>
            /\ partner[u] \in Live /\ partner[u] # q /\ partner[u] # t
            /\ partner[partner[u]] = u /\ chr[partner[u]] # chr[u]
    BY <1>1, <1>2, <1>6 DEF TradeInv, Paired
  <1>8. Paired'
    <2>1. ASSUME NEW u \in Live', partner'[u] # NoTrade
          PROVE  /\ partner'[u] \in Live'
                 /\ partner'[partner'[u]] = u
                 /\ chr'[partner'[u]] # chr'[u]
      <3>1. CASE u = t
        BY <1>2, <1>4, <1>5, <3>1
      <3>2. CASE u = q
        BY <1>2, <1>4, <1>5, <3>2
      <3>3. CASE u # t /\ u # q
        BY <1>4, <1>5, <1>6, <1>7, <2>1, <3>3
      <3> QED BY <3>1, <3>2, <3>3
    <2> QED BY <2>1 DEF Paired
  <1>9. AgreedOffer'
    <2>1. \A u \in Live : locked[u] => u # q /\ partner'[u] = partner[u]
      BY <1>2, <1>4, <1>6
    <2> QED BY <1>2, <1>3, <1>5, <2>1 DEF TradeInv, AgreedOffer
  <1>10. \A x \in Char : Window(x)' = Window(x)
    BY <1>1, <1>2, <1>3 DEF Window, TradeInv, TypedLinks, TypeOK
  <1>11. SoleHolder'
    BY <1>2, <1>3, <1>10 DEF TradeInv, SoleHolder, OneHolder
  <1> QED BY <1>8, <1>9, <1>11

LEMMA InitTradeInv == Init => TradeInv
  <1> SUFFICES ASSUME Init PROVE TradeInv
    OBVIOUS
  <1>1. TypedLinks
    BY InitTypedLinks
  <1>2. Live = {} /\ \A c \in Char : Window(c) = {}
    BY ConstantFacts DEF Init, Live, Window
  <1>3. Paired /\ AgreedOffer
    BY <1>2 DEF Paired, AgreedOffer
  <1>4. /\ bag = StartBag /\ lost = {}
        /\ floor = Item \ UNION {StartBag[c] : c \in Char}
        /\ \A c, d \in Char : c # d => StartBag[c] \cap StartBag[d] = {}
    BY TradeAssumption DEF Init
  <1>5. ASSUME NEW i \in Item PROVE OneHolder(i)
    BY <1>2, <1>4 DEF OneHolder
  <1> QED BY <1>1, <1>3, <1>5 DEF TradeInv, SoleHolder

LEMMA NextTradeInv == TradeInv /\ [Next]_vars => TradeInv'
  <1> SUFFICES ASSUME TradeInv, [Next]_vars PROVE TradeInv'
    OBVIOUS
  <1>1. TypedLinks'
    BY NextTypedLinks DEF TradeInv
  <1>2. CASE reinvited'
    BY <1>1, <1>2 DEF TradeInv, Paired, AgreedOffer, SoleHolder
  <1>3. CASE ~ reinvited'
    <2>1. CASE UNCHANGED vars
      BY <1>1, <2>1 DEF vars, TradeInv, Paired, AgreedOffer, SoleHolder,
                        OneHolder, Window, Live
    <2>2. ASSUME NEW c \in Char, NEW d \in Char, InviteTrade(c, d) PROVE TradeInv'
      BY <1>1, <1>3, <2>2, InviteTradeOrderly DEF TradeInv
    <2>3. ASSUME NEW c \in Char, VisitTrade(c) PROVE TradeInv'
      <3>1. ~ reinvited
        BY <1>3, <2>3 DEF VisitTrade
      <3>2. Paired' /\ AgreedOffer'
        BY <2>3, <3>1, SameTrades DEF VisitTrade
      <3>3. SoleHolder'
        BY <2>3 DEF VisitTrade, TradeInv, SoleHolder, OneHolder, Window
      <3> QED BY <1>1, <3>2, <3>3 DEF TradeInv
    <2>4. ASSUME NEW c \in Char, reinvited' = reinvited,
                 \/ StartTrade(c)
                 \/ \E m \in Amounts : SetMeso(c, m)
                 \/ \E i \in Item : SetItems(c, i)
                 \/ ConfirmFirst(c) \/ ConfirmSecond(c)
                 \/ CancelTrade(c) \/ DeclineTrade(c)
                 \/ \E i \in Item : ReceiveItem(c, i)
                 \/ \E m \in Amounts : ReceiveMeso(c, m)
          PROVE  TradeInv'
      BY <1>1, <1>3, <2>4, StartTradeOrderly, SetMesoOrderly, SetItemsOrderly,
         ConfirmFirstOrderly, ConfirmSecondOrderly, CancelTradeOrderly,
         DeclineTradeOrderly, ReceiveOrderly DEF TradeInv
    <2>5. ASSUME NEW c \in Char,
                 \/ StartTrade(c)
                 \/ \E m \in Amounts : SetMeso(c, m)
                 \/ \E i \in Item : SetItems(c, i)
                 \/ ConfirmFirst(c) \/ ConfirmSecond(c)
                 \/ CancelTrade(c) \/ DeclineTrade(c)
                 \/ \E i \in Item : ReceiveItem(c, i)
                 \/ \E m \in Amounts : ReceiveMeso(c, m)
          PROVE  reinvited' = reinvited
      BY <2>5 DEF StartTrade, SetMeso, SetItems, ConfirmFirst, ConfirmSecond,
                  Confirmed, CancelTrade, DeclineTrade, ReceiveItem, ReceiveMeso
    <2> QED BY <2>1, <2>2, <2>3, <2>4, <2>5 DEF Next
  <1> QED BY <1>2, <1>3

\* No stack is ever in two places or nowhere, for any number of players and
\* trades, as long as no inviter with a partner invites again: the exchange
\* of completeTrade and every refund move each stack exactly once.
THEOREM NothingCopied == Spec => []SoleHolder
  <1>1. TradeInv => SoleHolder
    BY DEF TradeInv
  <1> QED BY <1>1, InitTradeInv, NextTradeInv, PTL DEF Spec

\* What one side confirmed is what the other will collect (completeTrade).
THEOREM AgreementKept == Spec => []AgreedOffer
  <1>1. TradeInv => AgreedOffer
    BY DEF TradeInv
  <1> QED BY <1>1, InitTradeInv, NextTradeInv, PTL DEF Spec

\* Nobody is left in a trade whose other side has gone (cancelTrade,
\* declineTrade and completeTrade take both sides out).
THEOREM PartnersTogether == Spec => []Paired
  <1>1. TradeInv => Paired
    BY DEF TradeInv
  <1> QED BY <1>1, InitTradeInv, NextTradeInv, PTL DEF Spec

-----------------------------------------------------------------------------
(* An offer only grows: this needs no pairing, because who is refunded has  *)
(* left its trade in the same step.                                         *)

\* What an action does to the window of a character that stays in its trade.
Grows ==
    \A c \in Char : trade'[c] = trade[c] /\ trade[c] # NoTrade =>
        /\ items[trade[c]] \subseteq items'[trade[c]]
        /\ meso[trade[c]] <= meso'[trade[c]]

LEMMA MesoOrder ==
    ASSUME TypedLinks, NEW c \in Char, trade[c] # NoTrade
    PROVE  trade[c] \in Trade /\ meso[trade[c]] \in Int /\ meso[trade[c]] <= meso[trade[c]]
  BY InTradeFacts, ConstantFacts DEF TypedLinks, TypeOK

LEMMA SameGrows == ASSUME TypedLinks, UNCHANGED <<items, meso>> PROVE Grows
  BY MesoOrder DEF Grows

\* A refund touches only the windows of the two that leave.
LEMMA RefundGrows ==
    ASSUME TypedLinks, NEW c \in Char, NEW d \in Char, NEW t \in Trade, NEW u \in Trade,
           t = trade[c], chr[u] = d, Refund(c, t, d, u), BothLeave(c, d)
    PROVE  Grows
  <1> SUFFICES ASSUME NEW x \in Char, trade'[x] = trade[x], trade[x] # NoTrade
               PROVE  /\ items[trade[x]] \subseteq items'[trade[x]]
                      /\ meso[trade[x]] <= meso'[trade[x]]
    BY DEF Grows
  <1>1. x # c /\ x # d
    BY ConstantFacts DEF BothLeave, TypedLinks, TypeOK
  <1>2. trade[x] # t /\ trade[x] # u
    BY <1>1, InTradeFacts
  <1>3. trade[x] \in Trade /\ meso[trade[x]] <= meso[trade[x]]
    BY MesoOrder
  <1>4. items'[trade[x]] = items[trade[x]] /\ meso'[trade[x]] = meso[trade[x]]
    BY <1>2, <1>3 DEF Refund, TypedLinks, TypeOK
  <1> QED BY <1>3, <1>4

LEMMA RefundOneGrows ==
    ASSUME TypedLinks, NEW c \in Char, NEW t \in Trade,
           t = trade[c], RefundOne(c, t), trade' = [trade EXCEPT ![c] = NoTrade]
    PROVE  Grows
  <1> SUFFICES ASSUME NEW x \in Char, trade'[x] = trade[x], trade[x] # NoTrade
               PROVE  /\ items[trade[x]] \subseteq items'[trade[x]]
                      /\ meso[trade[x]] <= meso'[trade[x]]
    BY DEF Grows
  <1>1. x # c
    BY ConstantFacts DEF TypedLinks, TypeOK
  <1>2. trade[x] # t
    BY <1>1, InTradeFacts
  <1>3. trade[x] \in Trade /\ meso[trade[x]] <= meso[trade[x]]
    BY MesoOrder
  <1>4. items'[trade[x]] = items[trade[x]] /\ meso'[trade[x]] = meso[trade[x]]
    BY <1>2, <1>3 DEF RefundOne, TypedLinks, TypeOK
  <1> QED BY <1>3, <1>4

LEMMA NextGrows ==
    ASSUME TypedLinks, Next
    PROVE  Grows
  <1>1. PICK c \in Char :
            \/ StartTrade(c)
            \/ \E d \in Char : InviteTrade(c, d)
            \/ VisitTrade(c)
            \/ \E m \in Amounts : SetMeso(c, m)
            \/ \E i \in Item : SetItems(c, i)
            \/ ConfirmFirst(c)
            \/ ConfirmSecond(c)
            \/ CancelTrade(c)
            \/ DeclineTrade(c)
            \/ \E i \in Item : ReceiveItem(c, i)
            \/ \E m \in Amounts : ReceiveMeso(c, m)
    BY DEF Next
  <1>2. CASE \/ StartTrade(c) \/ \E d \in Char : InviteTrade(c, d)
             \/ VisitTrade(c) \/ ConfirmFirst(c)
             \/ \E i \in Item : ReceiveItem(c, i)
             \/ \E m \in Amounts : ReceiveMeso(c, m)
    <2>1. UNCHANGED <<items, meso>>
      BY <1>2 DEF StartTrade, InviteTrade, VisitTrade, ConfirmFirst, ReceiveItem, ReceiveMeso
    <2> QED BY <2>1, SameGrows
  <1>3. ASSUME NEW m \in Amounts, SetMeso(c, m) PROVE Grows
    <2>1. /\ m \in Int /\ m >= 0
          /\ items' = items /\ meso' = [meso EXCEPT ![trade[c]] = @ + m]
      BY <1>3, ConstantFacts DEF SetMeso
    <2>2. \A x \in Char : trade[x] # NoTrade =>
              trade[x] \in Trade /\ meso[trade[x]] \in Int
      BY MesoOrder
    <2>3. \A t \in Trade : meso[t] \in Int => meso[t] <= meso'[t]
      BY <2>1 DEF TypedLinks, TypeOK
    <2> QED BY <2>1, <2>2, <2>3 DEF Grows
  <1>4. ASSUME NEW i \in Item, SetItems(c, i) PROVE Grows
    <2>1. meso' = meso /\ items' = [items EXCEPT ![trade[c]] = @ \cup {i}]
      BY <1>4 DEF SetItems
    <2>2. \A t \in Trade : items[t] \subseteq items'[t]
      BY <2>1 DEF TypedLinks, TypeOK
    <2> QED BY <2>1, <2>2, MesoOrder DEF Grows
  <1>5. CASE ConfirmSecond(c)
    <2> DEFINE t == trade[c]
               p == partner[t]
    <2>1. t \in Trade /\ p \in Trade /\ chr[p] \in Char
      BY <1>5, InTradeFacts DEF ConfirmSecond
    <2>2. CASE UNCHANGED windowVars
      BY <2>2, SameGrows
    <2>3. CASE Refund(c, t, chr[p], p) /\ BothLeave(c, chr[p])
      BY <2>1, <2>3, RefundGrows
    <2> QED BY <1>5, <2>2, <2>3 DEF ConfirmSecond
  <1>6. CASE CancelTrade(c)
    <2> DEFINE t == trade[c]
               p == partner[t]
    <2>1. t \in Trade /\ (p # NoTrade => p \in Trade /\ chr[p] \in Char)
      BY <1>6, InTradeFacts DEF CancelTrade
    <2>2. CASE p # NoTrade /\ Refund(c, t, chr[p], p) /\ BothLeave(c, chr[p])
      BY <2>1, <2>2, RefundGrows
    <2>3. CASE RefundOne(c, t) /\ trade' = [trade EXCEPT ![c] = NoTrade]
      BY <2>1, <2>3, RefundOneGrows
    <2> QED BY <1>6, <2>2, <2>3 DEF CancelTrade
  <1>7. CASE DeclineTrade(c)
    <2> DEFINE t == trade[c]
               d == chr[partner[t]]
               u == IF partner[t] = NoTrade THEN NoTrade ELSE trade[d]
    <2>1. t \in Trade
      BY <1>7, InTradeFacts DEF DeclineTrade
    <2>2. CASE u # NoTrade /\ Refund(c, t, d, u) /\ BothLeave(c, d)
      <3>1. partner[t] # NoTrade /\ u = trade[d]
        BY <2>2
      <3>2. d \in Char
        BY <3>1, <1>7, InTradeFacts DEF DeclineTrade
      <3>3. u \in Trade /\ chr[u] = d
        BY <2>2, <3>1, <3>2, InTradeFacts
      <3> QED BY <2>1, <2>2, <3>2, <3>3, RefundGrows
    <2>3. CASE RefundOne(c, t) /\ trade' = [trade EXCEPT ![c] = NoTrade]
      BY <2>1, <2>3, RefundOneGrows
    <2> QED BY <1>7, <2>2, <2>3 DEF DeclineTrade
  <1> QED BY <1>1, <1>2, <1>3, <1>4, <1>5, <1>6, <1>7

\* While a character stays in a trade its window only fills, also when its
\* inviter invites somebody else: whoever is refunded has left (cancel).
THEOREM OffersGrow == Spec => OfferOnlyGrows
  <1>1. TypedLinks /\ [Next]_vars => [Grows]_vars
    BY NextGrows
  <1>2. Spec => [][Grows]_vars
    BY <1>1, InitTypedLinks, NextTypedLinks, PTL DEF Spec
  <1> QED BY <1>2 DEF OfferOnlyGrows, Grows

-----------------------------------------------------------------------------
(* Karma.  An exchange takes the flag off what changes hands and off nothing *)
(* else, since what is in two windows is the same stack twice (SoleHolder).  *)

KarmaInv == TradeInv /\ KarmaSpent

\* What is not flagged any more is in no window but those of c and d, which
\* are empty.
LEMMA KarmaKept ==
    ASSUME KarmaInv, ~ reinvited,
           NEW c \in Char, NEW d \in Char,
           NEW G \in SUBSET (Window(c) \cup Window(d)),
           karma' = karma \ G,
           \A x \in Char \ {c, d} : Window(x)' \subseteq Window(x),
           Window(c)' = {}, Window(d)' = {}
    PROVE  KarmaSpent'
  <1> SUFFICES ASSUME NEW x \in Char, NEW i \in Window(x)', i \in DropRestricted
               PROVE  i \in karma'
    BY DEF KarmaSpent
  <1>1. x \in Char \ {c, d} /\ i \in Window(x)
    OBVIOUS
  <1>2. i \in karma
    BY <1>1 DEF KarmaInv, KarmaSpent
  <1>3. i \in Item
    BY TradeAssumption
  <1>4. OneHolder(i)
    BY <1>3 DEF KarmaInv, TradeInv, SoleHolder
  <1>5. i \notin Window(c) /\ i \notin Window(d)
    BY <1>1, <1>4 DEF OneHolder
  <1> QED BY <1>2, <1>5

\* The windows after one or two characters left.
LEMMA WindowsLeft ==
    ASSUME TypedLinks, NEW c \in Char, NEW d \in Char,
           trade' = [trade EXCEPT ![c] = NoTrade, ![d] = NoTrade],
           \A x \in Char \ {c, d} : trade[x] # NoTrade =>
               items'[trade[x]] = items[trade[x]]
    PROVE  /\ Window(c)' = {} /\ Window(d)' = {}
           /\ \A x \in Char \ {c, d} : Window(x)' = Window(x)
  BY DEF Window, TypedLinks, TypeOK

LEMMA RefundKarma ==
    ASSUME KarmaInv, ~ reinvited, NEW c \in Char, NEW d \in Char,
           NEW t \in Trade, NEW u \in Trade,
           t = trade[c], chr[u] = d, Refund(c, t, d, u), BothLeave(c, d)
    PROVE  KarmaSpent'
  <1>1. TypedLinks
    BY DEF KarmaInv, TradeInv
  <1>2. \A x \in Char \ {c, d} : trade[x] # NoTrade => items'[trade[x]] = items[trade[x]]
    BY <1>1, InTradeFacts DEF Refund, TypedLinks, TypeOK
  <1>3. /\ Window(c)' = {} /\ Window(d)' = {}
        /\ \A x \in Char \ {c, d} : Window(x)' = Window(x)
    BY <1>1, <1>2, WindowsLeft DEF BothLeave
  <1>4. karma' = karma \ {}
    BY DEF Refund
  <1> QED BY <1>3, <1>4, KarmaKept

LEMMA RefundOneKarma ==
    ASSUME KarmaInv, ~ reinvited, NEW c \in Char, NEW t \in Trade,
           t = trade[c], RefundOne(c, t), trade' = [trade EXCEPT ![c] = NoTrade]
    PROVE  KarmaSpent'
  <1>1. TypedLinks
    BY DEF KarmaInv, TradeInv
  <1>2. \A x \in Char \ {c} : trade[x] # NoTrade => items'[trade[x]] = items[trade[x]]
    BY <1>1, InTradeFacts DEF RefundOne, TypedLinks, TypeOK
  <1>3. Window(c)' = {} /\ \A x \in Char \ {c} : Window(x)' = Window(x)
    BY <1>1, <1>2 DEF Window, TypedLinks, TypeOK
  <1>4. karma' = karma \ {}
    BY DEF RefundOne
  <1> QED BY <1>3, <1>4, KarmaKept

LEMMA ExchangeKarma ==
    ASSUME KarmaInv, ~ reinvited, NEW c \in Char, NEW d \in Char, NEW t, NEW p,
           t = trade[c], t # NoTrade, p = partner[t], p # NoTrade, d = chr[p],
           locked[p], BothLeave(c, d), UNCHANGED windowVars,
           Collect(c, exchangeItems[t], exchangeMeso[t], d, items[t], meso[t])
    PROVE  KarmaSpent'
  <1>1. TradeInv /\ TypedLinks
    BY DEF KarmaInv, TradeInv
  <1>2. t \in Trade /\ p \in Trade /\ c # d /\ trade[d] = p /\ partner[p] = t
    BY <1>1, PairFacts
  <1>3. p \in Live
    BY <1>1, <1>2, LiveTrade
  <1>4. exchangeItems[t] = items[p]
    BY <1>1, <1>2, <1>3 DEF TradeInv, AgreedOffer
  <1>5. Window(c) = items[t] /\ Window(d) = items[p]
    BY <1>2 DEF Window
  <1>6. karma' = karma \ (Window(d) \cup Window(c))
    BY <1>4, <1>5 DEF Collect
  <1>7. /\ Window(c)' = {} /\ Window(d)' = {}
        /\ \A x \in Char \ {c, d} : Window(x)' = Window(x)
    BY <1>1, WindowsLeft DEF BothLeave
  <1> QED BY <1>6, <1>7, KarmaKept

LEMMA SetItemsKarma ==
    ASSUME KarmaInv, ~ reinvited, NEW c \in Char, NEW i \in Item, SetItems(c, i)
    PROVE  KarmaSpent'
  <1>1. /\ trade' = trade /\ items' = [items EXCEPT ![trade[c]] = @ \cup {i}]
        /\ karma' = karma
        /\ i \in DropRestricted => i \in karma
    BY DEF SetItems, Tradeable
  <1>2. \A x \in Char : trade[x] # NoTrade => trade[x] \in Trade
    BY InTradeFacts DEF KarmaInv, TradeInv
  <1>3. \A x \in Char : Window(x)' \subseteq Window(x) \cup {i}
    BY <1>1, <1>2 DEF Window, KarmaInv, TradeInv, TypedLinks, TypeOK
  <1> QED BY <1>1, <1>3 DEF KarmaInv, KarmaSpent

\* An action that fills no window and takes no flag off.
LEMMA SameKarma ==
    ASSUME KarmaInv, ~ reinvited, karma' = karma,
           \A x \in Char : Window(x)' \subseteq Window(x)
    PROVE  KarmaSpent'
  BY DEF KarmaInv, KarmaSpent

LEMMA NextKarmaInv == KarmaInv /\ [Next]_vars => KarmaInv'
  <1> SUFFICES ASSUME KarmaInv, [Next]_vars PROVE KarmaInv'
    OBVIOUS
  <1>1. TradeInv' /\ TradeInv /\ TypedLinks
    BY NextTradeInv DEF KarmaInv, TradeInv
  <1>2. SUFFICES ASSUME ~ reinvited' PROVE KarmaSpent'
    BY <1>1 DEF KarmaInv, KarmaSpent
  <1>3. CASE UNCHANGED vars
    BY <1>2, <1>3 DEF vars, Window, KarmaInv, KarmaSpent
  <1>4. Next => ~ reinvited
    BY <1>2 DEF Next, StartTrade, InviteTrade, VisitTrade, SetMeso, SetItems, ConfirmFirst,
                ConfirmSecond, Confirmed, CancelTrade, DeclineTrade, ReceiveItem, ReceiveMeso
  <1>5. ASSUME NEW c \in Char, StartTrade(c) PROVE KarmaSpent'
    <2>1. PICK t \in Trade : chr[t] = NoChar /\ trade' = [trade EXCEPT ![c] = t]
      BY <1>5 DEF StartTrade
    <2>2. items[t] = {} /\ items' = items /\ karma' = karma
      BY <1>1, <1>5, <2>1 DEF StartTrade, TypedLinks, Linked
    <2>3. \A x \in Char : Window(x)' \subseteq Window(x)
      BY <1>1, <2>1, <2>2 DEF Window, TypedLinks, TypeOK
    <2> QED BY <1>4, <1>5, <2>2, <2>3, SameKarma DEF Next
  <1>6. ASSUME NEW c \in Char, NEW d \in Char, InviteTrade(c, d) PROVE KarmaSpent'
    <2>1. PICK t \in Trade : chr[t] = NoChar /\ trade' = [trade EXCEPT ![d] = t]
      BY <1>6 DEF InviteTrade
    <2>2. items[t] = {} /\ items' = items /\ karma' = karma
      BY <1>1, <1>6, <2>1 DEF InviteTrade, TypedLinks, Linked
    <2>3. \A x \in Char : Window(x)' \subseteq Window(x)
      BY <1>1, <2>1, <2>2 DEF Window, TypedLinks, TypeOK
    <2> QED BY <1>4, <1>6, <2>2, <2>3, SameKarma DEF Next
  <1>7. ASSUME NEW c \in Char, NEW i \in Item, SetItems(c, i) PROVE KarmaSpent'
    BY <1>4, <1>7, SetItemsKarma DEF Next
  <1>8. ASSUME NEW c \in Char,
               \/ VisitTrade(c) \/ ConfirmFirst(c)
               \/ \E m \in Amounts : SetMeso(c, m)
               \/ \E i \in Item : ReceiveItem(c, i)
               \/ \E m \in Amounts : ReceiveMeso(c, m)
        PROVE  KarmaSpent'
    <2>1. UNCHANGED <<trade, items, karma>>
      BY <1>8 DEF VisitTrade, ConfirmFirst, SetMeso, ReceiveItem, ReceiveMeso
    <2>2. \A x \in Char : Window(x)' \subseteq Window(x)
      BY <2>1 DEF Window
    <2> QED BY <1>4, <1>8, <2>1, <2>2, SameKarma DEF Next
  <1>9. ASSUME NEW c \in Char, ConfirmSecond(c) PROVE KarmaSpent'
    <2> DEFINE t == trade[c]
               p == partner[t]
               d == chr[p]
    <2>1. /\ t # NoTrade /\ p # NoTrade /\ t \in Trade /\ p \in Trade
          /\ d \in Char /\ locked[p] /\ BothLeave(c, d)
      BY <1>1, <1>9, InTradeFacts DEF ConfirmSecond
    <2>2. ~ reinvited
      BY <1>4, <1>9 DEF Next
    <2>3. CASE UNCHANGED windowVars /\
               Collect(c, exchangeItems[t], exchangeMeso[t], d, items[t], meso[t])
      BY <2>1, <2>2, <2>3, ExchangeKarma
    <2>4. CASE Refund(c, t, d, p)
      BY <2>1, <2>2, <2>4, RefundKarma
    <2> QED BY <1>9, <2>3, <2>4 DEF ConfirmSecond
  <1>10. ASSUME NEW c \in Char, CancelTrade(c) PROVE KarmaSpent'
    <2> DEFINE t == trade[c]
               p == partner[t]
    <2>1. t \in Trade /\ (p # NoTrade => p \in Trade /\ chr[p] \in Char)
      BY <1>1, <1>10, InTradeFacts DEF CancelTrade
    <2>2. ~ reinvited
      BY <1>4, <1>10 DEF Next
    <2>3. CASE p # NoTrade /\ Refund(c, t, chr[p], p) /\ BothLeave(c, chr[p])
      BY <2>1, <2>2, <2>3, RefundKarma
    <2>4. CASE RefundOne(c, t) /\ trade' = [trade EXCEPT ![c] = NoTrade]
      BY <2>1, <2>2, <2>4, RefundOneKarma
    <2> QED BY <1>10, <2>3, <2>4 DEF CancelTrade
  <1>11. ASSUME NEW c \in Char, DeclineTrade(c) PROVE KarmaSpent'
    <2> DEFINE t == trade[c]
               d == chr[partner[t]]
               u == IF partner[t] = NoTrade THEN NoTrade ELSE trade[d]
    <2>1. t \in Trade
      BY <1>1, <1>11, InTradeFacts DEF DeclineTrade
    <2>2. ~ reinvited
      BY <1>4, <1>11 DEF Next
    <2>3. CASE u # NoTrade /\ Refund(c, t, d, u) /\ BothLeave(c, d)
      <3>1. partner[t] # NoTrade /\ u = trade[d]
        BY <2>3
      <3>2. d \in Char
        BY <1>1, <3>1, <1>11, InTradeFacts DEF DeclineTrade
      <3>3. u \in Trade /\ chr[u] = d
        BY <1>1, <2>3, <3>1, <3>2, InTradeFacts
      <3> QED BY <2>1, <2>2, <2>3, <3>2, <3>3, RefundKarma
    <2>4. CASE RefundOne(c, t) /\ trade' = [trade EXCEPT ![c] = NoTrade]
      BY <2>1, <2>2, <2>4, RefundOneKarma
    <2> QED BY <1>11, <2>3, <2>4 DEF DeclineTrade
  <1> QED BY <1>3, <1>5, <1>6, <1>7, <1>8, <1>9, <1>10, <1>11 DEF Next

\* No restricted stack is ever offered on a karma flag that an exchange has
\* used up (setItems reads the flag, CompleteTrade takes it off).
THEOREM KarmaOnce == Spec => []KarmaSpent
  <1>1. Init => KarmaInv
    <2> SUFFICES ASSUME Init PROVE KarmaInv
      OBVIOUS
    <2>1. \A c \in Char : Window(c) = {}
      BY DEF Init, Window
    <2> QED BY <2>1, InitTradeInv DEF KarmaInv, KarmaSpent
  <1>2. KarmaInv => KarmaSpent
    BY DEF KarmaInv
  <1> QED BY <1>1, <1>2, NextKarmaInv, PTL DEF Spec

-----------------------------------------------------------------------------
(* What an exchange delivers.                                               *)

\* Every inventory is one addFromDrop could have filled.
RoomInv == TradeInv /\ \A c \in Char : CanHold(bag[c])

LEMMA CanHoldLess ==
    ASSUME NEW b \in SUBSET Item, NEW a \in SUBSET b, CanHold(b)
    PROVE  CanHold(a)
  <1>1. IsFiniteSet(b) /\ IsFiniteSet(b \cap Exclusive)
    BY FS_Subset, TradeAssumption
  <1>2. Cardinality(a) <= Cardinality(b)
    BY <1>1, FS_Subset
  <1>3. a \cap Exclusive \in SUBSET (b \cap Exclusive)
    OBVIOUS
  <1>4. Cardinality(a \cap Exclusive) <= Cardinality(b \cap Exclusive)
    BY <1>1, <1>3, FS_Subset
  <1>5. IsFiniteSet(a) /\ IsFiniteSet(a \cap Exclusive)
    BY <1>1, <1>3, FS_Subset
  <1> QED BY <1>1, <1>2, <1>4, <1>5, FS_CardinalityType, TradeAssumption DEF CanHold

LEMMA CanHoldFill ==
    ASSUME NEW b, NEW S, CanHold(b), NEW x \in Fill(b, S)
    PROVE  CanHold(b \cup x)
  <1>1. CASE x = {}
    <2>1. b \cup x = b
      BY <1>1
    <2> QED BY <2>1
  <1>2. CASE x # {}
    BY <1>2 DEF Fill
  <1> QED BY <1>1, <1>2

\* What a loop of addFromDrop leaves out does not fit afterwards.
LEMMA LeftOut ==
    ASSUME NEW b, NEW S, NEW x \in Fill(b, S), NEW i \in S \ x
    PROVE  ~ CanHold(b \cup x \cup {i})
  BY DEF Fill

\* Stacks that check() has let pass are refused only for their kind: then
\* there are two of the kind among them.
LEMMA RefusedForKind ==
    ASSUME TypedLinks, NEW c \in Char, CanHold(bag[c]),
           NEW S \in SUBSET Item, NEW m, Accepts(c, S, m),
           NEW x \in Fill(bag[c], S), NEW i \in S \ x
    PROVE  Cardinality(S \cap Exclusive) > 1
  <1> DEFINE b == bag[c]
             n == b \cup x \cup {i}
             k == n \cap Exclusive
             e == S \cap Exclusive
  <1>1. b \in SUBSET Item /\ x \in SUBSET S /\ n \in SUBSET (b \cup S)
    BY FillSubset DEF TypedLinks, TypeOK
  <1>2. IsFiniteSet(b) /\ IsFiniteSet(S) /\ IsFiniteSet(b \cup S)
    BY <1>1, FS_Subset, TradeAssumption
  <1>3. IsFiniteSet(n) /\ Cardinality(n) <= Cardinality(b \cup S)
    BY <1>1, <1>2, FS_Subset
  <1>4. Cardinality(b \cup S) <= Cardinality(b) + Cardinality(S)
    <2>1. /\ Cardinality(b \cup S) = Cardinality(b) + Cardinality(S) - Cardinality(b \cap S)
          /\ IsFiniteSet(b \cap S)
      BY <1>2, FS_Union, FS_Intersection
    <2> QED BY <1>2, <2>1, FS_CardinalityType
  <1>5. Cardinality(n) <= SlotLimit
    BY <1>2, <1>3, <1>4, FS_CardinalityType, TradeAssumption DEF Accepts
  <1>6. Cardinality(k) > 1
    <2>1. ~ CanHold(n)
      BY LeftOut
    <2>2. k \in SUBSET n
      OBVIOUS
    <2>3. Cardinality(k) \in Nat
      BY <1>3, <2>2, FS_Subset, FS_CardinalityType
    <2> QED BY <1>5, <2>1, <2>3 DEF CanHold
  <1>7. IsFiniteSet(e) /\ IsFiniteSet(b \cap Exclusive)
    BY <1>2, FS_Subset
  <1>8. CASE e = {}
    <2>1. k = b \cap Exclusive
      BY <1>1, <1>8
    <2>2. Cardinality(k) <= 1
      BY <2>1 DEF CanHold
    <2>3. Cardinality(k) \in Nat
      BY <1>7, <2>1, FS_CardinalityType
    <2> QED BY <1>6, <2>2, <2>3
  <1>9. CASE e # {}
    <2>1. b \cap Exclusive = {}
      BY <1>9 DEF Accepts
    <2>2. k \in SUBSET e
      BY <1>1, <2>1
    <2>3. Cardinality(k) <= Cardinality(e) /\ IsFiniteSet(k)
      BY <1>7, <2>2, FS_Subset
    <2> QED BY <1>6, <1>7, <2>3, FS_CardinalityType
  <1> QED BY <1>8, <1>9

\* What an action may lose, and from whose window.
Delivers ==
    \A i \in lost' \ lost : ~ reinvited =>
        \E c \in Char :
            /\ i \in Window(c)
            /\ \/ ~ CanHold(bag'[c] \cup {i})
               \/ Cardinality(Window(c) \cap Exclusive) > 1

LEMMA RefundRoom ==
    ASSUME RoomInv, NEW c \in Char, NEW d \in Char, c # d,
           NEW t \in Trade, NEW u \in Trade,
           t = trade[c], u = trade[d], Refund(c, t, d, u)
    PROVE  Delivers /\ \A z \in Char : CanHold(bag'[z])
  <1>1. TypedLinks
    BY DEF RoomInv, TradeInv
  <1>2. PICK x \in Fill(bag[c], items[t]), y \in Fill(bag[d], items[u]) :
            /\ bag' = [bag EXCEPT ![c] = @ \cup x, ![d] = @ \cup y]
            /\ lost' = lost \cup (items[t] \ x) \cup (items[u] \ y)
    BY DEF Refund
  <1>3. /\ bag'[c] = bag[c] \cup x /\ bag'[d] = bag[d] \cup y
        /\ \A z \in Char \ {c, d} : bag'[z] = bag[z]
    BY <1>1, <1>2 DEF TypedLinks, TypeOK
  <1>4. \A z \in Char : CanHold(bag'[z])
    BY <1>3, CanHoldFill DEF RoomInv
  <1>5. Window(c) = items[t] /\ Window(d) = items[u]
    BY ConstantFacts DEF Window
  <1>6. ASSUME NEW i \in lost' \ lost
        PROVE  \E z \in Char : i \in Window(z) /\ ~ CanHold(bag'[z] \cup {i})
    <2>1. CASE i \in items[t] \ x
      BY <1>3, <1>5, <2>1, LeftOut
    <2>2. CASE i \in items[u] \ y
      BY <1>3, <1>5, <2>2, LeftOut
    <2> QED BY <1>2, <1>6, <2>1, <2>2
  <1> QED BY <1>4, <1>6 DEF Delivers

\* Whoever is refunded can hold what it gets, whatever was invited.
LEMMA RefundFits ==
    ASSUME RoomInv, NEW c \in Char, NEW d \in Char, c # d,
           NEW t \in Trade, NEW u \in Trade, Refund(c, t, d, u)
    PROVE  \A z \in Char : CanHold(bag'[z])
  <1>1. PICK x \in Fill(bag[c], items[t]), y \in Fill(bag[d], items[u]) :
            bag' = [bag EXCEPT ![c] = @ \cup x, ![d] = @ \cup y]
    BY DEF Refund
  <1>2. /\ bag'[c] = bag[c] \cup x /\ bag'[d] = bag[d] \cup y
        /\ \A z \in Char \ {c, d} : bag'[z] = bag[z]
    BY <1>1 DEF RoomInv, TradeInv, TypedLinks, TypeOK
  <1> QED BY <1>2, CanHoldFill DEF RoomInv

LEMMA RefundOneRoom ==
    ASSUME RoomInv, NEW c \in Char, NEW t \in Trade, t = trade[c], RefundOne(c, t)
    PROVE  Delivers /\ \A z \in Char : CanHold(bag'[z])
  <1>1. TypedLinks
    BY DEF RoomInv, TradeInv
  <1>2. PICK x \in Fill(bag[c], items[t]) :
            /\ bag' = [bag EXCEPT ![c] = @ \cup x]
            /\ lost' = lost \cup (items[t] \ x)
    BY DEF RefundOne
  <1>3. bag'[c] = bag[c] \cup x /\ \A z \in Char \ {c} : bag'[z] = bag[z]
    BY <1>1, <1>2 DEF TypedLinks, TypeOK
  <1>4. \A z \in Char : CanHold(bag'[z])
    BY <1>3, CanHoldFill DEF RoomInv
  <1>5. Window(c) = items[t]
    BY ConstantFacts DEF Window
  <1>6. \A i \in lost' \ lost : i \in Window(c) /\ ~ CanHold(bag'[c] \cup {i})
    BY <1>2, <1>3, <1>5, LeftOut
  <1> QED BY <1>4, <1>6 DEF Delivers

LEMMA ExchangeRoom ==
    ASSUME RoomInv, NEW c \in Char, NEW d \in Char, c # d, NEW t \in Trade, NEW p \in Trade,
           t = trade[c], p = partner[t], d = chr[p], locked[p],
           Accepts(c, exchangeItems[t], exchangeMeso[t]),
           Accepts(d, items[t], meso[t]),
           Collect(c, exchangeItems[t], exchangeMeso[t], d, items[t], meso[t])
    PROVE  Delivers /\ \A z \in Char : CanHold(bag'[z])
  <1>1. TradeInv /\ TypedLinks
    BY DEF RoomInv, TradeInv
  <1> DEFINE S == exchangeItems[t]
             T == items[t]
  <1>2. PICK x \in Fill(bag[c], S), y \in Fill(bag[d], T) :
            /\ bag' = [bag EXCEPT ![c] = @ \cup x, ![d] = @ \cup y]
            /\ lost' = lost \cup (S \ x) \cup (T \ y)
    BY DEF Collect
  <1>3. /\ bag'[c] = bag[c] \cup x /\ bag'[d] = bag[d] \cup y
        /\ \A z \in Char \ {c, d} : bag'[z] = bag[z]
    BY <1>1, <1>2 DEF TypedLinks, TypeOK
  <1>4. \A z \in Char : CanHold(bag'[z])
    BY <1>3, CanHoldFill DEF RoomInv
  <1>5. ASSUME ~ reinvited, NEW i \in lost' \ lost
        PROVE  \E z \in Char : i \in Window(z) /\ Cardinality(Window(z) \cap Exclusive) > 1
    <2>1. trade[d] = p /\ partner[p] = t
      BY <1>1, <1>5, PairFacts, ConstantFacts
    <2>2. p \in Live
      BY <1>1, <2>1, LiveTrade
    <2>3. S = items[p]
      BY <1>1, <1>5, <2>1, <2>2 DEF TradeInv, AgreedOffer
    <2>4. Window(c) = T /\ Window(d) = S
      BY <2>1, <2>3, ConstantFacts DEF Window
    <2>5. S \in SUBSET Item /\ T \in SUBSET Item
      BY <1>1 DEF TypedLinks, TypeOK
    <2>6. CASE i \in S \ x
      <3>1. Cardinality(S \cap Exclusive) > 1
        BY <1>1, <2>5, <2>6, RefusedForKind DEF RoomInv
      <3> QED BY <2>4, <2>6, <3>1
    <2>7. CASE i \in T \ y
      <3>1. Cardinality(T \cap Exclusive) > 1
        BY <1>1, <2>5, <2>7, RefusedForKind DEF RoomInv
      <3> QED BY <2>4, <2>7, <3>1
    <2> QED BY <1>2, <1>5, <2>6, <2>7
  <1> QED BY <1>4, <1>5 DEF Delivers

LEMMA NextRoom ==
    ASSUME RoomInv, Next
    PROVE  Delivers /\ \A z \in Char : CanHold(bag'[z])
  <1>0. TradeInv /\ TypedLinks
    BY DEF RoomInv, TradeInv
  <1>1. PICK c \in Char :
            \/ StartTrade(c)
            \/ \E d \in Char : InviteTrade(c, d)
            \/ VisitTrade(c)
            \/ \E m \in Amounts : SetMeso(c, m)
            \/ \E i \in Item : SetItems(c, i)
            \/ ConfirmFirst(c)
            \/ ConfirmSecond(c)
            \/ CancelTrade(c)
            \/ DeclineTrade(c)
            \/ \E i \in Item : ReceiveItem(c, i)
            \/ \E m \in Amounts : ReceiveMeso(c, m)
    BY DEF Next
  <1>2. CASE \/ StartTrade(c) \/ \E d \in Char : InviteTrade(c, d)
             \/ VisitTrade(c) \/ ConfirmFirst(c)
             \/ \E m \in Amounts : SetMeso(c, m)
             \/ \E m \in Amounts : ReceiveMeso(c, m)
    <2>1. UNCHANGED <<bag, lost>>
      BY <1>2 DEF StartTrade, InviteTrade, VisitTrade, ConfirmFirst, SetMeso, ReceiveMeso
    <2> QED BY <2>1 DEF RoomInv, Delivers
  <1>3. ASSUME NEW i \in Item, SetItems(c, i) PROVE Delivers /\ \A z \in Char : CanHold(bag'[z])
    <2>1. lost' = lost /\ bag' = [bag EXCEPT ![c] = @ \ {i}]
      BY <1>3 DEF SetItems
    <2>2. \A z \in Char : bag[z] \in SUBSET Item /\ bag'[z] \in SUBSET bag[z]
      BY <1>0, <2>1 DEF TypedLinks, TypeOK
    <2> QED BY <2>1, <2>2, CanHoldLess DEF RoomInv, Delivers
  <1>4. ASSUME NEW i \in Item, ReceiveItem(c, i) PROVE Delivers /\ \A z \in Char : CanHold(bag'[z])
    <2>1. lost' = lost /\ bag' = [bag EXCEPT ![c] = @ \cup {i}] /\ CanHold(bag[c] \cup {i})
      BY <1>4 DEF ReceiveItem
    <2>2. bag'[c] = bag[c] \cup {i} /\ \A z \in Char \ {c} : bag'[z] = bag[z]
      BY <1>0, <2>1 DEF TypedLinks, TypeOK
    <2> QED BY <2>1, <2>2 DEF RoomInv, Delivers
  <1>5. CASE ConfirmSecond(c)
    <2> DEFINE t == trade[c]
               p == partner[t]
               d == chr[p]
    <2>1. t \in Trade /\ p \in Trade /\ d \in Char /\ d # c /\ locked[p]
      BY <1>0, <1>5, InTradeFacts DEF ConfirmSecond
    <2>2. CASE /\ Accepts(c, exchangeItems[t], exchangeMeso[t])
               /\ Accepts(d, items[t], meso[t])
               /\ Collect(c, exchangeItems[t], exchangeMeso[t], d, items[t], meso[t])
      BY <2>1, <2>2, ExchangeRoom
    <2>3. CASE Refund(c, t, d, p)
      <3>1. CASE ~ reinvited
        BY <1>0, <2>1, <2>3, <3>1, PairFacts, RefundRoom, ConstantFacts
      <3>2. CASE reinvited
        BY <1>0, <2>1, <2>3, <3>2, RefundFits DEF Delivers
      <3> QED BY <3>1, <3>2
    <2> QED BY <1>5, <2>2, <2>3 DEF ConfirmSecond
  <1>6. CASE CancelTrade(c)
    <2> DEFINE t == trade[c]
               p == partner[t]
    <2>1. t \in Trade /\ (p # NoTrade => p \in Trade /\ chr[p] \in Char /\ chr[p] # c)
      BY <1>0, <1>6, InTradeFacts DEF CancelTrade
    <2>2. CASE p # NoTrade /\ Refund(c, t, chr[p], p)
      <3>1. CASE ~ reinvited
        BY <1>0, <2>1, <2>2, <3>1, PairFacts, RefundRoom, ConstantFacts
      <3>2. CASE reinvited
        BY <1>0, <2>1, <2>2, <3>2, RefundFits DEF Delivers
      <3> QED BY <3>1, <3>2
    <2>3. CASE RefundOne(c, t)
      BY <2>1, <2>3, RefundOneRoom
    <2> QED BY <1>6, <2>2, <2>3 DEF CancelTrade
  <1>7. CASE DeclineTrade(c)
    <2> DEFINE t == trade[c]
               d == chr[partner[t]]
               u == IF partner[t] = NoTrade THEN NoTrade ELSE trade[d]
    <2>1. t \in Trade
      BY <1>0, <1>7, InTradeFacts DEF DeclineTrade
    <2>2. CASE u # NoTrade /\ Refund(c, t, d, u)
      <3>1. partner[t] # NoTrade /\ u = trade[d]
        BY <2>2
      <3>2. d \in Char /\ d # c
        BY <1>0, <3>1, <1>7, InTradeFacts DEF DeclineTrade
      <3>3. u \in Trade
        BY <1>0, <2>2, <3>1, <3>2, InTradeFacts
      <3> QED BY <2>1, <2>2, <3>1, <3>2, <3>3, RefundRoom
    <2>3. CASE RefundOne(c, t)
      BY <2>1, <2>3, RefundOneRoom
    <2> QED BY <1>7, <2>2, <2>3 DEF DeclineTrade
  <1> QED BY <1>1, <1>2, <1>3, <1>4, <1>5, <1>6, <1>7

\* An exchange that check() lets pass delivers every stack but a second one of
\* a kind; a refund loses one only if its owner's inventory has filled.
THEOREM ExchangesDeliver == Spec => ExchangeDelivers
  <1>1. Init => RoomInv
    BY InitTradeInv, TradeAssumption DEF Init, RoomInv, CanHold
  <1>2. RoomInv /\ [Next]_vars => RoomInv' /\ [Delivers]_vars
    <2> SUFFICES ASSUME RoomInv, [Next]_vars PROVE RoomInv' /\ [Delivers]_vars
      OBVIOUS
    <2>1. TradeInv'
      BY NextTradeInv DEF RoomInv
    <2>2. CASE UNCHANGED vars
      BY <2>1, <2>2 DEF vars, RoomInv
    <2>3. CASE Next
      BY <2>1, <2>3, NextRoom DEF RoomInv
    <2> QED BY <2>2, <2>3
  <1>3. Spec => [][Delivers]_vars
    BY <1>1, <1>2, PTL DEF Spec
  <1> QED BY <1>3 DEF ExchangeDelivers, Delivers

-----------------------------------------------------------------------------
(* Sums over a finite set.  MapThenSumSet is a recursive function on the     *)
(* subsets of the set; that one exists, and what it gives, follows from the  *)
(* smallest subset for which it would not.                                   *)

\* The sum of h over a set is the last of the sums i over its subsets, each of
\* which takes one element more.
Chosen(s) == CHOOSE x \in s : TRUE
Sums(i, S, h) ==
    i = [s \in SUBSET S |-> IF s = {} THEN 0 ELSE h[Chosen(s)] + i[s \ {Chosen(s)}]]
Total(h, S) == (CHOOSE i : Sums(i, S, h))[S]

\* Among sets of subsets of a finite set some subset contains no other.
LEMMA SmallestSubset ==
    ASSUME NEW S, IsFiniteSet(S), NEW Bad, Bad \subseteq SUBSET S, Bad # {}
    PROVE  \E m \in Bad : \A s \in Bad : s \subseteq m => s = m
  <1>1. IsWellFoundedOn(StrictSubsetOrdering(S), FiniteSubsetsOf(S)) /\ FiniteSubsetsOf(S) = SUBSET S
    BY FS_StrictSubsetOrderingWellFounded, FS_FiniteSubsetsOfFinite
  <1>2. PICK m \in Bad : \A s \in Bad : <<s, m>> \notin StrictSubsetOrdering(S)
    BY <1>1, WFMin
  <1>3. ASSUME NEW s \in Bad, s \subseteq m, s # m
        PROVE  FALSE
    <2>1. <<s, m>> \in StrictSubsetOrdering(S)
      BY <1>3 DEF StrictSubsetOrdering
    <2> QED BY <1>2, <2>1
  <1>4. \A s \in Bad : s \subseteq m => s = m
    BY <1>3, Zenon
  <1> QED BY <1>4

\* What the sums are at each subset.
LEMMA SumsStep ==
    ASSUME NEW S, NEW h, NEW i, Sums(i, S, h), NEW s \in SUBSET S
    PROVE  /\ s = {} => i[s] = 0
           /\ s # {} => /\ Chosen(s) \in s
                        /\ s \ {Chosen(s)} \in SUBSET S
                        /\ s \ {Chosen(s)} \subseteq s /\ s \ {Chosen(s)} # s
                        /\ i[s] = h[Chosen(s)] + i[s \ {Chosen(s)}]
  <1>1. s # {} => Chosen(s) \in s
    BY DEF Chosen
  <1>2. i[s] = IF s = {} THEN 0 ELSE h[Chosen(s)] + i[s \ {Chosen(s)}]
    BY DEF Sums
  <1> QED BY <1>1, <1>2

\* Functions that agree on a set have the same sums over its subsets.
LEMMA SumsAgree ==
    ASSUME NEW S, IsFiniteSet(S), NEW T \in SUBSET S, NEW h, NEW g, NEW i, NEW j,
           Sums(i, S, h), Sums(j, T, g), \A x \in T : h[x] = g[x]
    PROVE  \A s \in SUBSET T : i[s] = j[s]
  <1>0. PICK Bad : Bad = {s \in SUBSET T : i[s] # j[s]}
    OBVIOUS
  <1>1. SUFFICES ASSUME Bad # {} PROVE FALSE
    BY <1>0
  <1>2. PICK m \in Bad : \A s \in Bad : s \subseteq m => s = m
    <2>1. Bad \subseteq SUBSET S
      BY <1>0
    <2> QED BY <1>1, <2>1, SmallestSubset
  <1>3. m \in SUBSET T /\ m \in SUBSET S /\ i[m] # j[m]
    BY <1>0, <1>2
  <1>4. \A s \in SUBSET T : s \subseteq m /\ s # m => i[s] = j[s]
    BY <1>0, <1>2
  <1>5. m # {}
    <2>1. m = {} => i[m] = 0
      BY <1>3 DEF Sums
    <2>2. m = {} => j[m] = 0
      BY <1>3 DEF Sums
    <2> QED BY <1>3, <2>1, <2>2
  <1> DEFINE n == m \ {Chosen(m)}
  <1>6. /\ Chosen(m) \in m /\ n \subseteq m /\ n # m
        /\ i[m] = h[Chosen(m)] + i[n] /\ j[m] = g[Chosen(m)] + j[n]
    BY <1>3, <1>5, SumsStep
  <1>7. i[n] = j[n] /\ h[Chosen(m)] = g[Chosen(m)]
    BY <1>3, <1>4, <1>6
  <1> QED BY <1>3, <1>6, <1>7

\* The sums over a part are the same as within the whole.
LEMMA SumsSame ==
    ASSUME NEW S, IsFiniteSet(S), NEW T \in SUBSET S, NEW h, NEW i, NEW j,
           Sums(i, S, h), Sums(j, T, h)
    PROVE  \A s \in SUBSET T : i[s] = j[s]
  <1>1. PICK g : g = h
    OBVIOUS
  <1>2. Sums(j, T, g) /\ \A x \in T : h[x] = g[x]
    BY <1>1
  <1> QED BY <1>2, SumsAgree

\* There are such sums: for a smallest subset without them they could be made
\* of those of its parts.
LEMMA SumsExist ==
    ASSUME NEW S, IsFiniteSet(S), NEW h
    PROVE  \E i : Sums(i, S, h)
  <1>0. PICK Bad : Bad = {s \in SUBSET S : ~ \E i : Sums(i, s, h)}
    OBVIOUS
  <1>1. SUFFICES ASSUME Bad # {} PROVE FALSE
    BY <1>0
  <1>2. PICK m \in Bad : \A s \in Bad : s \subseteq m => s = m
    <2>1. Bad \subseteq SUBSET S
      BY <1>0
    <2> QED BY <1>1, <2>1, SmallestSubset
  <1>3. m \in SUBSET S /\ ~ \E i : Sums(i, m, h)
    BY <1>0, <1>2
  <1> DEFINE Below == {s \in SUBSET m : s # m}
  <1>4. \A s \in Below : \E i : Sums(i, s, h)
    BY <1>0, <1>2, <1>3 DEF Below
  <1>5. PICK G : G = [s \in Below |-> CHOOSE i : Sums(i, s, h)]
    OBVIOUS
  <1>6. \A s \in Below : Sums(G[s], s, h)
    <2> TAKE s \in Below
    <2>1. Sums(CHOOSE i : Sums(i, s, h), s, h)
      BY <1>4
    <2> QED BY <1>5, <2>1
  <1> HIDE DEF Below
  <1>7. PICK F : F = [s \in SUBSET m |-> IF s = {} THEN 0
                                          ELSE h[Chosen(s)] + G[s \ {Chosen(s)}][s \ {Chosen(s)}]]
    OBVIOUS
  <1>8. \A s \in SUBSET m : s # {} => s \ {Chosen(s)} \in Below /\ Chosen(s) \in s
    BY DEF Below, Chosen
  <1>9. \A s \in Below : F[s] = G[s][s]
    <2> SUFFICES ASSUME NEW s \in Below PROVE F[s] = G[s][s]
      OBVIOUS
    <2>1. s \in SUBSET m /\ s \in SUBSET s /\ IsFiniteSet(s)
      BY <1>3, FS_Subset DEF Below
    <2>2. CASE s = {}
      <3>1. Sums(G[s], s, h)
        BY <1>6
      <3>2. G[s][s] = 0
        BY <2>1, <2>2, <3>1, SumsStep
      <3> QED BY <1>7, <2>1, <2>2, <3>2
    <2>3. CASE s # {}
      <3> DEFINE n == s \ {Chosen(s)}
      <3>1. n \in Below /\ n \in SUBSET s /\ n \in SUBSET n
        BY <1>8, <2>1, <2>3
      <3>2. G[s][n] = G[n][n]
        <4>1. PICK i, j : i = G[s] /\ j = G[n]
          OBVIOUS
        <4>2. Sums(i, s, h) /\ Sums(j, n, h)
          BY <1>6, <3>1, <4>1
        <4>4. IsFiniteSet(s) /\ n \in SUBSET s
          BY <2>1, <3>1
        <4> HIDE DEF n
        <4>3. \A u \in SUBSET n : i[u] = j[u]
          BY <4>2, <4>4, SumsSame
        <4> QED BY <3>1, <4>1, <4>3
      <3>3. G[s][s] = h[Chosen(s)] + G[s][n]
        <4>1. Sums(G[s], s, h)
          BY <1>6
        <4> QED BY <2>1, <2>3, <4>1, SumsStep
      <3>4. F[s] = h[Chosen(s)] + G[n][n]
        BY <1>7, <2>1, <2>3
      <3> QED BY <3>2, <3>3, <3>4
    <2> QED BY <2>2, <2>3
  <1>10. Sums(F, m, h)
    <2>1. \A s \in SUBSET m : s # {} => F[s \ {Chosen(s)}] = G[s \ {Chosen(s)}][s \ {Chosen(s)}]
      BY <1>8, <1>9
    <2>2. F = [s \in SUBSET m |-> IF s = {} THEN 0 ELSE h[Chosen(s)] + F[s \ {Chosen(s)}]]
      BY <1>7, <2>1
    <2> QED BY <2>2 DEF Sums
  <1> QED BY <1>3, <1>10

\* Whatever has the sums has the total.
LEMMA TotalIs ==
    ASSUME NEW S, IsFiniteSet(S), NEW h, NEW g, NEW i, Sums(i, S, g), \A x \in S : h[x] = g[x]
    PROVE  i[S] = Total(h, S)
  <1>1. Sums(CHOOSE j : Sums(j, S, h), S, h)
    BY SumsExist
  <1>2. PICK j : j = CHOOSE k : Sums(k, S, h)
    OBVIOUS
  <1>3. Sums(j, S, h) /\ S \in SUBSET S /\ \A x \in S : g[x] = h[x]
    BY <1>1, <1>2
  <1>4. \A s \in SUBSET S : i[s] = j[s]
    BY <1>3, SumsAgree
  <1> QED BY <1>2, <1>4 DEF Total

\* Changing one element changes the total by as much.
LEMMA TotalChanges ==
    ASSUME NEW S, IsFiniteSet(S), NEW h \in [S -> Int], NEW g \in [S -> Int], NEW c \in S,
           \A x \in S : x # c => h[x] = g[x]
    PROVE  /\ Total(h, S) \in Int /\ Total(g, S) \in Int
           /\ Total(g, S) - Total(h, S) = g[c] - h[c]
  <1>1. PICK i, j : Sums(i, S, h) /\ Sums(j, S, g)
    BY SumsExist
  <1> DEFINE Fine(s) == /\ i[s] \in Int /\ j[s] \in Int
                        /\ j[s] - i[s] = IF c \in s THEN g[c] - h[c] ELSE 0
  <1> HIDE DEF Fine
  <1>2. \A s \in SUBSET S : Fine(s)
    <2>0. PICK Bad : Bad = {s \in SUBSET S : ~ Fine(s)}
      OBVIOUS
    <2>1. SUFFICES ASSUME Bad # {} PROVE FALSE
      BY <2>0
    <2>2. PICK m \in Bad : \A s \in Bad : s \subseteq m => s = m
      <3>1. Bad \subseteq SUBSET S
        BY <2>0
      <3> QED BY <2>1, <3>1, SmallestSubset
    <2>3. m \in SUBSET S /\ ~ Fine(m)
      BY <2>0, <2>2
    <2>4. \A s \in SUBSET S : s \subseteq m /\ s # m => Fine(s)
      BY <2>0, <2>2
    <2>5. m # {}
      <3>1. m = {} => i[m] = 0
        BY <1>1, <2>3 DEF Sums
      <3>2. m = {} => j[m] = 0
        BY <1>1, <2>3 DEF Sums
      <3> QED BY <2>3, <3>1, <3>2 DEF Fine
    <2> DEFINE n == m \ {Chosen(m)}
    <2>6. /\ Chosen(m) \in m /\ n \subseteq m /\ n # m
          /\ i[m] = h[Chosen(m)] + i[n] /\ j[m] = g[Chosen(m)] + j[n]
      <3>1. /\ Chosen(m) \in m /\ n \subseteq m /\ n # m
        BY <2>5 DEF Chosen
      <3>2. i[m] = h[Chosen(m)] + i[n]
        BY <1>1, <2>3, <2>5 DEF Sums
      <3>3. j[m] = g[Chosen(m)] + j[n]
        BY <1>1, <2>3, <2>5 DEF Sums
      <3> QED BY <3>1, <3>2, <3>3
    <2>7. Fine(n)
      BY <2>3, <2>4, <2>6
    <2>8. Chosen(m) \in S /\ (c \in n <=> c \in m /\ c # Chosen(m))
      BY <2>3, <2>6
    <2>9. h[Chosen(m)] \in Int /\ g[Chosen(m)] \in Int /\ g[c] \in Int /\ h[c] \in Int
      BY <2>8
    <2>10. Fine(m)
      BY <2>6, <2>7, <2>8, <2>9 DEF Fine
    <2> QED BY <2>3, <2>10
  <1>3. Fine(S)
    BY <1>2
  <1>4. i[S] = Total(h, S) /\ j[S] = Total(g, S)
    BY <1>1, TotalIs
  <1> QED BY <1>3, <1>4 DEF Fine
\* The total of integers is one.
LEMMA TotalInt ==
    ASSUME NEW S, IsFiniteSet(S), NEW h \in [S -> Int]
    PROVE  Total(h, S) \in Int
  <1>1. CASE S = {}
    <2>1. PICK i : Sums(i, S, h)
      BY SumsExist
    <2>2. i[S] = 0
      BY <1>1, <2>1 DEF Sums
    <2>3. i[S] = Total(h, S)
      BY <2>1, TotalIs
    <2> QED BY <2>2, <2>3
  <1>2. CASE S # {}
    <2>1. PICK c \in S : TRUE
      BY <1>2
    <2>2. \A x \in S : x # c => h[x] = h[x]
      OBVIOUS
    <2> QED BY <2>1, TotalChanges
  <1> QED BY <1>1, <1>2

\* The same for two elements.
LEMMA TotalChangesTwo ==
    ASSUME NEW S, IsFiniteSet(S), NEW h \in [S -> Int], NEW g \in [S -> Int],
           NEW c \in S, NEW d \in S, c # d,
           \A x \in S : x # c /\ x # d => h[x] = g[x]
    PROVE  /\ Total(h, S) \in Int /\ Total(g, S) \in Int
           /\ Total(g, S) - Total(h, S) = (g[c] - h[c]) + (g[d] - h[d])
  <1>1. PICK k : k = [h EXCEPT ![c] = g[c]]
    OBVIOUS
  <1>2. /\ k \in [S -> Int] /\ k[c] = g[c] /\ k[d] = h[d]
        /\ \A x \in S : x # c => h[x] = k[x]
        /\ \A x \in S : x # d => k[x] = g[x]
    BY <1>1
  <1>3. /\ Total(h, S) \in Int /\ Total(k, S) \in Int
        /\ Total(k, S) - Total(h, S) = k[c] - h[c]
    BY <1>2, TotalChanges
  <1>4. /\ Total(g, S) \in Int
        /\ Total(g, S) - Total(k, S) = g[d] - k[d]
    BY <1>2, TotalChanges
  <1> QED BY <1>2, <1>3, <1>4

-----------------------------------------------------------------------------
(* Meso.  What a character has is in its purse and in the window it sits at;  *)
(* a step changes that of one character or of the two ends of a pair, by as   *)
(* much as it changes sunk.                                                  *)

Offered(c) == IF trade[c] = NoTrade THEN 0 ELSE meso[trade[c]]
Wealth == [c \in Char |-> purse[c] + Offered(c)]

MesoInv == TradeInv /\ (~ reinvited => Total(Wealth, Char) + sunk = Total(StartPurse, Char))

Balanced == Total(Wealth', Char) + sunk' = Total(Wealth, Char) + sunk

LEMMA WealthType ==
    ASSUME TypedLinks
    PROVE  /\ Wealth \in [Char -> Int]
           /\ \A c \in Char : Wealth[c] = purse[c] + Offered(c) /\ purse[c] \in Int /\ Offered(c) \in Int
           /\ Total(Wealth, Char) \in Int /\ sunk \in Int
  <1>1. \A c \in Char : purse[c] \in Int /\ Offered(c) \in Int
    BY ConstantFacts DEF TypedLinks, TypeOK, Offered
  <1>2. Wealth \in [Char -> Int] /\ \A c \in Char : Wealth[c] = purse[c] + Offered(c)
    BY <1>1 DEF Wealth
  <1>3. Total(Wealth, Char) \in Int
    BY <1>2, TotalInt, TradeAssumption
  <1> QED BY <1>1, <1>2, <1>3 DEF TypedLinks, TypeOK

\* Two characters, or one, gain what sunk loses, and nobody else anything.
LEMMA BalanceTwo ==
    ASSUME TypedLinks, TypedLinks', NEW c \in Char, NEW d \in Char, c # d,
           \A x \in Char \ {c, d} : purse'[x] = purse[x] /\ Offered(x)' = Offered(x),
           sunk' - sunk = (purse[c] + Offered(c) - (purse'[c] + Offered(c)'))
                          + (purse[d] + Offered(d) - (purse'[d] + Offered(d)'))
    PROVE  Balanced
  <1>1. PICK h, g : h = Wealth /\ g = Wealth'
    OBVIOUS
  <1>2. /\ h \in [Char -> Int] /\ sunk \in Int
        /\ \A x \in Char : h[x] = purse[x] + Offered(x) /\ purse[x] \in Int /\ Offered(x) \in Int
    BY <1>1, WealthType
  <1>3. /\ g \in [Char -> Int] /\ sunk' \in Int
        /\ \A x \in Char : g[x] = purse'[x] + Offered(x)' /\ purse'[x] \in Int /\ Offered(x)' \in Int
    <2>1. \A x \in Char : purse'[x] \in Int /\ Offered(x)' \in Int
      BY ConstantFacts DEF TypedLinks, TypeOK, Offered
    <2>2. g = [x \in Char |-> purse'[x] + Offered(x)']
      BY <1>1 DEF Wealth
    <2> QED BY <2>1, <2>2 DEF TypedLinks, TypeOK
  <1>4. \A x \in Char : x # c /\ x # d => h[x] = g[x]
    BY <1>2, <1>3
  <1>5. /\ Total(h, Char) \in Int /\ Total(g, Char) \in Int
        /\ Total(g, Char) - Total(h, Char) = (g[c] - h[c]) + (g[d] - h[d])
    BY <1>2, <1>3, <1>4, TotalChangesTwo, TradeAssumption
  <1>7. /\ h[c] = purse[c] + Offered(c) /\ g[c] = purse'[c] + Offered(c)'
        /\ purse[c] \in Int /\ Offered(c) \in Int /\ purse'[c] \in Int /\ Offered(c)' \in Int
        /\ h[d] = purse[d] + Offered(d) /\ g[d] = purse'[d] + Offered(d)'
        /\ purse[d] \in Int /\ Offered(d) \in Int /\ purse'[d] \in Int /\ Offered(d)' \in Int
    BY <1>2, <1>3
  <1>8. sunk \in Int /\ sunk' \in Int
    BY <1>2, <1>3
  <1>6. Total(g, Char) + sunk' = Total(h, Char) + sunk
    BY <1>5, <1>7, <1>8
  <1> QED BY <1>1, <1>6 DEF Balanced

LEMMA BalanceOne ==
    ASSUME TypedLinks, TypedLinks', NEW c \in Char,
           \A x \in Char \ {c} : purse'[x] = purse[x] /\ Offered(x)' = Offered(x),
           sunk' - sunk = purse[c] + Offered(c) - (purse'[c] + Offered(c)')
    PROVE  Balanced
  <1>1. PICK h, g : h = Wealth /\ g = Wealth'
    OBVIOUS
  <1>2. /\ h \in [Char -> Int] /\ sunk \in Int
        /\ \A x \in Char : h[x] = purse[x] + Offered(x) /\ purse[x] \in Int /\ Offered(x) \in Int
    BY <1>1, WealthType
  <1>3. /\ g \in [Char -> Int] /\ sunk' \in Int
        /\ \A x \in Char : g[x] = purse'[x] + Offered(x)' /\ purse'[x] \in Int /\ Offered(x)' \in Int
    <2>1. \A x \in Char : purse'[x] \in Int /\ Offered(x)' \in Int
      BY ConstantFacts DEF TypedLinks, TypeOK, Offered
    <2>2. g = [x \in Char |-> purse'[x] + Offered(x)']
      BY <1>1 DEF Wealth
    <2> QED BY <2>1, <2>2 DEF TypedLinks, TypeOK
  <1>4. \A x \in Char : x # c => h[x] = g[x]
    BY <1>2, <1>3
  <1>5. /\ Total(h, Char) \in Int /\ Total(g, Char) \in Int
        /\ Total(g, Char) - Total(h, Char) = g[c] - h[c]
    BY <1>2, <1>3, <1>4, TotalChanges, TradeAssumption
  <1>7. /\ h[c] = purse[c] + Offered(c) /\ g[c] = purse'[c] + Offered(c)'
        /\ purse[c] \in Int /\ Offered(c) \in Int /\ purse'[c] \in Int /\ Offered(c)' \in Int
    BY <1>2, <1>3
  <1>8. sunk \in Int /\ sunk' \in Int
    BY <1>2, <1>3
  <1>6. Total(g, Char) + sunk' = Total(h, Char) + sunk
    BY <1>5, <1>7, <1>8
  <1> QED BY <1>1, <1>6 DEF Balanced

\* The windows after c and d left: those of others stay.
LEMMA OffersLeft ==
    ASSUME TypedLinks, NEW c \in Char, NEW d \in Char,
           trade' = [trade EXCEPT ![c] = NoTrade, ![d] = NoTrade],
           \A x \in Char \ {c, d} : trade[x] # NoTrade => meso'[trade[x]] = meso[trade[x]]
    PROVE  /\ Offered(c)' = 0 /\ Offered(d)' = 0
           /\ \A x \in Char \ {c, d} : Offered(x)' = Offered(x)
  BY DEF Offered, TypedLinks, TypeOK

LEMMA RefundBalanced ==
    ASSUME TypedLinks, TypedLinks', NEW c \in Char, NEW d \in Char, c # d,
           NEW t \in Trade, NEW u \in Trade, trade[c] = t, trade[d] = u,
           Refund(c, t, d, u), BothLeave(c, d)
    PROVE  Balanced
  <1>1. chr[t] = c /\ chr[u] = d
    BY InTradeFacts, ConstantFacts
  <1>2. \A x \in Char \ {c, d} : trade[x] # NoTrade => meso'[trade[x]] = meso[trade[x]]
    BY <1>1, InTradeFacts DEF Refund, TypedLinks, TypeOK
  <1>3. /\ Offered(c)' = 0 /\ Offered(d)' = 0
        /\ \A x \in Char \ {c, d} : Offered(x)' = Offered(x)
    BY <1>2, OffersLeft DEF BothLeave
  <1>4. \A x \in Char \ {c, d} : purse'[x] = purse[x]
    BY DEF Refund, TypedLinks, TypeOK
  <1>5. Offered(c) = meso[t] /\ Offered(d) = meso[u]
    BY ConstantFacts DEF Offered
  <1>6. sunk' = sunk + (purse[c] + meso[t] - purse'[c]) + (purse[d] + meso[u] - purse'[d])
    BY DEF Refund
  <1>7. /\ purse[c] \in Int /\ purse[d] \in Int /\ purse'[c] \in Int /\ purse'[d] \in Int
        /\ meso[t] \in Int /\ meso[u] \in Int /\ sunk \in Int
    BY ConstantFacts DEF TypedLinks, TypeOK
  <1>8. sunk' - sunk = (purse[c] + Offered(c) - (purse'[c] + Offered(c)'))
                       + (purse[d] + Offered(d) - (purse'[d] + Offered(d)'))
    BY <1>3, <1>5, <1>6, <1>7
  <1> QED BY <1>3, <1>4, <1>8, BalanceTwo

LEMMA RefundOneBalanced ==
    ASSUME TypedLinks, TypedLinks', NEW c \in Char, NEW t \in Trade, trade[c] = t,
           RefundOne(c, t), trade' = [trade EXCEPT ![c] = NoTrade]
    PROVE  Balanced
  <1>1. chr[t] = c
    BY InTradeFacts, ConstantFacts
  <1>2. \A x \in Char \ {c} : trade[x] # NoTrade => meso'[trade[x]] = meso[trade[x]]
    BY <1>1, InTradeFacts DEF RefundOne, TypedLinks, TypeOK
  <1>3. Offered(c)' = 0 /\ \A x \in Char \ {c} : Offered(x)' = Offered(x)
    BY <1>2 DEF Offered, TypedLinks, TypeOK
  <1>4. \A x \in Char \ {c} : purse'[x] = purse[x]
    BY DEF RefundOne, TypedLinks, TypeOK
  <1>5. Offered(c) = meso[t] /\ sunk' = sunk + (purse[c] + meso[t] - purse'[c])
    BY ConstantFacts DEF Offered, RefundOne
  <1>6. purse[c] \in Int /\ purse'[c] \in Int /\ meso[t] \in Int /\ sunk \in Int
    BY ConstantFacts DEF TypedLinks, TypeOK
  <1>7. sunk' - sunk = purse[c] + Offered(c) - (purse'[c] + Offered(c)')
    BY <1>3, <1>5, <1>6
  <1> QED BY <1>3, <1>4, <1>7, BalanceOne

\* What each side collects is what the other confirmed.
LEMMA ExchangeBalanced ==
    ASSUME TradeInv, TypedLinks', ~ reinvited, NEW c \in Char, NEW d \in Char, NEW t, NEW p,
           t = trade[c], t # NoTrade, p = partner[t], p # NoTrade, d = chr[p],
           locked[p], BothLeave(c, d), UNCHANGED windowVars,
           Collect(c, exchangeItems[t], exchangeMeso[t], d, items[t], meso[t])
    PROVE  Balanced
  <1>1. TypedLinks
    BY DEF TradeInv
  <1>2. t \in Trade /\ p \in Trade /\ c # d /\ trade[d] = p /\ partner[p] = t
    BY PairFacts
  <1>3. p \in Live
    BY <1>1, <1>2, LiveTrade
  <1>4. exchangeMeso[t] = meso[p]
    BY <1>2, <1>3 DEF TradeInv, AgreedOffer
  <1>5. /\ Offered(c)' = 0 /\ Offered(d)' = 0
        /\ \A x \in Char \ {c, d} : Offered(x)' = Offered(x)
    <2>1. \A x \in Char \ {c, d} : trade[x] # NoTrade => meso'[trade[x]] = meso[trade[x]]
      OBVIOUS
    <2>2. trade' = [trade EXCEPT ![c] = NoTrade, ![d] = NoTrade]
      BY DEF BothLeave
    <2> QED BY <1>1, <2>1, <2>2, OffersLeft
  <1>6. Offered(c) = meso[t] /\ Offered(d) = meso[p]
    BY <1>2, ConstantFacts DEF Offered
  <1>7. /\ meso[t] \in 0..MaxMeso /\ meso[p] \in 0..MaxMeso /\ sunk \in Int
        /\ purse \in [Char -> 0..MaxMeso] /\ purse[c] \in Int /\ purse[d] \in Int
    BY <1>1, <1>2, ConstantFacts DEF TypedLinks, TypeOK
  <1>8. Tax(meso[t]) \in Int /\ Tax(meso[p]) \in Int /\ meso[t] \in Int /\ meso[p] \in Int
    BY <1>7, TradeAssumption
  <1>9. /\ purse' = [purse EXCEPT ![c] = @ + meso[p] - Tax(meso[p]), ![d] = @ + meso[t] - Tax(meso[t])]
        /\ sunk' = sunk + Tax(meso[p]) + Tax(meso[t])
    BY <1>4 DEF Collect
  <1>10. /\ purse'[c] = purse[c] + meso[p] - Tax(meso[p])
         /\ purse'[d] = purse[d] + meso[t] - Tax(meso[t])
         /\ \A x \in Char \ {c, d} : purse'[x] = purse[x]
    BY <1>2, <1>7, <1>9
  <1>11. sunk' - sunk = (purse[c] + Offered(c) - (purse'[c] + Offered(c)'))
                        + (purse[d] + Offered(d) - (purse'[d] + Offered(d)'))
    <2>1. sunk' = sunk + Tax(meso[p]) + Tax(meso[t])
      BY <1>9
    <2>2. purse'[c] = purse[c] + meso[p] - Tax(meso[p]) /\ purse'[d] = purse[d] + meso[t] - Tax(meso[t])
      BY <1>10
    <2>3. Offered(c)' = 0 /\ Offered(d)' = 0
      BY <1>5
    <2>4. purse[c] \in Int /\ purse[d] \in Int /\ sunk \in Int
      BY <1>7
    <2> QED BY <1>6, <1>8, <2>1, <2>2, <2>3, <2>4
  <1> QED BY <1>1, <1>2, <1>5, <1>10, <1>11, BalanceTwo

LEMMA SetMesoBalanced ==
    ASSUME TypedLinks, TypedLinks', NEW c \in Char, NEW m \in Amounts, SetMeso(c, m)
    PROVE  Balanced
  <1>1. trade[c] # NoTrade /\ trade[c] \in Trade /\ m \in Int
    BY InTradeFacts, ConstantFacts DEF SetMeso
  <1>2. /\ purse' = [purse EXCEPT ![c] = @ - m]
        /\ meso' = [meso EXCEPT ![trade[c]] = @ + m]
        /\ trade' = trade /\ sunk' = sunk
    BY DEF SetMeso
  <1>3. \A x \in Char \ {c} : trade[x] # NoTrade => trade[x] # trade[c] /\ trade[x] \in Trade
    BY <1>1, InTradeFacts
  <1>4. \A x \in Char \ {c} : purse'[x] = purse[x] /\ Offered(x)' = Offered(x)
    BY <1>2, <1>3 DEF Offered, TypedLinks, TypeOK
  <1>5. /\ purse'[c] = purse[c] - m /\ Offered(c) = meso[trade[c]] /\ Offered(c)' = meso[trade[c]] + m
    BY <1>1, <1>2 DEF Offered, TypedLinks, TypeOK
  <1>6. purse[c] \in Int /\ meso[trade[c]] \in Int /\ sunk \in Int
    BY <1>1, ConstantFacts DEF TypedLinks, TypeOK
  <1>7. sunk' - sunk = purse[c] + Offered(c) - (purse'[c] + Offered(c)')
    BY <1>1, <1>2, <1>5, <1>6
  <1> QED BY <1>4, <1>7, BalanceOne

LEMMA ReceiveMesoBalanced ==
    ASSUME TypedLinks, TypedLinks', NEW c \in Char, NEW m \in Amounts, ReceiveMeso(c, m)
    PROVE  Balanced
  <1>1. /\ purse' = [purse EXCEPT ![c] = @ + m] /\ sunk' = sunk - m
        /\ trade' = trade /\ meso' = meso /\ m \in Int
    <2>1. m \in Int
      BY ConstantFacts
    <2> QED BY <2>1 DEF ReceiveMeso
  <1>2. \A x \in Char : Offered(x)' = Offered(x)
    BY <1>1 DEF Offered
  <1>3. purse'[c] = purse[c] + m /\ \A x \in Char \ {c} : purse'[x] = purse[x]
    BY <1>1 DEF TypedLinks, TypeOK
  <1>4. purse[c] \in Int /\ Offered(c) \in Int /\ sunk \in Int
    BY WealthType
  <1>5. sunk' - sunk = purse[c] + Offered(c) - (purse'[c] + Offered(c)')
    BY <1>1, <1>2, <1>3, <1>4
  <1> QED BY <1>2, <1>3, <1>5, BalanceOne

\* A step that leaves every purse and every open window as it is.
LEMMA SameBalanced ==
    ASSUME purse' = purse, sunk' = sunk, \A x \in Char : Offered(x)' = Offered(x)
    PROVE  Balanced
  <1>1. Wealth' = Wealth
    BY DEF Wealth
  <1> QED BY <1>1 DEF Balanced

\* A character sits down in a new trade, where nothing was put up.
LEMMA NewTradeBalanced ==
    ASSUME TypedLinks, NEW c \in Char, trade[c] = NoTrade, NEW t \in Trade, chr[t] = NoChar,
           trade' = [trade EXCEPT ![c] = t], UNCHANGED <<meso, purse, sunk>>
    PROVE  Balanced
  <1>1. meso[t] = 0
    BY DEF TypedLinks, Linked
  <1>2. \A x \in Char : Offered(x)' = Offered(x)
    BY <1>1 DEF Offered, TypedLinks, TypeOK
  <1> QED BY <1>2, SameBalanced

\* Most steps touch neither.
LEMMA IdleBalanced ==
    ASSUME UNCHANGED <<trade, meso, purse, sunk>>
    PROVE  Balanced
  <1>1. \A x \in Char : Offered(x)' = Offered(x)
    BY DEF Offered
  <1> QED BY <1>1, SameBalanced

LEMMA IdleSteps ==
    ASSUME NEW c \in Char,
           VisitTrade(c) \/ ConfirmFirst(c) \/ \E i \in Item : SetItems(c, i) \/ ReceiveItem(c, i)
    PROVE  UNCHANGED <<trade, meso, purse, sunk>>
  BY DEF VisitTrade, ConfirmFirst, SetItems, ReceiveItem

LEMMA NotReinvited ==
    ASSUME Next, ~ reinvited'
    PROVE  ~ reinvited
  BY DEF Next, StartTrade, InviteTrade, VisitTrade, SetMeso, SetItems, ConfirmFirst,
         ConfirmSecond, Confirmed, CancelTrade, DeclineTrade, ReceiveItem, ReceiveMeso

LEMMA NextBalanced ==
    ASSUME TradeInv, [Next]_vars, ~ reinvited'
    PROVE  Balanced
  <1>1. TradeInv' /\ TypedLinks /\ TypedLinks'
    BY NextTradeInv DEF TradeInv
  <1>2. CASE UNCHANGED vars
    <2>1. UNCHANGED <<trade, meso, purse, sunk>>
      BY <1>2 DEF vars
    <2> QED BY <2>1, IdleBalanced
  <1>3. Next => ~ reinvited
    BY NotReinvited
  <1>4. ASSUME NEW c \in Char, StartTrade(c) PROVE Balanced
    <2>1. PICK t \in Trade : chr[t] = NoChar /\ trade' = [trade EXCEPT ![c] = t]
      BY <1>4 DEF StartTrade
    <2>2. trade[c] = NoTrade /\ UNCHANGED <<meso, purse, sunk>>
      BY <1>4 DEF StartTrade
    <2> QED BY <1>1, <2>1, <2>2, NewTradeBalanced
  <1>5. ASSUME NEW c \in Char, NEW d \in Char, InviteTrade(c, d) PROVE Balanced
    <2>1. PICK t \in Trade : chr[t] = NoChar /\ trade' = [trade EXCEPT ![d] = t]
      BY <1>5 DEF InviteTrade
    <2>2. trade[d] = NoTrade /\ UNCHANGED <<meso, purse, sunk>>
      BY <1>5 DEF InviteTrade
    <2> QED BY <1>1, <2>1, <2>2, NewTradeBalanced
  <1>6. ASSUME NEW c \in Char,
               VisitTrade(c) \/ ConfirmFirst(c) \/ \E i \in Item : SetItems(c, i) \/ ReceiveItem(c, i)
        PROVE  Balanced
    BY <1>6, IdleSteps, IdleBalanced
  <1>7. ASSUME NEW c \in Char, CancelTrade(c), ~ reinvited PROVE Balanced
    <2>1. trade[c] # NoTrade /\ trade[c] \in Trade
      BY <1>1, <1>7, InTradeFacts DEF CancelTrade
    <2>2. CASE partner[trade[c]] = NoTrade
      BY <1>1, <1>7, <2>1, <2>2, RefundOneBalanced DEF CancelTrade
    <2>3. CASE partner[trade[c]] # NoTrade
      <3>1. PICK t, p, d : t = trade[c] /\ p = partner[t] /\ d = chr[p]
        OBVIOUS
      <3>2. /\ t \in Trade /\ p \in Trade /\ d \in Char /\ c # d /\ trade[d] = p
            /\ Refund(c, t, d, p) /\ BothLeave(c, d)
        BY <1>7, <2>1, <2>3, <3>1, PairFacts DEF CancelTrade
      <3> QED BY <1>1, <3>1, <3>2, RefundBalanced
    <2> QED BY <2>2, <2>3
  <1>8. ASSUME NEW c \in Char, DeclineTrade(c), ~ reinvited PROVE Balanced
    <2>1. CASE partner[trade[c]] # NoTrade
      <3>1. trade[chr[partner[trade[c]]]] = partner[trade[c]]
        BY <1>8, <2>1, PairFacts DEF DeclineTrade
      <3>2. CancelTrade(c)
        BY <1>8, <2>1, <3>1 DEF DeclineTrade, CancelTrade
      <3> QED BY <1>7, <1>8, <3>2
    <2>2. CASE partner[trade[c]] = NoTrade
      <3>1. trade[c] # NoTrade /\ trade[c] \in Trade
        BY <1>1, <1>8, InTradeFacts DEF DeclineTrade
      <3> QED BY <1>1, <1>8, <2>2, <3>1, RefundOneBalanced DEF DeclineTrade
    <2> QED BY <2>1, <2>2
  <1>9. ASSUME NEW c \in Char, ConfirmSecond(c), ~ reinvited PROVE Balanced
    <2>1. PICK t, p, d : t = trade[c] /\ p = partner[t] /\ d = chr[p]
      OBVIOUS
    <2>2. t # NoTrade /\ p # NoTrade /\ locked[p] /\ BothLeave(c, d)
      BY <1>9, <2>1 DEF ConfirmSecond
    <2>3. t \in Trade /\ p \in Trade /\ d \in Char /\ c # d /\ trade[d] = p
      BY <1>9, <2>1, <2>2, PairFacts
    <2>4. CASE UNCHANGED windowVars /\
               Collect(c, exchangeItems[t], exchangeMeso[t], d, items[t], meso[t])
      BY <1>1, <1>9, <2>1, <2>2, <2>3, <2>4, ExchangeBalanced
    <2>5. CASE Refund(c, t, d, p)
      BY <1>1, <2>1, <2>2, <2>3, <2>5, RefundBalanced
    <2> QED BY <1>9, <2>1, <2>4, <2>5 DEF ConfirmSecond
  <1> QED BY <1>1, <1>2, <1>3, <1>4, <1>5, <1>6, <1>7, <1>8, <1>9, SetMesoBalanced,
             ReceiveMesoBalanced DEF Next

LEMMA NextMesoInv == MesoInv /\ [Next]_vars => MesoInv'
  <1> SUFFICES ASSUME MesoInv, [Next]_vars PROVE MesoInv'
    OBVIOUS
  <1>1. TradeInv' /\ TypedLinks
    BY NextTradeInv DEF MesoInv, TradeInv
  <1>2. ASSUME ~ reinvited'
        PROVE  Total(Wealth, Char)' + sunk' = Total(StartPurse, Char)
    <2>1. ~ reinvited
      BY <1>2, NotReinvited DEF vars
    <2>2. Total(Wealth', Char) + sunk' = Total(Wealth, Char) + sunk
      BY <1>2, NextBalanced DEF MesoInv, Balanced
    <2>3. Total(Wealth, Char) + sunk = Total(StartPurse, Char)
      BY <2>1 DEF MesoInv
    <2> QED BY <2>2, <2>3 DEF Total, Sums
  <1> QED BY <1>1, <1>2 DEF MesoInv

\* The sum of the model is the total that the proofs speak of.
LEMMA SumIsTotal ==
    ASSUME NEW S, IsFiniteSet(S), NEW h
    PROVE  MapThenSumSet(LAMBDA c : h[c], S) = Total(h, S)
  <1> DEFINE i == CHOOSE j : j = [s \in SUBSET S |->
                    IF s = {} THEN 0 ELSE LET x == CHOOSE x \in s : TRUE IN h[x] + j[s \ {x}]]
  <1>1. PICK j : Sums(j, S, h)
    BY SumsExist
  <1>2. j = [s \in SUBSET S |->
               IF s = {} THEN 0 ELSE LET x == CHOOSE x \in s : TRUE IN h[x] + j[s \ {x}]]
    BY <1>1 DEF Sums, Chosen
  <1>3. i = [s \in SUBSET S |->
               IF s = {} THEN 0 ELSE LET x == CHOOSE x \in s : TRUE IN h[x] + i[s \ {x}]]
    BY <1>2
  <1>4. MapThenSumSet(LAMBDA c : h[c], S) = i[S]
    BY DEF MapThenSumSet, MapThenFoldSet
  <1> HIDE DEF i
  <1>5. Sums(i, S, h)
    BY <1>3 DEF Sums, Chosen
  <1> QED BY <1>4, <1>5, TotalIs

LEMMA WealthIsTotal ==
    MapThenSumSet(LAMBDA c : purse[c] + Offered(c), Char) = Total(Wealth, Char)
  <1> DEFINE i == CHOOSE j : j = [s \in SUBSET Char |->
                    IF s = {} THEN 0
                    ELSE LET x == CHOOSE x \in s : TRUE IN (purse[x] + Offered(x)) + j[s \ {x}]]
  <1>1. PICK j : Sums(j, Char, Wealth)
    BY SumsExist, TradeAssumption
  <1>2. \A s \in SUBSET Char : s # {} => Wealth[Chosen(s)] = purse[Chosen(s)] + Offered(Chosen(s))
    BY DEF Chosen, Wealth
  <1>3. j = [s \in SUBSET Char |->
               IF s = {} THEN 0
               ELSE LET x == CHOOSE x \in s : TRUE IN (purse[x] + Offered(x)) + j[s \ {x}]]
    <2>1. j = [s \in SUBSET Char |->
                 IF s = {} THEN 0 ELSE (purse[Chosen(s)] + Offered(Chosen(s))) + j[s \ {Chosen(s)}]]
      BY <1>1, <1>2 DEF Sums
    <2> QED BY <2>1 DEF Chosen
  <1>4. i = [s \in SUBSET Char |->
               IF s = {} THEN 0
               ELSE LET x == CHOOSE x \in s : TRUE IN (purse[x] + Offered(x)) + i[s \ {x}]]
    BY <1>3
  <1>5. MapThenSumSet(LAMBDA c : purse[c] + Offered(c), Char) = i[Char]
    BY DEF MapThenSumSet, MapThenFoldSet
  <1> HIDE DEF i
  <1>6. Sums(i, Char, Wealth)
    <2>1. i = [s \in SUBSET Char |->
                 IF s = {} THEN 0 ELSE (purse[Chosen(s)] + Offered(Chosen(s))) + i[s \ {Chosen(s)}]]
      BY <1>4 DEF Chosen
    <2> QED BY <1>2, <2>1 DEF Sums
  <1> QED BY <1>5, <1>6, TotalIs, TradeAssumption

\* Meso is neither made nor lost by a trade that was not invited to twice: the
\* purses and the open windows hold what they held at the start, less the tax
\* and what an overflowing purse was refused, plus what was picked up.
THEOREM MesoKept == Spec => []MesoConserved
  <1>1. Init => MesoInv
    <2> SUFFICES ASSUME Init PROVE MesoInv
      OBVIOUS
    <2>1. TradeInv
      BY InitTradeInv
    <2>2. \A c \in Char : Offered(c) = 0
      BY DEF Init, Offered
    <2>3. StartPurse \in [Char -> Int] /\ purse = StartPurse /\ sunk = 0
      BY TradeAssumption DEF Init
    <2>4. Wealth = StartPurse
      BY <2>2, <2>3 DEF Wealth
    <2>5. Total(StartPurse, Char) \in Int
      BY <2>3, TotalInt, TradeAssumption
    <2> QED BY <2>1, <2>3, <2>4, <2>5 DEF MesoInv
  <1>2. MesoInv => MesoConserved
    <2> SUFFICES ASSUME MesoInv, ~ reinvited PROVE MesoConserved
      BY DEF MesoConserved
    <2>1. Total(Wealth, Char) + sunk = Total(StartPurse, Char)
      BY DEF MesoInv
    <2>2. MapThenSumSet(LAMBDA c : purse[c] + Offered(c), Char) + sunk
            = MapThenSumSet(LAMBDA c : StartPurse[c], Char)
      BY <2>1, WealthIsTotal, SumIsTotal, TradeAssumption
    <2> QED BY <2>2 DEF MesoConserved, Offered
  <1> QED BY <1>1, <1>2, NextMesoInv, PTL DEF Spec
=============================================================================
