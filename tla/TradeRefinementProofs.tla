----------------------- MODULE TradeRefinementProofs -----------------------
(* MapleTrade implements TradeContract, for any players, stacks and trades. *)
EXTENDS TradeRefinement, MapleTradeProofs

USE DEF linkVars, windowVars, exchangeVars, goodsVars

\* What the steps need to know: the inductive invariant of the trades, with
\* inventories that addFromDrop could have filled, in the histories the
\* refinement is about.
OrderlyInv == RoomInv /\ OneOfAKind /\ ~ reinvited

\* The variables of the contract, as the mapping of TradeRefinement gives them.
Peers == [c \in Char |-> Peer(c)]
Offers == [c \in Char |-> Window(c)]
StakeOf(c) == IF trade[c] = NoTrade THEN 0 ELSE meso[trade[c]]
Stakes == [c \in Char |-> StakeOf(c)]
AgreedOnes == {c \in Char : trade[c] # NoTrade /\ locked[trade[c]]}

LEMMA OrderlyFacts ==
    ASSUME OrderlyInv
    PROVE  TradeInv /\ TypedLinks /\ TypeOK /\ Linked /\ RoomInv /\ ~ reinvited
  BY DEF OrderlyInv, RoomInv, TradeInv, TypedLinks

\* A handler that changes nothing the contract speaks of.
LEMMA Stutter ==
    ASSUME UNCHANGED <<Peers, Offers, Stakes, AgreedOnes, bag, purse>>
    PROVE  UNCHANGED Contract!vars
  BY DEF Contract!vars, Peers, Offers, Stakes, StakeOf, AgreedOnes

\* Handlers that leave the trades and the confirmations alone.
LEMMA SamePeers ==
    ASSUME UNCHANGED <<trade, chr, partner>>
    PROVE  Peers' = Peers
  BY DEF Peers, Peer

LEMMA VisitStep ==
    ASSUME OrderlyInv, NEW c \in Char, VisitTrade(c)
    PROVE  UNCHANGED Contract!vars
  BY Stutter, SamePeers DEF VisitTrade, Offers, Window, Stakes, StakeOf, AgreedOnes

LEMMA PutUpStep ==
    ASSUME OrderlyInv, NEW c \in Char, NEW i \in Item, SetItems(c, i)
    PROVE  Contract!PutUp(c, i)
  <1>1. /\ UNCHANGED <<trade, chr, partner, locked, meso, purse>>
        /\ bag' = [bag EXCEPT ![c] = @ \ {i}]
        /\ items' = [items EXCEPT ![trade[c]] = @ \cup {i}]
        /\ trade[c] # NoTrade /\ partner[trade[c]] # NoTrade /\ ~ locked[trade[c]]
        /\ i \in bag[c]
    BY DEF SetItems, MayPutUp
  <1>2. Peers' = Peers /\ Stakes' = Stakes /\ AgreedOnes' = AgreedOnes
    BY <1>1, SamePeers DEF Stakes, StakeOf, AgreedOnes
  <1>3. Peers[c] # NoChar /\ c \notin AgreedOnes
    BY <1>1, OrderlyFacts, InTradeFacts, ConstantFacts DEF Peers, Peer, AgreedOnes
  <1>4. Offers' = [Offers EXCEPT ![c] = @ \cup {i}]
    <2>1. trade[c] \in Trade /\ \A x \in Char \ {c} : trade[x] # trade[c]
      BY <1>1, OrderlyFacts, InTradeFacts, ConstantFacts
    <2>2. /\ Window(c)' = Window(c) \cup {i}
          /\ \A x \in Char \ {c} : Window(x)' = Window(x)
      BY <1>1, <2>1, OrderlyFacts DEF Window, TypeOK
    <2> QED BY <2>2 DEF Offers
  <1> QED BY <1>1, <1>2, <1>3, <1>4 DEF Contract!PutUp, Peers, Offers, Stakes, StakeOf, AgreedOnes

LEMMA StakeStep ==
    ASSUME OrderlyInv, NEW c \in Char, NEW m \in Amounts, SetMeso(c, m)
    PROVE  Contract!Stake(c, m)
  <1>1. /\ UNCHANGED <<trade, chr, partner, locked, items, bag>>
        /\ purse' = [purse EXCEPT ![c] = @ - m]
        /\ meso' = [meso EXCEPT ![trade[c]] = @ + m]
        /\ trade[c] # NoTrade /\ partner[trade[c]] # NoTrade /\ ~ locked[trade[c]]
        /\ purse[c] >= m
    BY DEF SetMeso, MayPutUp
  <1>2. Peers' = Peers /\ Offers' = Offers /\ AgreedOnes' = AgreedOnes
    BY <1>1, SamePeers DEF Offers, Window, AgreedOnes
  <1>3. Peers[c] # NoChar /\ c \notin AgreedOnes
    BY <1>1, OrderlyFacts, InTradeFacts, ConstantFacts DEF Peers, Peer, AgreedOnes
  <1>4. Stakes' = [Stakes EXCEPT ![c] = @ + m]
    <2>1. trade[c] \in Trade /\ \A x \in Char \ {c} : trade[x] # trade[c]
      BY <1>1, OrderlyFacts, InTradeFacts, ConstantFacts
    <2>2. /\ StakeOf(c)' = StakeOf(c) + m
          /\ \A x \in Char \ {c} : StakeOf(x)' = StakeOf(x)
      BY <1>1, <2>1, OrderlyFacts DEF StakeOf, TypeOK
    <2> QED BY <2>2 DEF Stakes
  <1> QED BY <1>1, <1>2, <1>3, <1>4 DEF Contract!Stake, Peers, Offers, Stakes, StakeOf, AgreedOnes

LEMMA ReceiveStepC ==
    ASSUME OrderlyInv, NEW c \in Char, NEW i \in Item, ReceiveItem(c, i)
    PROVE  Contract!Receive(c, i)
  <1>1. /\ UNCHANGED <<trade, chr, partner, locked, items, meso, purse>>
        /\ bag' = [bag EXCEPT ![c] = @ \cup {i}] /\ i \in floor
    BY DEF ReceiveItem
  <1>2. UNCHANGED <<Peers, Offers, Stakes, AgreedOnes>>
    BY <1>1, SamePeers DEF Offers, Window, Stakes, StakeOf, AgreedOnes
  <1>3. \A x \in Char : i \notin bag[x] \cup Window(x)
    BY <1>1, OrderlyFacts DEF TradeInv, SoleHolder, OneHolder
  <1> QED BY <1>1, <1>2, <1>3 DEF Contract!Receive, Peers, Offers, Stakes, StakeOf, AgreedOnes

LEMMA EarnStep ==
    ASSUME OrderlyInv, NEW c \in Char, NEW m \in Amounts, ReceiveMeso(c, m)
    PROVE  Contract!Earn(c, m)
  <1>1. /\ UNCHANGED <<trade, chr, partner, locked, items, meso, bag>>
        /\ purse' = [purse EXCEPT ![c] = @ + m]
    BY DEF ReceiveMeso
  <1>2. UNCHANGED <<Peers, Offers, Stakes, AgreedOnes>>
    BY <1>1, SamePeers DEF Offers, Window, Stakes, StakeOf, AgreedOnes
  <1> QED BY <1>1, <1>2 DEF Contract!Earn, Peers, Offers, Stakes, StakeOf, AgreedOnes

LEMMA AgreeStep ==
    ASSUME OrderlyInv, NEW c \in Char, ConfirmFirst(c)
    PROVE  Contract!Agree(c)
  <1>1. /\ UNCHANGED <<trade, chr, partner, items, meso, bag, purse>>
        /\ locked' = [locked EXCEPT ![trade[c]] = TRUE]
        /\ trade[c] # NoTrade /\ partner[trade[c]] # NoTrade
    BY DEF ConfirmFirst, Confirmed
  <1>2. Peers' = Peers /\ Offers' = Offers /\ Stakes' = Stakes
    BY <1>1, SamePeers DEF Offers, Window, Stakes, StakeOf
  <1>3. Peers[c] # NoChar
    BY <1>1, OrderlyFacts, InTradeFacts, ConstantFacts DEF Peers, Peer
  <1>4. AgreedOnes' = AgreedOnes \cup {c}
    <2>1. trade[c] \in Trade /\ \A x \in Char \ {c} : trade[x] # trade[c]
      BY <1>1, OrderlyFacts, InTradeFacts, ConstantFacts
    <2> QED BY <1>1, <2>1, OrderlyFacts DEF AgreedOnes, TypeOK
  <1> QED BY <1>1, <1>2, <1>3, <1>4 DEF Contract!Agree, Peers, Offers, Stakes, StakeOf, AgreedOnes

LEMMA StartStep ==
    ASSUME OrderlyInv, NEW c \in Char, StartTrade(c)
    PROVE  UNCHANGED Contract!vars
  <1>1. PICK t \in Trade :
            /\ chr[t] = NoChar
            /\ chr' = [chr EXCEPT ![t] = c]
            /\ trade' = [trade EXCEPT ![c] = t]
    BY DEF StartTrade
  <1>2. /\ trade[c] = NoTrade
        /\ UNCHANGED <<partner, locked, items, meso, bag, purse>>
    BY DEF StartTrade
  <1>3. partner[t] = NoTrade /\ ~ locked[t] /\ items[t] = {} /\ meso[t] = 0
    BY <1>1, OrderlyFacts DEF Linked
  <1>4. \A x \in Char \ {c} : trade'[x] = trade[x]
    BY <1>1, OrderlyFacts DEF TypeOK
  <1>5. trade'[c] = t /\ t # NoTrade
    BY <1>1, OrderlyFacts, ConstantFacts DEF TypeOK
  <1>6. Offers' = Offers
    <2>1. \A x \in Char : Window(x)' = Window(x)
      BY <1>2, <1>3, <1>4, <1>5 DEF Window
    <2> QED BY <2>1 DEF Offers
  <1>7. Stakes' = Stakes
    <2>1. \A x \in Char : StakeOf(x)' = StakeOf(x)
      BY <1>2, <1>3, <1>4, <1>5 DEF StakeOf
    <2> QED BY <2>1 DEF Stakes
  <1>8. AgreedOnes' = AgreedOnes
    BY <1>2, <1>3, <1>4, <1>5 DEF AgreedOnes
  <1>9. Peers' = Peers
    <2>1. Peer(c)' = Peer(c)
      BY <1>2, <1>3, <1>5 DEF Peer
    <2>2. ASSUME NEW x \in Char \ {c} PROVE Peer(x)' = Peer(x)
      <3>1. CASE trade[x] = NoTrade \/ partner[trade[x]] = NoTrade
        BY <1>2, <1>4, <3>1 DEF Peer
      <3>2. CASE trade[x] # NoTrade /\ partner[trade[x]] # NoTrade
        <4>1. /\ partner[trade[x]] \in Trade
              /\ chr[partner[trade[x]]] # NoChar
          BY <3>2, OrderlyFacts, InTradeFacts, ConstantFacts
        <4> QED BY <1>1, <1>2, <1>4, <3>2, <4>1, OrderlyFacts DEF Peer, TypeOK
      <3> QED BY <3>1, <3>2
    <2> QED BY <2>1, <2>2 DEF Peers
  <1> QED BY <1>2, <1>6, <1>7, <1>8, <1>9, Stutter

\* An invitation is a meeting: the inviter had no partner.
LEMMA MeetStep ==
    ASSUME OrderlyInv, NEW c \in Char, NEW d \in Char, InviteTrade(c, d), ~ reinvited'
    PROVE  Contract!Meet(c, d)
  <1> DEFINE q == trade[c]
  <1>1. PICK t \in Trade :
            /\ chr[t] = NoChar
            /\ chr' = [chr EXCEPT ![t] = d]
            /\ trade' = [trade EXCEPT ![d] = t]
            /\ partner' = [partner EXCEPT ![t] = q, ![q] = IF locked[q] THEN @ ELSE t]
    BY DEF InviteTrade
  <1>2. /\ q # NoTrade /\ trade[d] = NoTrade /\ partner[q] = NoTrade
        /\ UNCHANGED <<locked, items, meso, bag, purse>>
    BY DEF InviteTrade
  <1>3. /\ q \in Trade /\ chr[q] = c /\ c # d /\ q # t /\ t # NoTrade
        /\ partner[t] = NoTrade /\ ~ locked[t] /\ items[t] = {} /\ meso[t] = 0
        /\ ~ locked[q]
    BY <1>1, <1>2, OrderlyFacts, InTradeFacts, ConstantFacts DEF Linked
  <1>4. /\ trade'[d] = t /\ \A x \in Char \ {d} : trade'[x] = trade[x]
        /\ chr'[t] = d /\ chr'[q] = c
        /\ \A u \in Trade \ {t} : chr'[u] = chr[u]
        /\ partner'[t] = q /\ partner'[q] = t
        /\ \A u \in Trade \ {t, q} : partner'[u] = partner[u]
    BY <1>1, <1>3, OrderlyFacts DEF TypeOK
  <1> HIDE DEF q
  <1>5. trade[c] = q /\ trade'[c] = q
    BY <1>3, <1>4 DEF q
  <1>6. Offers' = Offers
    <2>1. \A x \in Char : Window(x)' = Window(x)
      BY <1>2, <1>3, <1>4 DEF Window
    <2> QED BY <2>1 DEF Offers
  <1>7. Stakes' = Stakes
    <2>1. \A x \in Char : StakeOf(x)' = StakeOf(x)
      BY <1>2, <1>3, <1>4 DEF StakeOf
    <2> QED BY <2>1 DEF Stakes
  <1>8. AgreedOnes' = AgreedOnes
    BY <1>2, <1>3, <1>4 DEF AgreedOnes
  <1>9. Peer(c) = NoChar /\ Peer(d) = NoChar
    BY <1>2, <1>5 DEF Peer
  <1>10. Peer(c)' = d /\ Peer(d)' = c
    BY <1>2, <1>3, <1>4, <1>5, ConstantFacts DEF Peer
  <1>11. ASSUME NEW x \in Char \ {c, d} PROVE Peer(x)' = Peer(x)
    <2>1. trade'[x] = trade[x]
      BY <1>4
    <2>2. CASE trade[x] = NoTrade
      BY <2>1, <2>2 DEF Peer
    <2>3. CASE trade[x] # NoTrade
      <3>1. trade[x] \in Trade /\ chr[trade[x]] = x
        BY <2>3, OrderlyFacts, InTradeFacts
      <3>2. trade[x] # t /\ trade[x] # q
        BY <1>1, <1>3, <3>1, ConstantFacts
      <3>3. partner'[trade[x]] = partner[trade[x]]
        BY <1>4, <3>1, <3>2
      <3>4. partner[trade[x]] # NoTrade =>
                partner[trade[x]] \in Trade /\ chr[partner[trade[x]]] # NoChar
        BY <2>3, OrderlyFacts, InTradeFacts, ConstantFacts
      <3>5. partner[trade[x]] # NoTrade => partner[trade[x]] # t
        BY <1>1, <3>4
      <3> QED BY <1>4, <2>1, <2>3, <3>3, <3>4, <3>5 DEF Peer
    <2> QED BY <2>2, <2>3
  <1>12. Peers' = [Peers EXCEPT ![c] = d, ![d] = c]
    BY <1>3, <1>10, <1>11 DEF Peers
  <1>13. Peers[c] = NoChar /\ Peers[d] = NoChar
    BY <1>9 DEF Peers
  <1> QED BY <1>2, <1>3, <1>6, <1>7, <1>8, <1>12, <1>13
          DEF Contract!Meet, Peers, Offers, Stakes, StakeOf, AgreedOnes

\* Two partners who leave together part in the contract.
LEMMA PartStep ==
    ASSUME OrderlyInv, NEW c \in Char, NEW d \in Char, NEW t, NEW p,
           t = trade[c], t # NoTrade, p = partner[t], p # NoTrade, d = chr[p],
           BothLeave(c, d), UNCHANGED <<chr, partner>>,
           \A u \in Trade \ {t, p} :
               items'[u] = items[u] /\ meso'[u] = meso[u] /\ locked'[u] = locked[u]
    PROVE  /\ Peers[c] = d
           /\ Contract!Part(c, d)
  <1>1. /\ t \in Trade /\ p \in Trade /\ c # d /\ t # p
        /\ trade[d] = p /\ partner[p] = t /\ chr[t] = c
    BY OrderlyFacts, PairFacts
  <1>2. /\ trade'[c] = NoTrade /\ trade'[d] = NoTrade
        /\ \A x \in Char \ {c, d} : trade'[x] = trade[x]
    BY <1>1, OrderlyFacts DEF BothLeave, TypeOK
  <1>3. \A x \in Char \ {c, d} : trade[x] # NoTrade =>
            trade[x] \in Trade /\ trade[x] # t /\ trade[x] # p
    BY <1>1, OrderlyFacts, InTradeFacts
  <1>4. Offers' = [Offers EXCEPT ![c] = {}, ![d] = {}]
    <2>1. /\ Window(c)' = {} /\ Window(d)' = {}
          /\ \A x \in Char \ {c, d} : Window(x)' = Window(x)
      BY <1>2, <1>3 DEF Window
    <2> QED BY <2>1 DEF Offers
  <1>5. Stakes' = [Stakes EXCEPT ![c] = 0, ![d] = 0]
    <2>1. /\ StakeOf(c)' = 0 /\ StakeOf(d)' = 0
          /\ \A x \in Char \ {c, d} : StakeOf(x)' = StakeOf(x)
      BY <1>2, <1>3 DEF StakeOf
    <2> QED BY <2>1 DEF Stakes
  <1>6. AgreedOnes' = AgreedOnes \ {c, d}
    BY <1>2, <1>3 DEF AgreedOnes
  <1>7. Peers' = [Peers EXCEPT ![c] = NoChar, ![d] = NoChar]
    <2>1. Peer(c)' = NoChar /\ Peer(d)' = NoChar
      BY <1>2 DEF Peer
    <2>2. \A x \in Char \ {c, d} : Peer(x)' = Peer(x)
      BY <1>2 DEF Peer
    <2> QED BY <2>1, <2>2 DEF Peers
  <1>8. Peers[c] = d
    BY <1>1 DEF Peers, Peer
  <1> QED BY <1>4, <1>5, <1>6, <1>7, <1>8
          DEF Contract!Part, Peers, Offers, Stakes, StakeOf, AgreedOnes

\* A refund of both is a withdrawal.
LEMMA WithdrawStep ==
    ASSUME OrderlyInv, NEW c \in Char, NEW d \in Char, NEW t, NEW p,
           t = trade[c], t # NoTrade, p = partner[t], p # NoTrade, d = chr[p],
           BothLeave(c, d), UNCHANGED <<chr, partner>>, Refund(c, t, d, p),
           \A u \in Trade \ {t, p} : locked'[u] = locked[u]
    PROVE  Contract!Withdraw(c, d)
  <1>1. /\ t \in Trade /\ p \in Trade /\ c # d /\ t # p /\ trade[d] = p
    BY OrderlyFacts, PairFacts
  <1>2. \A u \in Trade \ {t, p} : items'[u] = items[u] /\ meso'[u] = meso[u]
    BY <1>1, OrderlyFacts DEF Refund, TypeOK
  <1>3. Peers[c] = d /\ Contract!Part(c, d)
    BY <1>2, PartStep
  <1>4. PICK x \in Fill(bag[c], items[t]), y \in Fill(bag[d], items[p]) :
            /\ bag' = [bag EXCEPT ![c] = @ \cup x, ![d] = @ \cup y]
            /\ lost' = lost \cup (items[t] \ x) \cup (items[p] \ y)
    BY DEF Refund
  <1>5. x \subseteq items[t] /\ y \subseteq items[p]
    BY FillSubset
  <1>6. Window(c) = items[t] /\ Window(d) = items[p]
    BY <1>1 DEF Window
  <1>7. StakeOf(c) = meso[t] /\ StakeOf(d) = meso[p]
    BY <1>1 DEF StakeOf
  <1>8. /\ bag'[c] = bag[c] \cup x /\ bag'[d] = bag[d] \cup y
        /\ \A z \in Char \ {c, d} : bag'[z] = bag[z]
    BY <1>1, <1>4, OrderlyFacts DEF TypeOK
  <1>9. \A z \in Char :
            /\ bag[z] \subseteq bag'[z]
            /\ bag'[z] \subseteq bag[z] \cup (IF z \in {c, d} THEN Window(z) ELSE {})
    BY <1>5, <1>6, <1>8
  <1>10. /\ purse'[c] = Credit(purse[c], meso[t]) /\ purse'[d] = Credit(purse[d], meso[p])
         /\ \A z \in Char \ {c, d} : purse'[z] = purse[z]
    BY <1>1, OrderlyFacts DEF Refund, TypeOK
  <1>11. \A z \in Char :
            \/ purse'[z] = purse[z]
            \/ z \in {c, d} /\ purse'[z] = purse[z] + StakeOf(z)
    BY <1>7, <1>10 DEF Credit
  <1>12. \A z \in Char : Offers[z] = Window(z) /\ Stakes[z] = StakeOf(z)
    BY DEF Offers, Stakes
  <1> QED BY <1>3, <1>9, <1>11, <1>12
          DEF Contract!Withdraw, Peers, Offers, Stakes, StakeOf, AgreedOnes

\* A completeTrade that check() lets pass is a swap of whole offers, for no
\* window has two one-of-a-kind stacks.
LEMMA SwapStep ==
    ASSUME OrderlyInv, NEW c \in Char, NEW d \in Char, NEW t, NEW p,
           t = trade[c], t # NoTrade, p = partner[t], p # NoTrade, d = chr[p],
           ~ locked[t], locked[p],
           BothLeave(c, d), Confirmed(t, p), UNCHANGED windowVars,
           Accepts(c, exchangeItems[t], exchangeMeso[t]),
           Accepts(d, items[t], meso[t]),
           Collect(c, exchangeItems[t], exchangeMeso[t], d, items[t], meso[t])
    PROVE  Contract!Swap(c, d)
  <1>1. /\ t \in Trade /\ p \in Trade /\ c # d /\ t # p /\ trade[d] = p /\ partner[p] = t
    BY OrderlyFacts, PairFacts
  <1>2. \A u \in Trade \ {t, p} :
            items'[u] = items[u] /\ meso'[u] = meso[u] /\ locked'[u] = locked[u]
    BY <1>1, OrderlyFacts DEF Confirmed, TypeOK
  <1>3. Peers[c] = d /\ Contract!Part(c, d)
    <2>1. UNCHANGED <<chr, partner>>
      BY DEF Confirmed
    <2> QED BY <1>2, <2>1, PartStep
  <1>4. exchangeItems[t] = items[p] /\ exchangeMeso[t] = meso[p]
    <2>1. p \in Live
      BY <1>1, OrderlyFacts, LiveTrade
    <2> QED BY <1>1, <2>1, OrderlyFacts DEF TradeInv, AgreedOffer
  <1>5. /\ Window(c) = items[t] /\ Window(d) = items[p]
        /\ StakeOf(c) = meso[t] /\ StakeOf(d) = meso[p]
    BY <1>1 DEF Window, StakeOf
  <1>6. PICK x \in Fill(bag[c], exchangeItems[t]), y \in Fill(bag[d], items[t]) :
            /\ bag' = [bag EXCEPT ![c] = @ \cup x, ![d] = @ \cup y]
            /\ lost' = lost \cup (exchangeItems[t] \ x) \cup (items[t] \ y)
    BY DEF Collect
  <1>7. x = items[p] /\ y = items[t]
    <2>1. /\ ~ (Cardinality(items[t] \cap Exclusive) > 1)
          /\ ~ (Cardinality(items[p] \cap Exclusive) > 1)
      <3>1. \A z \in Char : Cardinality(Window(z) \cap Exclusive) \in Nat
        <4>1. \A z \in Char : Window(z) \subseteq Item
          BY OrderlyFacts, InTradeFacts DEF Window, TypeOK
        <4> QED BY <4>1, TradeAssumption, FS_Subset, FS_CardinalityType
      <3> QED BY <1>5, <3>1 DEF OrderlyInv, OneOfAKind
    <2>2. x \subseteq items[p] /\ y \subseteq items[t]
      BY <1>4, FillSubset
    <2>3. items[p] \in SUBSET Item /\ items[t] \in SUBSET Item
      BY <1>1, OrderlyFacts DEF TypeOK
    <2>4. items[p] \ x = {}
      BY <1>4, <2>1, <2>3, OrderlyFacts, RefusedForKind DEF RoomInv
    <2>5. items[t] \ y = {}
      BY <2>1, <2>3, OrderlyFacts, RefusedForKind DEF RoomInv
    <2> QED BY <2>2, <2>4, <2>5
  <1>8. bag' = [bag EXCEPT ![c] = @ \cup Window(d), ![d] = @ \cup Window(c)]
    BY <1>5, <1>6, <1>7
  <1>9. purse' = [purse EXCEPT ![c] = @ + StakeOf(d) - Tax(StakeOf(d)),
                               ![d] = @ + StakeOf(c) - Tax(StakeOf(c))]
    BY <1>4, <1>5 DEF Collect
  <1>10. \A z \in Char : Offers[z] = Window(z) /\ Stakes[z] = StakeOf(z)
    BY DEF Offers, Stakes
  <1>11. d \in AgreedOnes /\ c \notin AgreedOnes
    BY <1>1 DEF AgreedOnes
  <1> QED BY <1>3, <1>8, <1>9, <1>10, <1>11
          DEF Contract!Swap, Peers, Offers, Stakes, StakeOf, AgreedOnes

\* Who has no partner leaves as it came.
LEMMA LoneStep ==
    ASSUME OrderlyInv, NEW c \in Char, NEW t, t = trade[c], t # NoTrade, partner[t] = NoTrade,
           RefundOne(c, t), trade' = [trade EXCEPT ![c] = NoTrade],
           UNCHANGED <<chr, partner, locked>>
    PROVE  UNCHANGED Contract!vars
  <1>1. /\ t \in Trade /\ items[t] = {} /\ meso[t] = 0 /\ ~ locked[t]
    BY OrderlyFacts, InTradeFacts DEF Linked
  <1>2. trade'[c] = NoTrade /\ \A x \in Char \ {c} : trade'[x] = trade[x]
    BY OrderlyFacts DEF TypeOK
  <1>3. bag' = bag
    <2>1. PICK x \in Fill(bag[c], {}) : bag' = [bag EXCEPT ![c] = @ \cup x]
      BY <1>1 DEF RefundOne
    <2>2. x = {}
      BY FillSubset
    <2> QED BY <2>1, <2>2, OrderlyFacts DEF TypeOK
  <1>4. purse' = purse
    <2>1. purse' = [purse EXCEPT ![c] = Credit(@, 0)]
      BY <1>1 DEF RefundOne
    <2>2. Credit(purse[c], 0) = purse[c]
      BY OrderlyFacts, ConstantFacts DEF Credit, TypeOK
    <2> QED BY <2>1, <2>2, OrderlyFacts DEF TypeOK
  <1>5. items' = items /\ meso' = meso
    BY <1>1, OrderlyFacts DEF RefundOne, TypeOK
  <1>6. Offers' = Offers
    <2>1. \A x \in Char : Window(x)' = Window(x)
      BY <1>1, <1>2, <1>5 DEF Window
    <2> QED BY <2>1 DEF Offers
  <1>7. Stakes' = Stakes
    <2>1. \A x \in Char : StakeOf(x)' = StakeOf(x)
      BY <1>1, <1>2, <1>5 DEF StakeOf
    <2> QED BY <2>1 DEF Stakes
  <1>8. AgreedOnes' = AgreedOnes
    BY <1>1, <1>2 DEF AgreedOnes
  <1>9. Peers' = Peers
    <2>1. \A x \in Char : Peer(x)' = Peer(x)
      BY <1>1, <1>2 DEF Peer
    <2> QED BY <2>1 DEF Peers
  <1> QED BY <1>3, <1>4, <1>6, <1>7, <1>8, <1>9, Stutter

\* Every handler maps to a step of the contract, or to none.
LEMMA ContractStep ==
    ASSUME OrderlyInv, Next, ~ reinvited'
    PROVE  [Contract!Next]_(Contract!vars)
  <1>1. PICK c \in Char :
            \/ StartTrade(c)
            \/ \E d \in Char : InviteTrade(c, d)
            \/ VisitTrade(c)
            \/ \E m \in Amounts : SetMeso(c, m)
            \/ \E i \in Item : SetItems(c, i)
            \/ ConfirmFirst(c)
            \/ ConfirmSecond(c)
            \/ CancelTrade(c)
            \/ DeclineTrade(c)
            \/ \E i \in Item : ReceiveItem(c, i)
            \/ \E m \in Amounts : ReceiveMeso(c, m)
    BY DEF Next
  <1>2. CASE StartTrade(c) \/ VisitTrade(c)
    BY <1>2, StartStep, VisitStep
  <1>3. CASE \E d \in Char : InviteTrade(c, d)
    BY <1>3, MeetStep DEF Contract!Next
  <1>4. CASE \/ \E m \in Amounts : SetMeso(c, m)
             \/ \E m \in Amounts : ReceiveMeso(c, m)
    BY <1>4, StakeStep, EarnStep DEF Contract!Next
  <1>5. CASE \/ \E i \in Item : SetItems(c, i)
             \/ \E i \in Item : ReceiveItem(c, i)
    BY <1>5, PutUpStep, ReceiveStepC DEF Contract!Next
  <1>6. CASE ConfirmFirst(c)
    BY <1>6, AgreeStep DEF Contract!Next
  <1>7. CASE ConfirmSecond(c)
    <2> DEFINE t == trade[c]
               p == partner[t]
               d == chr[p]
    <2>1. /\ t # NoTrade /\ p # NoTrade /\ t \in Trade /\ p \in Trade /\ d \in Char
          /\ ~ locked[t] /\ locked[p] /\ Confirmed(t, p) /\ BothLeave(c, d)
      BY <1>7, OrderlyFacts, InTradeFacts DEF ConfirmSecond
    <2>2. UNCHANGED <<chr, partner>> /\ \A u \in Trade \ {t, p} : locked'[u] = locked[u]
      BY <2>1, OrderlyFacts DEF Confirmed, TypeOK
    <2>3. CASE /\ Accepts(c, exchangeItems[t], exchangeMeso[t])
               /\ Accepts(d, items[t], meso[t])
               /\ Collect(c, exchangeItems[t], exchangeMeso[t], d, items[t], meso[t])
               /\ UNCHANGED windowVars
      <3>1. Contract!Swap(c, d)
        BY <2>1, <2>3, SwapStep
      <3> QED BY <2>1, <3>1 DEF Contract!Next
    <2>4. CASE Refund(c, t, d, p)
      <3>1. Contract!Withdraw(c, d)
        BY <2>1, <2>2, <2>4, WithdrawStep
      <3> QED BY <2>1, <3>1 DEF Contract!Next
    <2> QED BY <1>7, <2>3, <2>4 DEF ConfirmSecond
  <1>8. CASE CancelTrade(c)
    <2> DEFINE t == trade[c]
               p == partner[t]
    <2>1. /\ t # NoTrade /\ t \in Trade /\ (p # NoTrade => p \in Trade /\ chr[p] \in Char)
          /\ UNCHANGED <<chr, partner, locked>>
      BY <1>8, OrderlyFacts, InTradeFacts DEF CancelTrade
    <2>2. CASE p # NoTrade /\ Refund(c, t, chr[p], p) /\ BothLeave(c, chr[p])
      <3>1. Contract!Withdraw(c, chr[p])
        BY <2>1, <2>2, WithdrawStep
      <3> QED BY <2>1, <2>2, <3>1 DEF Contract!Next
    <2>3. CASE p = NoTrade /\ RefundOne(c, t) /\ trade' = [trade EXCEPT ![c] = NoTrade]
      BY <2>1, <2>3, LoneStep
    <2> QED BY <1>8, <2>2, <2>3 DEF CancelTrade
  <1>9. CASE DeclineTrade(c)
    <2> DEFINE t == trade[c]
               p == partner[t]
               d == chr[p]
               u == IF p = NoTrade THEN NoTrade ELSE trade[d]
    <2>1. /\ t # NoTrade /\ t \in Trade
          /\ p # NoTrade => p \in Trade /\ d \in Char /\ trade[d] = p
          /\ UNCHANGED <<chr, partner, locked>>
      BY <1>9, OrderlyFacts, PairFacts, InTradeFacts DEF DeclineTrade
    <2>2. CASE u # NoTrade /\ Refund(c, t, d, u) /\ BothLeave(c, d)
      <3>1. p # NoTrade /\ u = p
        BY <2>1, <2>2
      <3>2. Contract!Withdraw(c, d)
        BY <2>1, <2>2, <3>1, WithdrawStep
      <3> QED BY <2>1, <3>1, <3>2 DEF Contract!Next
    <2>3. CASE u = NoTrade /\ RefundOne(c, t) /\ trade' = [trade EXCEPT ![c] = NoTrade]
      <3>1. p = NoTrade
        BY <2>1, <2>3, ConstantFacts
      <3> QED BY <2>1, <2>3, <3>1, LoneStep
    <2> QED BY <1>9, <2>2, <2>3 DEF DeclineTrade
  <1> QED BY <1>1, <1>2, <1>3, <1>4, <1>5, <1>6, <1>7, <1>8, <1>9

\* The trading code implements the contract of TradeContract: in the histories
\* of SpecOneInvitation every handler of MapleTrade is a meeting, an offer, an
\* agreement, a swap of whole offers, a withdrawal, or invisible.
THEOREM TradeImplementsContract == SpecOneInvitation => ContractSpec
  <1>1. Init => OrderlyInv /\ Contract!Init
    <2> SUFFICES ASSUME Init PROVE OrderlyInv /\ Contract!Init
      OBVIOUS
    <2>1. \A c \in Char : Window(c) = {} /\ Peer(c) = NoChar /\ trade[c] = NoTrade
      BY DEF Init, Window, Peer
    <2>2. RoomInv
      BY InitTradeInv, TradeAssumption DEF Init, RoomInv, CanHold
    <2>3. OneOfAKind
      BY <2>1, FS_EmptySet DEF OneOfAKind
    <2>4. Contract!Init
      BY <2>1 DEF Contract!Init, Init
    <2> QED BY <2>2, <2>3, <2>4 DEF OrderlyInv, Init
  <1>2. OrderlyInv /\ [Next /\ ~ reinvited' /\ OneOfAKind']_vars
            => OrderlyInv' /\ [Contract!Next]_(Contract!vars)
    <2> SUFFICES ASSUME OrderlyInv, [Next /\ ~ reinvited' /\ OneOfAKind']_vars
                 PROVE  OrderlyInv' /\ [Contract!Next]_(Contract!vars)
      OBVIOUS
    <2>1. CASE Next /\ ~ reinvited' /\ OneOfAKind'
      <3>1. RoomInv'
        BY <2>1, NextTradeInv, NextRoom DEF OrderlyInv, RoomInv
      <3> QED BY <2>1, <3>1, ContractStep DEF OrderlyInv
    <2>2. CASE UNCHANGED vars
      <3>1. RoomInv'
        BY <2>2, NextTradeInv DEF OrderlyInv, RoomInv, vars
      <3>2. UNCHANGED <<trade, chr, partner, locked, items, meso, bag, purse>>
        BY <2>2 DEF vars
      <3>3. UNCHANGED Contract!vars
        BY <3>2, SamePeers, Stutter DEF Offers, Window, Stakes, StakeOf, AgreedOnes
      <3>4. OneOfAKind' /\ ~ reinvited'
        BY <2>2 DEF OrderlyInv, OneOfAKind, Window, vars
      <3> QED BY <3>1, <3>3, <3>4 DEF OrderlyInv
    <2> QED BY <2>1, <2>2
  <1> QED BY <1>1, <1>2, PTL DEF SpecOneInvitation, ContractSpec, Contract!Spec
=============================================================================
