----------------------------- MODULE MapleTrade -----------------------------
(***************************************************************************)
(* Player-to-player trading: server/MapleTrade.java, reached through       *)
(* handling/channel/handler/PlayerInteractionHandler.java.                 *)
(*                                                                         *)
(* Every MapleTrade object is a member of Trade; its Java fields are the   *)
(* functions below, one per field, and a character's `trade' field is      *)
(* trade[c].  Goods are individual stacks (members of Item), each of which *)
(* takes one slot.  One action is one packet handler.  There is no lock in *)
(* the code, so the model assumes what the code assumes: two handlers that *)
(* touch the same pair of players do not overlap.                          *)
(***************************************************************************)
EXTENDS Integers, FiniteSets, FiniteSetsExt

CONSTANTS
    Char,            \* the characters of one map
    Item,            \* the tradeable stacks
    Trade,           \* MapleTrade objects; its size bounds how many are made
    NoTrade,         \* a null MapleTrade reference
    NoChar,          \* the chr of an object that is not allocated yet
    DropRestricted,  \* items that may change hands only with a karma flag
    Exclusive,       \* stacks of one pickup-restricted item id
    SlotLimit,       \* slots of an inventory
    WindowSize,      \* slots of a trade window (9 in the code)
    MaxMeso,         \* the largest int: meso arithmetic beyond it is refused
    Amounts,         \* amounts of meso a packet or a pick-up may name
    Tax(_),          \* GameConstants.getTaxAmount
    StartBag, StartPurse

ASSUME TradeAssumption ==
    /\ NoTrade \notin Trade
    /\ NoChar \notin Char
    /\ DropRestricted \subseteq Item
    /\ Exclusive \subseteq Item
    /\ IsFiniteSet(Char)
    /\ IsFiniteSet(Item)
    /\ SlotLimit \in Nat
    /\ WindowSize \in Nat
    /\ MaxMeso \in Nat
    /\ Amounts \subseteq 1..MaxMeso
    /\ \A m \in 0..MaxMeso : Tax(m) \in 0..m
    /\ StartBag \in [Char -> SUBSET Item]
    /\ \A c, d \in Char : c # d => StartBag[c] \cap StartBag[d] = {}
    /\ \A c \in Char : Cardinality(StartBag[c]) <= SlotLimit
    /\ \A c \in Char : Cardinality(StartBag[c] \cap Exclusive) <= 1
    /\ StartPurse \in [Char -> 0..MaxMeso]

VARIABLES
    trade,          \* MapleCharacter.trade
    chr,            \* MapleTrade.chr
    partner,        \* MapleTrade.partner
    locked,         \* MapleTrade.locked
    inTrade,        \* MapleTrade.inTrade
    items,          \* MapleTrade.items
    meso,           \* MapleTrade.meso
    exchangeItems,  \* MapleTrade.exchangeItems (null is {})
    exchangeMeso,   \* MapleTrade.exchangeMeso
    bag,            \* the character's inventory
    purse,          \* MapleCharacter.meso
    karma,          \* the items whose karma flag is still set
    floor,          \* items nobody holds yet
    lost,           \* history: items no inventory had room for
    sunk,           \* history: meso taxed or dropped, less meso picked up
    reinvited       \* history: an inviter with a partner invited again

windowVars == <<items, meso>>
exchangeVars == <<exchangeItems, exchangeMeso>>
goodsVars == <<bag, purse, karma, floor, lost, sunk>>
linkVars == <<chr, partner, locked, inTrade, reinvited>>
vars == <<trade, linkVars, windowVars, exchangeVars, goodsVars>>

-----------------------------------------------------------------------------
Init ==
    /\ trade = [c \in Char |-> NoTrade]
    /\ chr = [t \in Trade |-> NoChar]
    /\ partner = [t \in Trade |-> NoTrade]
    /\ locked = [t \in Trade |-> FALSE]
    /\ inTrade = [t \in Trade |-> FALSE]
    /\ items = [t \in Trade |-> {}]
    /\ meso = [t \in Trade |-> 0]
    /\ exchangeItems = [t \in Trade |-> {}]
    /\ exchangeMeso = [t \in Trade |-> 0]
    /\ bag = StartBag
    /\ purse = StartPurse
    /\ karma = DropRestricted
    /\ floor = Item \ UNION {StartBag[c] : c \in Char}
    /\ lost = {}
    /\ sunk = 0
    /\ reinvited = FALSE

\* What a bag may become: one slot per stack, one pickup-restricted stack.
CanHold(b) ==
    /\ Cardinality(b) <= SlotLimit
    /\ Cardinality(b \cap Exclusive) <= 1

\* The parts of S that a loop of addFromDrop over S can put in bag b: each
\* stack is refused only when it does not fit with those taken before it.
Fill(b, S) ==
    {T \in SUBSET S :
        /\ T = {} \/ CanHold(b \cup T)
        /\ \A i \in S \ T : ~ CanHold(b \cup T \cup {i})}

\* gainMeso: a gain that would overflow the int is dropped as a whole.
CreditUnchecked(p, m) == p + m
Credit(p, m) == IF p + m <= MaxMeso THEN p + m ELSE p

-----------------------------------------------------------------------------
\* startTrade.  The handler has refused a character that already trades.
StartTrade(c) ==
    /\ trade[c] = NoTrade
    /\ \E t \in Trade :
        /\ chr[t] = NoChar
        /\ chr' = [chr EXCEPT ![t] = c]
        /\ trade' = [trade EXCEPT ![c] = t]
    /\ UNCHANGED <<partner, locked, inTrade, reinvited>>
    /\ UNCHANGED <<windowVars, exchangeVars, goodsVars>>

\* inviteTrade.  The handler has refused an invited character that trades
\* (hasBlockedInventory), so the branch that cancels c's trade is not reached.
\* setPartner leaves the partner of a locked trade alone.
InviteTrade(c, d) ==
    /\ trade[c] # NoTrade
    /\ trade[d] = NoTrade
    /\ \E t \in Trade :
        /\ chr[t] = NoChar
        /\ chr' = [chr EXCEPT ![t] = d]
        /\ trade' = [trade EXCEPT ![d] = t]
        /\ partner' = [partner EXCEPT
              ![t] = trade[c],
              ![trade[c]] = IF locked[trade[c]] THEN @ ELSE t]
    /\ reinvited' = (reinvited \/ partner[trade[c]] # NoTrade)
    /\ UNCHANGED <<locked, inTrade>>
    /\ UNCHANGED <<windowVars, exchangeVars, goodsVars>>

\* visitTrade: c opens the window of the trade it was invited to.
VisitTrade(c) ==
    LET t == trade[c] IN
    /\ t # NoTrade
    /\ partner[t] # NoTrade
    /\ ~ inTrade[t]
    /\ trade[chr[partner[t]]] = partner[t]
    /\ partner[partner[t]] = t
    /\ inTrade' = [inTrade EXCEPT ![t] = TRUE]
    /\ UNCHANGED <<trade, chr, partner, locked, reinvited>>
    /\ UNCHANGED <<windowVars, exchangeVars, goodsVars>>

\* The guard setMeso, setItems and addItem share (without the lock, without
\* the partner), and the flag a stack must carry (or not)
MayPutUpAnytime(t) == partner[t] # NoTrade
MayPutUpAlone(t) == ~ locked[t]
MayPutUp(t) == partner[t] # NoTrade /\ ~ locked[t]
AlwaysTradeable(i) == TRUE
Tradeable(i) == i \in DropRestricted => i \in karma

\* setMeso
SetMeso(c, m) ==
    LET t == trade[c] IN
    /\ t # NoTrade
    /\ MayPutUp(t)
    /\ meso[t] + m <= MaxMeso
    /\ purse[c] >= m
    /\ purse' = [purse EXCEPT ![c] = @ - m]
    /\ meso' = [meso EXCEPT ![t] = @ + m]
    /\ UNCHANGED <<trade, linkVars, items, exchangeVars>>
    /\ UNCHANGED <<bag, karma, floor, lost, sunk>>

\* setItems and the addItem it ends with
SetItems(c, i) ==
    LET t == trade[c] IN
    /\ t # NoTrade
    /\ i \in bag[c]
    /\ MayPutUp(t)
    /\ Cardinality(items[t]) < WindowSize
    /\ Tradeable(i)
    /\ bag' = [bag EXCEPT ![c] = @ \ {i}]
    /\ items' = [items EXCEPT ![t] = @ \cup {i}]
    /\ UNCHANGED <<trade, linkVars, meso, exchangeVars>>
    /\ UNCHANGED <<purse, karma, floor, lost, sunk>>

-----------------------------------------------------------------------------
\* cancel(t) for its owner c, and for d's trade u: what was put up goes back.
\* The result of addFromDrop is ignored, so what does not fit is gone.
Refund(c, t, d, u) ==
    /\ \E x \in Fill(bag[c], items[t]), y \in Fill(bag[d], items[u]) :
        /\ bag' = [bag EXCEPT ![c] = @ \cup x, ![d] = @ \cup y]
        /\ lost' = lost \cup (items[t] \ x) \cup (items[u] \ y)
    /\ purse' = [purse EXCEPT ![c] = Credit(@, meso[t]),
                              ![d] = Credit(@, meso[u])]
    /\ sunk' = sunk + (purse[c] + meso[t] - purse'[c])
                    + (purse[d] + meso[u] - purse'[d])
    /\ items' = [items EXCEPT ![t] = {}, ![u] = {}]
    /\ meso' = [meso EXCEPT ![t] = 0, ![u] = 0]
    /\ UNCHANGED <<karma, floor>>

\* The same when there is no second trade to refund.
RefundOne(c, t) ==
    /\ \E x \in Fill(bag[c], items[t]) :
        /\ bag' = [bag EXCEPT ![c] = @ \cup x]
        /\ lost' = lost \cup (items[t] \ x)
    /\ purse' = [purse EXCEPT ![c] = Credit(@, meso[t])]
    /\ sunk' = sunk + (purse[c] + meso[t] - purse'[c])
    /\ items' = [items EXCEPT ![t] = {}]
    /\ meso' = [meso EXCEPT ![t] = 0]
    /\ UNCHANGED <<karma, floor>>

\* setTrade(null) on both sides; only on one
OneLeaves(c, d) == trade' = [trade EXCEPT ![c] = NoTrade]
BothLeave(c, d) == trade' = [trade EXCEPT ![c] = NoTrade, ![d] = NoTrade]

\* cancelTrade: c leaves the window, the map or the game.
CancelTrade(c) ==
    LET t == trade[c]
        p == partner[t]
    IN  /\ t # NoTrade
        /\ \/ /\ p # NoTrade
              /\ Refund(c, t, chr[p], p)
              /\ BothLeave(c, chr[p])
           \/ /\ p = NoTrade
              /\ RefundOne(c, t)
              /\ trade' = [trade EXCEPT ![c] = NoTrade]
        /\ UNCHANGED <<linkVars, exchangeVars>>

\* declineTrade cancels the trade the other character is in now, which need
\* not be the one the invitation came from.
DeclineTrade(c) ==
    LET t == trade[c]
        d == chr[partner[t]]
        u == IF partner[t] = NoTrade THEN NoTrade ELSE trade[d]
    IN  /\ t # NoTrade
        /\ \/ /\ u # NoTrade
              /\ Refund(c, t, d, u)
              /\ BothLeave(c, d)
           \/ /\ u = NoTrade
              /\ RefundOne(c, t)
              /\ trade' = [trade EXCEPT ![c] = NoTrade]
        /\ UNCHANGED <<linkVars, exchangeVars>>

-----------------------------------------------------------------------------
\* check(): can c receive the goods S and the meso m?  Without the slots?
AcceptsWithoutRoom(c, S, m) ==
    /\ purse[c] + m <= MaxMeso
    /\ S \cap Exclusive # {} => bag[c] \cap Exclusive = {}
Accepts(c, S, m) ==
    /\ purse[c] + m <= MaxMeso
    /\ S \cap Exclusive # {} => bag[c] \cap Exclusive = {}
    /\ Cardinality(bag[c]) + Cardinality(S) <= SlotLimit

\* completeTrade's first half: lock the local trade and put its contents
\* where the partner will collect them.
Confirmed(t, p) ==
    /\ locked' = [locked EXCEPT ![t] = TRUE]
    /\ UNCHANGED <<chr, partner, inTrade, reinvited>>

\* completeTrade while the partner has not confirmed yet
ConfirmFirst(c) ==
    LET t == trade[c]
        p == partner[t]
    IN  /\ t # NoTrade
        /\ p # NoTrade
        /\ ~ locked[t]
        /\ ~ locked[p]
        /\ Confirmed(t, p)
        /\ exchangeItems' = [exchangeItems EXCEPT ![p] = items[t]]
        /\ exchangeMeso' = [exchangeMeso EXCEPT ![p] = meso[t]]
        /\ UNCHANGED <<trade, windowVars, goodsVars>>

\* CompleteTrade on both trades: each side collects, less the tax on meso.
\* The windows keep their contents; only the exchange fields are emptied.
Collect(c, S, m, d, T, n) ==
    /\ \E x \in Fill(bag[c], S), y \in Fill(bag[d], T) :
        /\ bag' = [bag EXCEPT ![c] = @ \cup x, ![d] = @ \cup y]
        /\ lost' = lost \cup (S \ x) \cup (T \ y)
    /\ purse' = [purse EXCEPT ![c] = @ + m - Tax(m), ![d] = @ + n - Tax(n)]
    /\ sunk' = sunk + Tax(m) + Tax(n)
    /\ karma' = karma \ (S \cup T)
    /\ UNCHANGED floor

\* completeTrade by the second of the two: exchange, or refund both when
\* either side cannot receive.  Both characters leave their trade.
ConfirmSecond(c) ==
    LET t == trade[c]
        p == partner[t]
        d == chr[p]
    IN  /\ t # NoTrade
        /\ p # NoTrade
        /\ ~ locked[t]
        /\ locked[p]
        /\ Confirmed(t, p)
        /\ \/ /\ Accepts(c, exchangeItems[t], exchangeMeso[t])
              /\ Accepts(d, items[t], meso[t])
              /\ Collect(c, exchangeItems[t], exchangeMeso[t],
                         d, items[t], meso[t])
              /\ exchangeItems' = [exchangeItems EXCEPT ![t] = {}, ![p] = {}]
              /\ exchangeMeso' = [exchangeMeso EXCEPT ![t] = 0, ![p] = 0]
              /\ UNCHANGED windowVars
           \/ /\ \/ ~ Accepts(c, exchangeItems[t], exchangeMeso[t])
                 \/ ~ Accepts(d, items[t], meso[t])
              /\ Refund(c, t, d, p)
              /\ exchangeItems' = [exchangeItems EXCEPT ![p] = items[t]]
              /\ exchangeMeso' = [exchangeMeso EXCEPT ![p] = meso[t]]
        /\ BothLeave(c, d)

-----------------------------------------------------------------------------
\* What reaches a trading character from outside: a script's gift to a party
\* member, and the share of a party member's pick-up.
ReceiveItem(c, i) ==
    /\ i \in floor
    /\ CanHold(bag[c] \cup {i})
    /\ bag' = [bag EXCEPT ![c] = @ \cup {i}]
    /\ floor' = floor \ {i}
    /\ UNCHANGED <<trade, linkVars, windowVars, exchangeVars>>
    /\ UNCHANGED <<purse, karma, lost, sunk>>

ReceiveMeso(c, m) ==
    /\ purse[c] + m <= MaxMeso
    /\ purse' = [purse EXCEPT ![c] = @ + m]
    /\ sunk' = sunk - m
    /\ UNCHANGED <<trade, linkVars, windowVars, exchangeVars>>
    /\ UNCHANGED <<bag, karma, floor, lost>>

Next ==
    \E c \in Char :
        \/ StartTrade(c)
        \/ \E d \in Char : InviteTrade(c, d)
        \/ VisitTrade(c)
        \/ \E m \in Amounts : SetMeso(c, m)
        \/ \E i \in Item : SetItems(c, i)
        \/ ConfirmFirst(c)
        \/ ConfirmSecond(c)
        \/ CancelTrade(c)
        \/ DeclineTrade(c)
        \/ \E i \in Item : ReceiveItem(c, i)
        \/ \E m \in Amounts : ReceiveMeso(c, m)

Spec == Init /\ [][Next]_vars

-----------------------------------------------------------------------------
\* The fields hold what their Java types allow.
TypeOK ==
    /\ trade \in [Char -> Trade \cup {NoTrade}]
    /\ chr \in [Trade -> Char \cup {NoChar}]
    /\ partner \in [Trade -> Trade \cup {NoTrade}]
    /\ locked \in [Trade -> BOOLEAN]
    /\ inTrade \in [Trade -> BOOLEAN]
    /\ items \in [Trade -> SUBSET Item]
    /\ meso \in [Trade -> 0..MaxMeso]
    /\ exchangeItems \in [Trade -> SUBSET Item]
    /\ exchangeMeso \in [Trade -> 0..MaxMeso]
    /\ bag \in [Char -> SUBSET Item]
    /\ purse \in [Char -> 0..MaxMeso]
    /\ karma \in SUBSET Item
    /\ floor \in SUBSET Item
    /\ lost \in SUBSET Item
    /\ sunk \in Int
    /\ reinvited \in BOOLEAN

\* The trades somebody sits in.
Live == {t \in Trade : \E c \in Char : trade[c] = t}

\* The window a character has goods in.
Window(c) == IF trade[c] = NoTrade THEN {} ELSE items[trade[c]]

\* Trading never copies an item and never loses track of one: it is with one
\* character, in one open window, on the floor, or was thrown away by a
\* refund, and only one of these.  It needs the inviter's single partner:
\* a second invitation leaves a trade that still points at the inviter.
OneHolder(i) ==
    /\ \/ i \in floor \cup lost
       \/ \E c \in Char : i \in bag[c] \cup Window(c)
    /\ i \in floor => i \notin lost
    /\ \A c \in Char :
        /\ i \in bag[c] \cup Window(c) => i \notin floor \cup lost
        /\ i \in bag[c] => i \notin Window(c)
        /\ \A d \in Char \ {c} :
            i \in bag[c] \cup Window(c) => i \notin bag[d] \cup Window(d)

SoleHolder == ~ reinvited => \A i \in Item : OneHolder(i)

\* The meso in purses and open windows changes only by tax, by a refund
\* that would overflow, and by what is picked up.
MesoConserved ==
    ~ reinvited =>
        LET open(c) == IF trade[c] = NoTrade THEN 0 ELSE meso[trade[c]]
        IN  MapThenSumSet(LAMBDA c : purse[c] + open(c), Char) + sunk
              = MapThenSumSet(LAMBDA c : StartPurse[c], Char)

\* Nobody is left in a trade whose other side has gone or belongs elsewhere.
Paired ==
    ~ reinvited =>
        \A t \in Live : partner[t] # NoTrade =>
            /\ partner[t] \in Live
            /\ partner[partner[t]] = t
            /\ chr[partner[t]] # chr[t]

\* What one side confirmed is what the other is going to collect: nothing is
\* added to or taken from a window after it was confirmed.
AgreedOffer ==
    ~ reinvited =>
        \A t \in Live : locked[t] =>
            /\ ~ locked[partner[t]]
            /\ exchangeItems[partner[t]] = items[t]
            /\ exchangeMeso[partner[t]] = meso[t]

\* A drop-restricted item changes hands at most once for its karma flag: one
\* that lost the flag in an exchange is in no open window.
KarmaSpent ==
    ~ reinvited => \A c \in Char : Window(c) \cap DropRestricted \subseteq karma

\* While a character stays in a trade its offer only grows, so who confirms
\* on what the window shows gets at least that.
OfferOnlyGrows ==
    [][\A c \in Char : trade'[c] = trade[c] /\ trade[c] # NoTrade =>
        /\ items[trade[c]] \subseteq items'[trade[c]]
        /\ meso[trade[c]] <= meso'[trade[c]]]_vars

\* How trade objects hang together whatever is invited: a character sits in
\* its own trade, the two ends of a link belong to two characters, nothing
\* points to an object before it is made, and nothing is put up or confirmed
\* before there is a partner.
Linked ==
    /\ \A c \in Char : trade[c] # NoTrade => chr[trade[c]] = c
    /\ \A t \in Trade : partner[t] # NoTrade =>
        /\ chr[t] # NoChar
        /\ chr[partner[t]] # NoChar
        /\ chr[t] # chr[partner[t]]
    /\ \A t \in Trade : partner[t] = NoTrade =>
        ~ locked[t] /\ items[t] = {} /\ meso[t] = 0

\* A stack is thrown away only by a refund that finds its owner's inventory
\* changed since the stack was put up, never by an exchange: check() sees to
\* the room.  It does not see two pickup-restricted stacks in one window.
ExchangeDelivers ==
    [][\A i \in lost' \ lost : ~ reinvited =>
        \E c \in Char :
            /\ i \in Window(c)
            /\ \/ ~ CanHold(bag'[c] \cup {i})
               \/ Cardinality(Window(c) \cap Exclusive) > 1]_vars
=============================================================================
