SPECIFICATION Spec
CONSTANTS
    a = a  b = b  e = e
    i1 = i1  i2 = i2  i3 = i3  i4 = i4
    Char = {a, b}
    Item = {i1, i2, i3}
    Trade = {t1, t2, t3, t4}
    NoTrade = NoTrade
    NoChar = NoChar
    DropRestricted = {i1}
    Exclusive = {i2, i3}
    SlotLimit = 1
    WindowSize = 2
    MaxMeso = 2
    Amounts = {2}
    Tax <- MCTax
    StartBag <- MCBagOfEach
    StartPurse <- MCPurses
SYMMETRY MCSymmetry
INVARIANTS TypeOK SoleHolder MesoConserved AgreedOffer KarmaSpent
PROPERTIES ExchangeDelivers
CHECK_DEADLOCK FALSE
