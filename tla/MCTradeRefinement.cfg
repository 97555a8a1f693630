SPECIFICATION SpecOneInvitation
CONSTANTS
    a = a  b = b  e = e
    i1 = i1  i2 = i2  i3 = i3
    Char = {a, b, e}
    Item = {i1, i2, i3}
    Trade = {t1, t2, t3}
    NoTrade = NoTrade
    NoChar = NoChar
    DropRestricted = {}
    Exclusive = {i1, i3}
    SlotLimit = 2
    WindowSize = 2
    MaxMeso = 2
    Amounts = {2}
    Tax <- MCTax
    StartBag <- MCStartBag
    StartPurse <- MCStartPurse
SYMMETRY MCSymmetry
PROPERTIES ContractSpec
CHECK_DEADLOCK FALSE
