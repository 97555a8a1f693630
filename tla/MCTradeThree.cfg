SPECIFICATION Spec
CONSTANTS
    a = a  b = b  e = e
    i1 = i1  i2 = i2  i3 = i3  i4 = i4
    Char = {a, b, e}
    Item = {i1, i2}
    Trade = {t1, t2, t3, t4}
    NoTrade = NoTrade
    NoChar = NoChar
    DropRestricted = {}
    Exclusive = {}
    SlotLimit = 1
    WindowSize = 1
    MaxMeso = 0
    Amounts = {}
    Tax <- MCTax
    StartBag <- MCBagOfEach
    StartPurse <- MCNoMeso
SYMMETRY MCSymmetry
INVARIANTS Linked Paired
PROPERTIES OfferOnlyGrows
CHECK_DEADLOCK FALSE
