SPECIFICATION FairSpec
CONSTANTS
    a = a  b = b  e = e  m1 = m1  m2 = m2
    Char = {a}
    Map = {m1, m2}
    Oid = {o1}
    Worker = Worker
    Clearer = {}
    Mover = Mover
    Home <- MCAllHere
    Ways = {"pet"}
    NoOne = NoOne  NoDrop = NoDrop
    Everlast = {m2}
    Market = {m1}
    PartyOf <- MCOneOutside
    Bonus = {}
    Amounts = {}
    MobTypes = {0}
INVARIANTS MapTellsTruth RandDropKept
PROPERTIES Cleared
CHECK_DEADLOCK FALSE
