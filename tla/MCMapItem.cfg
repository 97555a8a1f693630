SPECIFICATION Spec
CONSTANTS
    a = a  b = b  e = e  m1 = m1  m2 = m2
    Char = {a, b, e}
    Map = {m1}
    Oid = {o1}
    Worker = Worker
    Clearer = {t1}
    Mover = Mover
    Home <- MCAllHere
    Ways = {"hand", "stride", "blast"}
    NoOne = NoOne  NoDrop = NoDrop
    Everlast = {}
    Market = {}
    PartyOf <- MCOneAlone
    Bonus = {b}
    Amounts = {99}
    MobTypes = {0, 1}
INVARIANTS TypeOK GrantedOnce SharesFit
PROPERTIES OwnerFirst
CHECK_DEADLOCK FALSE
