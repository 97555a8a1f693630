CONSTANTS
    Player = {p1, p2, p3}
    SquadId = {s1, s2}
    BattleId = {b1, b2}
    Seats = 3
    MinMembers = 1
    Habits = {"lead", "join", "logout", "walk", "return", "reserve", "withdraw", "haste", "dawdle"}
    LieDetector = TRUE
    Nobody = Nobody
    None = None
SPECIFICATION Spec
SYMMETRY MCSymmetry
CONSTRAINT MCNoLapse
CHECK_DEADLOCK FALSE
INVARIANTS
    OneBattle
    DoorShut
