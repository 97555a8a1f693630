CONSTANTS
    Player = {p1, p2}
    SquadId = {s1, s2, s3}
    BattleId = {b1, b2}
    Seats = 3
    MinMembers = 1
    Habits = {"lead", "join", "logout", "walk", "return", "reserve", "withdraw", "ban"}
    LieDetector = FALSE
    Nobody = Nobody
    None = None
SPECIFICATION Spec
CHECK_DEADLOCK FALSE
INVARIANTS
    TypeOK
    InBattle
    Enrolled
    Waiting
PROPERTIES
    BossFree
VIEW MCView
