SPECIFICATION Spec
CONSTANTS
    Char = {a, b, e}
    GuildId = {g1}
    NoGuild = NoGuild
    NoOne = NoOne
    Capacity = 2
    GivenRanks = {2, 5}
    MaxBusy = 3
    MaxMoving = 2
SYMMETRY MCSymmetry
CONSTRAINT MCBound
INVARIANTS TypeOK SeatsKept Agreed OneLeader
CHECK_DEADLOCK FALSE
