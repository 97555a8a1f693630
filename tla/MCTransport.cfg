CONSTANTS
    Passenger = {p1}
    Lines <- ServedLines
    MaxTests = 1
    MaxLogouts = 1
SPECIFICATION Spec
INVARIANTS
    TypeOK
    NoStowaway
    GateShutOnRide
PROPERTIES
    Delivered
    Served
