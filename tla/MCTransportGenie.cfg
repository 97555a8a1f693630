CONSTANTS
    Passenger = {p1}
    Lines <- OneGeenie
    MaxTests = 0
    MaxLogouts = 0
SPECIFICATION Spec

PROPERTIES
    Served
