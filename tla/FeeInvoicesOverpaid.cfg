SPECIFICATION Spec
CONSTANTS
    Students = {1}
    Terms = {thisTerm}
    thisTerm = thisTerm
    nextYear = nextYear
    base = base
    trip = trip
    Structs = {base, trip}
    Reqs = {r1, r2}
    MaxStamp = 4
    MaxReceived = 4
    TermNumber <- MCTermNumber
    FeesOf <- MCFeesOf
    Class <- MCClass
    Residence <- MCResidence
    None = None
INVARIANT NeverOverpaid
