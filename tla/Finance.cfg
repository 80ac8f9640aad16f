SPECIFICATION FinanceSpec
CONSTANTS
    Drafts = {s1, s2}
    DraftTerms = {t1, t2}
    Slots = {i1, i2}
    Fees = {f1}
    Heads = {h1, h2}
    Students = {1, 2}
    Terms = {thisTerm}
    thisTerm = thisTerm
    nextYear = nextYear
    base = base
    trip = trip
    Structs = {base, trip}
    Reqs = {r1, r2}
    MaxStamp = 2
    MaxReceived = 2
    TermNumber <- MCTermNumber
    FeesOf <- MCFeesOf
    Class <- MCClass
    Residence <- MCResidence
    None = None
SYMMETRY Symmetry
INVARIANTS FinanceTypeOK StructuresAreSound PaidWasReceived NumbersHold InvoicesAddUp
PROPERTIES PricesHold
CHECK_DEADLOCK FALSE
