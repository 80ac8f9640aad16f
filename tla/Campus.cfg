SPECIFICATION Spec
CONSTANTS
    None = None
    Gone = Gone
    Reqs = {r1, r2}
    Admins = {a1, a2, a3}
    Years = {1, 2}
    Numbers = {1, 2}
    Students = {e1, e2}
    h1 = h1
    Hostels = {h1, h2}
    x1 = x1
    Rooms = {x1}
    HostelOf <- MCHostelOf
    Capacities = {0, 1}
    MaxWorks = 3
    Lessons = {e1, e2}
    Plans <- MCPlans
    c1 = c1
    c2 = c2
    A = A
    B = B
    t1 = t1
    t2 = t2
    s1 = s1
    s2 = s2
    q1 = q1
    q2 = q2
    Sections = {s1, s2}
    Requirements = {q1, q2}
    SectionOf <- MCSectionOf
    Defaults = {s1}
    Regs = {g1}
    MaxChanges = 4
    References = {1, 2}
    Salaries = {0, 1, 2}
    MaxSeeds = 2
    Prefixes = {e1, e2}
    MaxNumber = 2
    MaxStamp = 2
    Uploads = {e1, e2}
    Marks = {0, 1, 2}
CHECK_DEADLOCK FALSE
SYMMETRY Symmetry
CONSTRAINT MostUndisturbed
INVARIANTS TypeOK SomebodyIsLeft CalendarAgrees BedsExist NobodyInTwoPlaces CompletedAsAnswered
    RowsAddUp NumbersGivenOnce StaleIsRefused
PROPERTIES PlacingNeverOverfills FinalStaysFinal
