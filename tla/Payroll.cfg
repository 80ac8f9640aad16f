SPECIFICATION Spec
CONSTANTS
    None = None
    Staff = {e1}
    Salaries = {0, 1}
    MaxSeeds = 2
    Reqs = {r1}
INVARIANTS LeaveIsGranted
