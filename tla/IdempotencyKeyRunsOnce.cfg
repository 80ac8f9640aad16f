SPECIFICATION Spec
CONSTANTS
    Reqs = {r1, r2}
    Keys = {k1}
    onboardA = onboardA
    onboardB = onboardB
    update = update
    code = code
    Payloads = {onboardA, onboardB, update}
    Codes = {code}
    CodeOf <- MCCodeOf
    MaxOpen = 2
    None = None
CHECK_DEADLOCK FALSE
INVARIANT KeyRunsOnce
