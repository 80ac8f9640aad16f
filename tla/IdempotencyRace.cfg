SPECIFICATION Spec
CONSTANTS
    Reqs = {r1, r2, r3}
    Keys = {k1, k2}
    onboardA = onboardA
    onboardB = onboardB
    update = update
    code = code
    Payloads = {onboardA, onboardB, update}
    Codes = {code}
    CodeOf <- MCCodeOf
    MaxOpen = 3
    None = None
CHECK_DEADLOCK FALSE
SYMMETRY Symmetry
INVARIANTS TypeOK OnboardedAsRecorded CommittedKeyRunsNoMore ReplayAnswersTheRequest
PROPERTY DurableAnswerStays
