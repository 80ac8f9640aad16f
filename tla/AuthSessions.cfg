SPECIFICATION SizedSpec
CONSTANTS
    Users = {u1, u2}
    Tokens = {t1, t2, t3}
    Reqs = {r1, r2}
    MaxEpoch = 2
    None = None
SYMMETRY Symmetry
INVARIANTS TypeOK DoomedStayRevoked ChainHasOneEnd TokensAreSound
PROPERTIES RevokingTakesEffect KeepsPromise
