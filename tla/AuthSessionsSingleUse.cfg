SPECIFICATION SizedSpec
CONSTANTS
    Users = {u1}
    Tokens = {t1, t2, t3}
    Reqs = {r1, r2}
    MaxEpoch = 0
    None = None
INVARIANT SingleUse
