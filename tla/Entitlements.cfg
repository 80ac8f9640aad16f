SPECIFICATION Spec
CONSTANTS
    Modules = {core, finance, students}
    finance = finance
    Core = core
    admin = admin
    teacher = teacher
    Users = {teacher}
    Allowed <- MCAllowed
    Reqs = {r1, r2}
    MaxReplaces = 2
    MaxFailures = 1
    None = None
INVARIANTS TypeOK ReplacementsAreExact ClaimsAreCurrent
PROPERTY Converges
