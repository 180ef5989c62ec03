SPECIFICATION EdgesSpec
CONSTANTS
    f1 = f1
    f2 = f2
    v1 = v1
    Flows = {f1, f2}
    Voices = {v1, v2}
    Commands = {c1}
    NoFlow = NoFlow
    Turns = {t1, t2}
    Sessions = {s1, s2}
    Parents = {p1}
    NoTurn = NoTurn
    NoSession = NoSession
    NoParent = NoParent
    MaxCancels = 2
    MaxSweeps = 1
    MaxGeneration = 3
    MaxVersion = 3
    m1 = m1
    m2 = m2
    Managers = {m1, m2}
    MaxIssued = 2
    MaxLogins = 1
    MaxTransients = 1
    MaxUpsets = 1
    r1 = r1
    Leases = {r1}
    MaxBrokers = 3
    MaxChanges = 2
    MaxMishaps = 1
    i1 = i1
    i2 = i2
    Ids = {i1, i2}
    MaxLosses = 3
    MaxRestarts = 2
    MaxRuns = 2
    MaxClicks = 2
INVARIANTS
    VoiceSafety
    ManagedSafety
    DurableOnReturn
    ChangesAreNotForgotten
    AccountsSafety
PROPERTIES
    FileNeverGoesBack
    EverythingEnds
CHECK_DEADLOCK FALSE
