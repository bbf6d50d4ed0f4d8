SPECIFICATION AuthFairSpec
CONSTANTS
    t1 = t1  r1 = r1  r2 = r2  c1 = c1  c2 = c2
    Wanted <- MCWanted
    Tasks = {t1}
    Deps <- MCDeps
    Contracts = {c1, c2}
    NoContract = NoContract
    Requests = {r1, r2}
    Replans = {r2}
    Notes = {n1}
    Absent = Absent
    Open = {"backlog", "review"}
    Closings = {"done"}
    Reopenable = {t1}
    MaxSequence = 3
    MaxArchive = 1
    MaxDay = 2
    MaxCrashes = 1
INVARIANTS AuthTypeOK EvidenceFirst
PROPERTIES ImplementsHistory RequestsSettle
CHECK_DEADLOCK FALSE
