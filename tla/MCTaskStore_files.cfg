SPECIFICATION FairSpec
CONSTANTS
    t1 = t1  t2 = t2
    Tasks = {t1, t2}
    Deps <- MCDeps
    Contracts = {c1}
    NoContract = NoContract
    Notes = {}
    Absent = Absent
    Open = {"backlog", "in_progress"}
    Closings = {"done"}
    Reopenable = {t1}
    MaxSequence = 2
    MaxArchive = 5
    MaxDay = 2
    MaxCrashes = 1
INVARIANTS TypeOK NeverVanishes IndexLeadsToRecord ReleasedAfterDeps GetFinds
PROPERTIES ReopenAdvances ImplementsBoard DependentsReleased
