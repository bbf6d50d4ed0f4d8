SPECIFICATION Spec
CONSTANTS
    a1 = a1  a2 = a2  role = role  stage = stage  kernel = kernel
    NoAttempt = NoAttempt
    Attempts = {a1, a2}
    Lanes = {role, stage}
    LaneOf <- RoleLane
    PipelineLanes = {stage}
    Procs = {kernel}
    Kernel = kernel
    Mode = "enforce"
    MaxAttempts = 1
    Replayable = {}
    Submitters = {}
    Mortal = {}
    MaxDeliveries = 2
    MaxOperationEvents = 0
    MaxCrashes = 0
INVARIANTS ExhaustedTaskBlocked
