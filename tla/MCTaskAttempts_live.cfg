SPECIFICATION FairSpec
CONSTANTS
    a1 = a1  a2 = a2  role = role  stage = stage  kernel = kernel
    NoAttempt = NoAttempt
    Attempts = {a1, a2}
    Lanes = {role, stage}
    LaneOf <- RoleLane
    PipelineLanes = {stage}
    Procs = {kernel}
    Kernel = kernel
    Mode = "enforce"
    MaxAttempts = 1
    Replayable = {}
    Submitters = {}
    Mortal = {a1}
    MaxDeliveries = 2
    MaxOperationEvents = 0
    MaxCrashes = 1
INVARIANTS RetryBudget DeadletterExplained
PROPERTIES ExpiredDispatchReleased DeadAttemptCloses
