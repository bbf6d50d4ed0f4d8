SPECIFICATION Spec
CONSTANTS
    a1 = a1  a2 = a2  role = role  stage = stage  kernel = kernel
    NoAttempt = NoAttempt
    Attempts = {a1, a2}
    Lanes = {role, stage}
    LaneOf <- StageLane
    PipelineLanes = {stage}
    Procs = {kernel}
    Kernel = kernel
    Mode = "enforce"
    MaxAttempts = 2
    Replayable = {a1}
    Submitters = {a2}
    Mortal = {}
    MaxDeliveries = 2
    MaxOperationEvents = 1
    MaxCrashes = 1
INVARIANTS TypeOK OneLiveAttempt CurrentIsLatest AtMostOneDelivery OperationFailureIsOwn
PROPERTIES SucceededIsFinal ImplementsLanes
