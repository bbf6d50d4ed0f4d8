SPECIFICATION FairSpec
CONSTANTS
    e1 = e1  e2 = e2  e3 = e3
    Events = {e1, e2, e3}
    NoEvent = NoEvent
    Wake = {e1, e2, e3}
    Limited = {}
    Chunked = {}
    Failing = {}
    QuietStart = FALSE
    MaxRotations = 1
    MaxCrashes = 0
PROPERTIES Delivered
