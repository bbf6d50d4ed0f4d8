SPECIFICATION FairSpec
CONSTANTS
    e1 = e1  e2 = e2  e3 = e3
    Events = {e1, e2, e3}
    NoEvent = NoEvent
    Wake = {e1, e2}
    Limited = {e2}
    Chunked = {e1, e3}
    Failing = {"running"}
    QuietStart = TRUE
    MaxRotations = 0
    MaxCrashes = 2
INVARIANTS TypeOK CursorCoversHandled
PROPERTIES ImplementsQueue Delivered
