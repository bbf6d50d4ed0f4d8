\* The provider dies twice by itself, zf stop runs once, and there is one
\* mishap: the kernel or a submit dies, a submit outlives its pane, or the
\* cool-down drops a checkpoint event.
SPECIFICATION FairSpec
CONSTANTS
    MaxDeaths = 2
    MaxStops = 1
    MaxMishaps = 1
    SendRaises = TRUE
    RespawnOutcomes = {"spawned", "refused", "failed"}
INVARIANTS
    TypeOK
    RetryBound
    PromptsAccounted
    PromptsBounded
PROPERTIES
    TerminalStays
    NoPromptAfterEnd
    StopRedriven
    DeadProviderNoticed
    Resolved
