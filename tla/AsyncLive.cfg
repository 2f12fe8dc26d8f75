SPECIFICATION FairSpec
CONSTANTS
    Terminations = {k1}
    Calls = {a1}
    HasCallback = {}
    Workers = {w1}
    Notifiers = {d1}
    Cancelers = {}
    Outsiders = {o1}
    ProviderResults = {"data", "fail"}
    MaxSchedules = 2
    None = None
INVARIANTS CleanupWaitsForWork SignaledOnce
PROPERTIES WaitersReturn CallsAreCleanedUp TerminationEnds
CHECK_DEADLOCK FALSE
