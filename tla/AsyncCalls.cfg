SPECIFICATION Spec
CONSTANTS
    Terminations = {k1}
    Calls = {a1}
    HasCallback = {a1}
    Workers = {w1}
    Notifiers = {d1}
    Cancelers = {x1}
    Outsiders = {}
    ProviderResults = {"data", "fail"}
    MaxSchedules = 1
    None = None
INVARIANTS TypeOK CompletionAccepted TerminationWaitsForCalls CleanupWaitsForWork SignaledOnce LiveReferences
CHECK_DEADLOCK FALSE
