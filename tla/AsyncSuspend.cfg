SPECIFICATION Spec
CONSTANTS
    Terminations = {k1}
    Calls = {a1, a2}
    HasCallback = {a1}
    Workers = {w1}
    Notifiers = {d1}
    Cancelers = {}
    Outsiders = {}
    ProviderResults = {"data", "fail"}
    MaxSchedules = 1
    None = None
INVARIANTS CompletionAccepted
CHECK_DEADLOCK FALSE
