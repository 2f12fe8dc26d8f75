SPECIFICATION Spec
CONSTANTS
    Terminations = {}
    Calls = {a1}
    HasCallback = {a1}
    Workers = {w1, w2}
    Notifiers = {d1}
    Cancelers = {}
    Outsiders = {}
    ProviderResults = {"data", "fail"}
    MaxSchedules = 2
    None = None
INVARIANTS NoWorkAtCleanup
CHECK_DEADLOCK FALSE
