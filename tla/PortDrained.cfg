SPECIFICATION Spec
CONSTANTS
    c1 = c1
    c2 = c2
    i2 = i2
    Contexts = {c1}
    Items = {i1, i3}
    Delayed = {}
    ItemContext <- MCItemContext
    Terminations = {k1}
    TerminationContext <- MCTerminationContext
    Submitters = {s1}
    Terminators = {t1}
    Suspenders = {}
    Dispatchers = {}
    Patient = {}
    DispatcherContext <- MCDispatcherContext
    Workers = {w1}
    Timers = {}
    Observers = {}
    Modes = {"ThreadPool"}
    None = None
INVARIANTS DrainedBeforeTerminated
CHECK_DEADLOCK FALSE
