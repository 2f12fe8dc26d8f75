SPECIFICATION ScenarioSpec
CONSTANTS
    c1 = c1
    c2 = c2
    i2 = i2
    w1 = w1
    t1 = t1
    k1 = k1
    Scenarios = {"pool", "serialized", "terminations", "deliveries"}
    PoolItems = {i1, i2}
    Contexts = {c1, c2}
    Items = {i1, i2, i3, i4}
    Delayed = {i1, i2}
    ItemContext <- MCItemContext
    Terminations = {k1, k2}
    TerminationContext <- MCTerminationContext
    Submitters = {s1}
    Terminators = {t1, t2}
    Suspenders = {p1, p2}
    Dispatchers = {}
    Patient = {}
    DispatcherContext <- MCDispatcherContext
    Workers = {w1, w2, w3}
    Timers = {m1}
    Observers = {o1}
    Modes = {"ThreadPool", "SerializedThreadPool"}
    None = None
INVARIANTS
    TypeOK ItemInOnePlace QueuedItemHasDrain OneDrainer EmptyMeansDone
    TerminationInOnePlace ParkedTerminationHasWaker ResumeIsPaired
PROPERTIES TerminationIsFinal
SYMMETRY Interchangeable
CHECK_DEADLOCK FALSE
