SPECIFICATION FairScenarioSpec
CONSTANTS
    c1 = c1
    c2 = c2
    i2 = i2
    w1 = w1
    t1 = t1
    k1 = k1
    Scenarios = {"dispatch", "pool"}
    PoolItems = {i1, i2}
    Contexts = {c1, c2}
    Items = {i1, i2}
    Delayed = {i2}
    ItemContext <- MCItemContext
    Terminations = {k1}
    TerminationContext <- MCTerminationContext
    Submitters = {s1}
    Terminators = {t1}
    Suspenders = {}
    Dispatchers = {d1, d2}
    Patient = {d1}
    DispatcherContext <- MCDispatcherContext
    Workers = {w1}
    Timers = {m1}
    Observers = {}
    Modes = {"Manual", "ThreadPool"}
    None = None
PROPERTIES AcceptedItemsAreCalled TerminationsAreDelivered DispatchersReturn
CHECK_DEADLOCK FALSE
