SPECIFICATION FairSpec
CONSTANTS
    c1 = c1
    c2 = c2
    i2 = i2
    Contexts = {c1}
    Items = {i1, i3}
    Delayed = {}
    ItemContext <- MCItemContext
    Terminations = {}
    TerminationContext <- MCTerminationContext
    Submitters = {s1}
    Terminators = {}
    Suspenders = {}
    Dispatchers = {}
    Patient = {}
    DispatcherContext <- MCDispatcherContext
    Workers = {w1, w2}
    Timers = {}
    Observers = {}
    Modes = {"SerializedThreadPool"}
    None = None
PROPERTIES AcceptedItemsAreCalled
CHECK_DEADLOCK FALSE
