SPECIFICATION Spec
CONSTANTS
    r1 = r1  r2 = r2
    c1 = c1  c2 = c2
    Regs = {r1, r2}
    Contexts = {c1, c2}
    RegContext <- MCRegContext
    Signals <- MCSignals
    Ended = {c2}
    Clients = {u1, u2}
    PoolThreads = {p1}
    Dispatchers = {d1}
    Waiters = {v1}
    PortWaitMax = 2
    QueueWaitMax = 2
    MaxRefs = 2
    None = None
INVARIANTS RegistrationsRemain
CHECK_DEADLOCK FALSE
