SPECIFICATION PartsSpec
CONSTANTS
    a = a  b = b  c = c  d = d  e = e
    i1 = i1  i2 = i2  i3 = i3
    c1 = c1  c2 = c2
    q1 = q1  q2 = q2
    h1 = h1  h2 = h2
    Callers = {a, b}
    None = None
INVARIANTS
    PartsTypeOK OneFirstCall QueriesFindRuntime
    NodeInOnePlace TimerCoversPending
    LiveRegistrations OneEntryPerRegistration RegistrationHears
    MonitorsAreActive MonitorsAreCalled VisitedAreAttached
    NothingDangles
PROPERTIES
    FifoUnlessLate DueIsMet QueuesAreDeleted
CHECK_DEADLOCK FALSE
