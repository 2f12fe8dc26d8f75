SPECIFICATION Spec
CONSTANTS
    i1 = i1  i2 = i2  i3 = i3
    c1 = c1  c2 = c2
    Items = {i1, i2, i3}
    Contexts = {c1, c2}
    ItemContext <- MCItemContext
    Delay <- MCDelay
    Submitters = {s1}
    Timers = {m1}
    Cancelers = {x1}
    Ended = {c2}
    Early = 0
    MaxTime = 4
    None = None
INVARIANTS OtherQueueKeepsTimer
CHECK_DEADLOCK FALSE
