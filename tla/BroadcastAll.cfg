\* Three recipients in batches of two, a cancel request, a deletion and two faults,
\* under fairness.
SPECIFICATION FairSpec
CONSTANTS
    r1 = r1  r2 = r2  r3 = r3  d1 = d1  d2 = d2
    Recipients <- MCThree
    BatchSize = 2
    Deleters = {d1}
    MaxCancels = 1
    MaxFaults = 2
INVARIANTS StatsMatchRows StillDeletable
PROPERTIES PromiseKept BroadcastEnds
CHECK_DEADLOCK FALSE
