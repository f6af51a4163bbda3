\* One recipient whose message Telegram refuses to delete.
SPECIFICATION Spec
CONSTANTS
    r1 = r1  r2 = r2  r3 = r3  d1 = d1  d2 = d2
    Recipients <- MCTwo
    BatchSize = 1
    Deleters = {d1}
    MaxCancels = 0
    MaxFaults = 0
INVARIANTS DeletedMeansRemoved
CHECK_DEADLOCK FALSE
