\* A canceled broadcast is deleted while a batch is in flight.
SPECIFICATION FairSpec
CONSTANTS
    r1 = r1  r2 = r2  r3 = r3  d1 = d1  d2 = d2
    Recipients <- MCThree
    BatchSize = 1
    Deleters = {d1}
    MaxCancels = 1
    MaxFaults = 0
PROPERTIES CancelStopsSending
CHECK_DEADLOCK FALSE
