\* Two administrators, one user; three events, each an operation on a field or a
\* fault; under fairness.
SPECIFICATION FairSpec
CONSTANTS
    u1 = u1  u2 = u2  a1 = a1  a2 = a2
    Users <- MCOne
    Kind <- MCKindOne
    Admins = {a1, a2}
    Modes = {"PUBLIC", "RESTRICTED"}
    NoTask = NoTask
    NoValue = NoValue
    MaxEvents = 3
INVARIANTS StaleOnlyByOverlap WaitersKept
PROPERTIES OwnFieldOnly RestoredAreTold
CHECK_DEADLOCK FALSE
