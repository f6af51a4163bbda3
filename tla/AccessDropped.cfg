\* One administrator, two waiting users, no faults.
SPECIFICATION Spec
CONSTANTS
    u1 = u1  u2 = u2  a1 = a1  a2 = a2
    Users <- MCTwo
    Kind <- MCWaiters
    Admins = {a1}
    Modes = {"PUBLIC", "RESTRICTED"}
    NoTask = NoTask
    NoValue = NoValue
    MaxEvents = 3
INVARIANTS NobodyDropped
CHECK_DEADLOCK FALSE
