\* Three users, two requests at once; three events.
SPECIFICATION Spec
CONSTANTS
    u1 = u1  u2 = u2  u3 = u3  t1 = t1  t2 = t2
    Users <- MCThree
    Nobody = Nobody
    System = System
    Tasks <- MCTasks
    MaxEvents = 3
PROPERTIES CheckedIsReplaced
CHECK_DEADLOCK FALSE
