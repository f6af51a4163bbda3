\* Two users, two requests at once; three events; under fairness.
SPECIFICATION FairSpec
CONSTANTS
    u1 = u1  u2 = u2  u3 = u3  t1 = t1  t2 = t2
    Users <- MCTwo
    Nobody = Nobody
    System = System
    Tasks <- MCTasks
    MaxEvents = 3
INVARIANTS SingleOwner BlockedStay
PROPERTIES OwnerIsBack
CHECK_DEADLOCK FALSE
