\* Two users, three addresses, two requests at once; three requests, one fault.
SPECIFICATION Spec
CONSTANTS
    u1 = u1  u2 = u2  e1 = e1  e2 = e2  e3 = e3  t1 = t1  t2 = t2
    Users <- MCUsers
    Emails <- MCEmails
    NoEmail = NoEmail
    Registration <- MCRegistration
    Tasks <- MCTasks
    MaxRequests = 3
    MaxFaults = 1
SYMMETRY MCSymmetry
INVARIANTS VerifiedByCode OldSessionsEnd KeysAreListed
CHECK_DEADLOCK FALSE
