\* An order to be paid and a free one, one fault, one repeated notification, one
\* granted discount, under fairness.
CONSTANTS
    p1 = p1  p2 = p2   u1 = u1
    Payments = {p1, p2}
    Users = {u1}
    Owner <- MCOwner2
    Free = {p2}
    TrialUsers = {}
    Runs = {w1}
    NoRow = NoRow
    MaxFaults = 1
    MaxResends = 1
    MaxGrants = 1
SPECIFICATION FairSpec
PROPERTIES PaidIsSettled
CHECK_DEADLOCK FALSE
