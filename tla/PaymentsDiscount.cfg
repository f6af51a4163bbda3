\* Two orders of one trial buyer and one granted discount.
CONSTANTS
    p1 = p1  p2 = p2   u1 = u1
    Payments = {p1, p2}
    Users = {u1}
    Owner <- MCOwner2
    Free = {}
    TrialUsers = {u1}
    Runs = {w1}
    NoRow = NoRow
    MaxFaults = 0
    MaxResends = 0
    MaxGrants = 1
SPECIFICATION Spec
INVARIANTS DiscountUsedOnce
CHECK_DEADLOCK FALSE
