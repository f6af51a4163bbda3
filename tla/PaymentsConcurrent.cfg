\* Two orders of one trial buyer, two concurrent runs, one repeated notification.
CONSTANTS
    p1 = p1  p2 = p2   u1 = u1
    Payments = {p1, p2}
    Users = {u1}
    Owner <- MCOwner2
    Free = {}
    TrialUsers = {u1}
    Runs = {w1, w2}
    NoRow = NoRow
    MaxFaults = 0
    MaxResends = 1
    MaxGrants = 0
SPECIFICATION Spec
INVARIANTS DeliveredIsConfirmed NoSilentLoss PeriodsAddUp CurrentIsOnlyLive PanelAgrees
PROPERTIES BuysOnce LedgerSpec
CHECK_DEADLOCK FALSE
