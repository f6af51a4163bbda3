\* Three users, two paid orders, one administrator; two events, each a change of the
\* settings or of points, a deletion, an error or a death.
SPECIFICATION Spec
CONSTANTS
    u1 = u1  u2 = u2  u3 = u3  o1 = o1  o2 = o2
    Users <- MCUsers
    NoUser = NoUser
    Admins = {a1}
    Orders <- MCOrders
    Kinds <- MCKinds
    Prices = {300}
    Durations = {30}
    Changes <- MCChanges
    Values = {2}
    Configured <- MCConfigured
    PERCENT_MAX_REWARD = 100
    AMOUNT_MAX_REWARD = 100000
    MaxEvents = 2
SYMMETRY MCSymmetry
INVARIANTS IssuedWasGranted RewardsGoUp PointsAddUp FirstPaymentOnce LevelsIndependent
PROPERTIES RewardedOnce
CHECK_DEADLOCK FALSE
