\* One code, a subscribed user and a new one, two overlapping requests, an edit
\* or deletion of the code, one fault, under fairness.
SPECIFICATION FairSpec
CONSTANTS
    c1 = c1  c2 = c2  u1 = u1  u2 = u2
    Codes = {c1}
    Users = {u1, u2}
    Tasks = {t1, t2}
    Subscribed = {u1}
    NoLimit = NoLimit
    Offers <- MCOffers
    NoTask = NoTask
    NoCode = NoCode
    MaxRequests = 3
    MaxEdits = 1
    MaxFaults = 1
INVARIANTS WithinTerms PanelAgrees ExtensionsAddUp
PROPERTIES RedeemedAtOnce RequestsEnd
CHECK_DEADLOCK FALSE
