\* Two operators with one operation each or two of one, one event: a change on the
\* panel, a failing commit or a failing webhook handler; one period passes.
SPECIFICATION Spec
CONSTANTS
    o1 = o1  o2 = o2
    Operators = {o1, o2}
    Webhook = Webhook
    MaxOps = 2
    MaxEvents = 1
    MaxTime = 1
INVARIANTS AgreeAtRest OnlyCurrentIsLive TrialOnce
SYMMETRY MCSymmetry
CHECK_DEADLOCK FALSE
