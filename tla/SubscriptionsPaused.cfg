\* One operator, four operations: a trial is paused, resumed and disabled.
SPECIFICATION Spec
CONSTANTS
    o1 = o1  o2 = o2
    Operators = {o1}
    Webhook = Webhook
    MaxOps = 4
    MaxEvents = 0
    MaxTime = 0
PROPERTIES RestoresOnlyOwn
CHECK_DEADLOCK FALSE
