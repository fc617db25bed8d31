SPECIFICATION MCSpec
CONSTANTS
    Thread = {t1, t2, t3}
    MaxOps = 4
    Null = Null
    Client = {c1, c2}
    Address = {o1}
    NoValue = NoValue
PROPERTIES IsCondition BroadcastWakes CacheCallsReturn
CHECK_DEADLOCK FALSE
