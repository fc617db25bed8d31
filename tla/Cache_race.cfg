SPECIFICATION Spec
CONSTANTS
    Thread = {t1, t2}
    NKey = 1
    Obj = {o1}
    NoValue = NoValue
    Null = Null
    Alias <- AliasNone
    Outcome <- OutcomeOne
    Policies <- PoliciesTight
    MaxEvict = 2
    MaxGets = 2
INVARIANT RemoveRefThreadSafe
