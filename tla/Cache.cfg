SPECIFICATION Spec
CONSTANTS
    Thread = {t1, t2}
    NKey = 2
    Obj = {o1, o2}
    NoValue = NoValue
    Null = Null
    Alias <- AliasPair
    Outcome <- OutcomePair
    Policies <- PoliciesTight
    MaxEvict = 2
    MaxGets = 2
SYMMETRY Symmetric
INVARIANTS CreatorOwnsMarker CountsAgree SameReference LoopHasElement
PROPERTIES EvictionCeasesAtLimit FlushLeavesOnlyUsed
