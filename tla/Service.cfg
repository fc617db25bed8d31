SPECIFICATION MCSpec
CONSTANTS
    NoThread = NoThread
    NoId = NoId
    NULL = NULL
    FREED = FREED
    Id <- MCId
    Root = ""
    Chop <- MCChop
    Slot <- MCSlot
    Thread = {"t1", "t2"}
    Listener = {}
    Defaults = {"en"}
    Factory = {"f0", "f1", "f2", "f3"}
    Supports <- Supports3
    Delegates <- Delegates3
    Invisible = {"f2"}
    ForPrimary = {}
    BuiltIn <- English
    HasDefault = TRUE
    Calls <- CallsPeers
    Request = {"de_CH", "de"}
    DisplayLocale = {"en", "de"}
    Readers = {}
    MaxChanges = 2
    Fails = {}
    MaxFailure = 0
    KeepsKeys = FALSE
    Entries = 4
INVARIANTS
    EntriesCounted
    AnswersCurrent
    
    NoLostChange
PROPERTIES
    CallsReturn
CHECK_DEADLOCK FALSE
