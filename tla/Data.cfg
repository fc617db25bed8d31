SPECIFICATION MCSpec
CONSTANTS
    NoThread = NoThread
    NULL = NULL
    ICU = ICU
    IcuBase <- MCIcuBase
    LinkedIn <- Linked
    Name <- MCName
    ZoneName = {"zone"}
    Thread = {"t1", "t2"}
    Path <- AppOnly
    CommonData <- TwoUsers
    AppData <- OneApp
    Requests <- AllRequests
    Holds <- MCHolds
    DatFile <- MCDatFile
    Single <- MCSingle
    HasDataDir = TRUE
    Accesses = {"filesFirst", "onlyPackages", "packagesFirst", "noFiles"}
    Stdio = FALSE
    Slots = 2
    MaxMap = 7
    MaxCleanup = 1
INVARIANTS
    LoadedOnce
PROPERTIES
    FindsFirst
    EveryOpenReturns
CHECK_DEADLOCK FALSE
