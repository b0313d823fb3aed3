SPECIFICATION ReadersSpec
CONSTANTS
    a = a
    b = b
    off = off
    on = on
    idle = idle
    None = None
    NoId = NoId
    Names = {1, 2, 3}
    ChannelIds = {a, b}
    Scales <- MCScales
    OtherUnits <- MCOtherUnits
    NoScale = "Unknown"
    Unversioned = "Enum"
    Versions <- MCVersions
    Symbols <- MCSymbols
    Tables <- MCTables
    Requests <- MCRequests
    Streams <- MCStreams
    Start = 5
    End = 8
    Step = 2
    LookBack = 3
    Ends = {7, 10, 13, 14, 22}
    StepsAsked <- MCStepsAsked
    DefaultSteps = {1, 2}
    MaxPoints = 2
    PerSecond = 4
    PerMilli = 2
    UnitsTaken = {"C10", "F10", "PowerW"}
    ReportLists <- MCReportLists
    Machines <- MCMachines
INVARIANTS LineagesExact AskedWhole RefusedExactly CellsRight LinesExact LateExact SequencesExact FailsExactly
CHECK_DEADLOCK FALSE
