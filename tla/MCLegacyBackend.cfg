SPECIFICATION Spec
CONSTANTS
    Tasks = {t1, t2}
    Keys = {day, other, month, bids}
    NoKey = NoKey
    TooLong = {month}
    Bids = {bids}
    RunningLocally = FALSE
    MaxReports = 2
    Chunks = 2
    MaxExports = 2
INVARIANTS NothingLeft FailsOnlyTogether AnswerOwnOrMet DownloadOwnOrMet
PROPERTY CsvEnds
CHECK_DEADLOCK FALSE
