SPECIFICATION AnyInput
CONSTANTS
    MaxPerTurn = 2
    MaxInAll = 3
    Ranges <- SomeRanges
    Answers <- SomeAnswers
    Outputs <- SomeOutputs
    Sessions <- SomeSessions
    Searches <- SomeSearches
INVARIANTS
    RangeIsChunkFree
    EveryCallHasItsAnswer
    SinksNeverMeet
    PhasesRunAsConfigured
    SearchIsCompleteOrSaysSo
CHECK_DEADLOCK FALSE
