SPECIFICATION Spec
CONSTANTS
    f1 = f1
    f2 = f2
    old = old
    new = new
    SettingsFiles <- Files
    Fields <- Names
    Values <- Choices
    MaxCalls = 2
    MaxChanges = 1
    Texts <- Known
    MaxTime = 3
    MaxReads = 1
    MaxOutput = 2
    KeptOutput = 1
INVARIANTS
    ManualAloneAfterClear
    NoBlindOverwrite
    UninterruptedIsWhole
PROPERTIES
    ObedientCommandsSettle
CHECK_DEADLOCK FALSE
