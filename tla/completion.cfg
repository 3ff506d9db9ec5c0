SPECIFICATION FairSpec
CONSTANTS
    MaxPieces <- Pieces
    Leftovers <- FreshOrOld
INVARIANTS
    ReceiptTheorem
    ExitTellsTheOutcome
    HookSeesWhatIsCommitted
PROPERTIES
    EveryRunExits
CHECK_DEADLOCK FALSE
