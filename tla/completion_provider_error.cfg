SPECIFICATION Spec
CONSTANTS
    MaxPieces <- Pieces
    Leftovers <- Fresh
INVARIANTS
    ProviderErrorIsNotSuccess
CHECK_DEADLOCK FALSE
