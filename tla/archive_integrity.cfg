SPECIFICATION Spec
CONSTANTS
  MaxIndex = 3
  Seeded <- Talk
  System <- SystemTurns
  Keep <- KeepAny
  Appends = 1
  Open <- BetweenAndPlanning
  Interruptions = 2
INVARIANTS
  NothingLost
  SummaryStandsForArchive
  TurnsStayWhole
  OnlyTornRemovalIsInvalid
