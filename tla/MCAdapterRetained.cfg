CONSTANTS
  Ids <- MCIds
  Scores <- MCScores
  Stamps <- MCStamps
  ValidStamps <- MCValidStamps
  Collection = "Conversation"
  NoTimestamp = NoTimestamp
  MaxRecords = 2

SPECIFICATION ASpec

CHECK_DEADLOCK FALSE

INVARIANT RecordsRetained
