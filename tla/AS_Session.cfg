SPECIFICATION VisitFairSpec
CONSTANTS
  Width = 5
  DefaultSize = 2
  MaxSize = 3
  RowCounts <- MCRowCounts
  Sizes <- MCSizes
  FirstPages <- MCFirstPages
  Readers = {"token", "count"}
  Secured = TRUE
  MaxExpiries = 1
  MaxRuns = 2
  Pool <- MCPool
  Limits <- MCLimits
  FirstOffsets <- MCFirstOffsets
  DefaultLimit = 2
  MaxChanges = 1
INVARIANTS PagesInOrder DoneReadsAll AnswersAreOwn ListsWhatIsThere
PROPERTIES OwnIsFound AgentFinishes
CHECK_DEADLOCK FALSE
