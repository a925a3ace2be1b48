SPECIFICATION AnswersSpec
CONSTANTS
  DefaultRowLimit = 3
  Names <- MCNames
  Lower <- MCLower
  Quote <- MCQuote
  Jobs <- MCJobs
  Keys = {"k1", "k2"}
  NoKey = "none"
  Secret = FALSE
  MaxRestarts = 1
  Columns <- MCColumns
INVARIANTS AnswerIsRight  PlainIsAnswered OneDatabase SchemaIsWhole
CHECK_DEADLOCK FALSE
