SPECIFICATION AssistantSpec
CONSTANTS
  Coroutine = {c1, c2}
  MaxItems = 3
  Request = {r1, r2}
  HistoryLimit = 2
  MaxTokens = 1
  RateLimitRetries = 1
  TransientRetries = 1
  RecallLimit = 2
  MaxWork = 4
SYMMETRY Names
INVARIANTS OutcomeIsKept QuestionComesLast AnswersAreWhole
CHECK_DEADLOCK FALSE
