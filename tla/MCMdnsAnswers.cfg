CONSTANTS
  Services <- MCServices
  Self = "esp"
  Delegated <- MCDelegated
  Queries <- MCQueries
  MaxQuestions = 2
  MaxKnown = 4
  Null = Null
SPECIFICATION AnswersSpec
INVARIANTS
  Answered
  Sound
  Silent
