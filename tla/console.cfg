SPECIFICATION ConsoleSpec
CONSTANTS
  x = x
  Targets = {s}
  Asking = ask
  Others = {x, y}
  StartRules <- MCStart
  Nothing = Nothing
  MaxQuestions = 2
  MaxGone = 1
  MaxKeys = 2
  MaxEdits = 1
  MaxHung = 1
PROPERTIES AnswersAreTheOperators VerifiedOnceAndLate CatchesUp
