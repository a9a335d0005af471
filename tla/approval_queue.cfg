\* Two calls, retries of one question or two questions, answered by two decisions at once.
SPECIFICATION Spec
CONSTANTS
  r1 = r1  r2 = r2
  Asks = {a1, a2}
  Requests = {r1, r2}
  Decisions = {d1, d2}
  Scopes <- MCScopes
SYMMETRY Symmetric
INVARIANTS OneQuestionPerRequest NobodyLost AnswersFitTheirWaiters OneAnswerPerQuestion
PROPERTY NewestAnswerStands
