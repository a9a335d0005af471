\* One message, one fault, on each transport.
SPECIFICATION Spec
CONSTANTS
  c1 = c1  c2 = c2
  Calls = {c1, c2}
  Messages <- MCMessages
  Policies <- MCPolicies
  Lifetimes = {3, 4}
  Trip = 1
  Margin = 3
  None = none
  MaxMessages = 1
  MaxTokens = 20
  MaxTime = 3
  MaxFaults = 1
CHECK_DEADLOCK FALSE
INVARIANTS NothingUnasked AnsweredExactlyOnce TokensAreMinded
PROPERTY EveryMessageSettles
