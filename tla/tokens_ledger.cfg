\* Two requests at a time over three tokens that live one or two ticks; an entry of the first is pruned by the last.
SPECIFICATION IssuerSpec
CONSTANTS
  Agents = {g1}
  Calls = {c1, c2}
  MinLifetime = 1  MaxLifetime = 2
  Tombstone = 1
  MaxTokens = 3  MaxTime = 3
SYMMETRY Symmetric
INVARIANTS RenewedIsRetired NothingLiveIsForgotten KillReachesTheLineage
PROPERTY SpentStaysSpent
