\* Two requests during reloads that edit, remove and bring back a target.
SPECIFICATION FairSpec
CONSTANTS
  Calls = {c1, c2}
  Schemes = {TRUE, FALSE}
  MaxVersions = 2
  MaxGenerations = 2
  MaxTokens = 2
CHECK_DEADLOCK FALSE
INVARIANT TheCacheIsCurrent
PROPERTIES MintsOnlyWhenNeeded EveryCallEnds
