SPECIFICATION Spec
CONSTANTS
  r1 = r1
  r2 = r2
  env = env
  mine = mine
  work = work
  References <- Names
  Vaulted <- InVault
  Accounts <- Both
  Default = mine
  Policies <- All
  Rotating <- Turned
  First <- Apart
  MaxReloads = 2
  MaxOthers = 1
  MaxRotations = 1
CHECK_DEADLOCK FALSE
INVARIANTS TheCacheIsRight NobodyAskedInVain
