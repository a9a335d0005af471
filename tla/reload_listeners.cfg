\* Edits of the policy and of what it says of the listeners, reloads by the watcher or asked for, binds and reads that fail.
SPECIFICATION LSpec
CONSTANTS
  w = w  a = a  b = b  c = c  none = none
  Reloaders <- Watcher
  Poller = w
  None = none
  Settings <- MCSettings
  MaxEdits = 3
  Capacity = 1
  MaxRenewals = 2
INVARIANTS PolicyIsWhole ListenersHold
PROPERTY EverythingSettles
