\* A disk that refuses writes anywhere in a line, two reloads that move the log, crashes.
SPECIFICATION Spec
CONSTANTS
  Paths = {p1, p2}
  Reloads = {l1, l2}
  Faults = TRUE
  MaxWrites = 4
SYMMETRY Symmetric
CHECK_DEADLOCK FALSE
INVARIANTS ChainsVerify AckedIsOnDisk NothingTwice
