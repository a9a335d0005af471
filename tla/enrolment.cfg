\* Two writers, kills, full disks.
SPECIFICATION Spec
CONSTANTS
  w1 = w1  w2 = w2  a1 = a1  a2 = a2  u1 = u1  u2 = u2  v1 = v1  v2 = v2  k1 = k1  k2 = k2  k3 = k3
  open = open  payload = payload  other = other
  Writers = {w1, w2}
  Ids = {a1, a2}
  Services = {u1, u2}
  Vaulted = {v1, v2}
  Kept = {k1, k2, k3}
  Slug <- MCSlug
  Inline = inline
  Typed = typed
  All = all
  None = none
  Torn = torn
  Absent = absent
  RuleSpecs <- MCRuleSpecs
  Calls = {open, payload, other}
  Opening = {open}
  Profiles <- MCProfiles
  Start <- MCStarts
  Layouts <- MCLayouts
  MaxRules = 3
  MaxCommands = 2
CHECK_DEADLOCK FALSE
INVARIANTS FilesStayWhole NothingDangling
PROPERTIES PruneTakesItsOwn CredentialsStay
SYMMETRY Symmetric
VIEW Used
