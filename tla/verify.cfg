SPECIFICATION VSpec
CONSTANTS
  ana = ana
  bob = bob
  svc = svc
  initialize = initialize
  other = other
  path = path
  Names <- AllNames
  Methods <- AllMethods
  Paths <- AllPaths
  NoPath = NoPath
  Never = 9
  Agents <- TheAgents
  Initialize = initialize
  Configs <- Every
  MaxFrames = 4
CHECK_DEADLOCK FALSE
INVARIANTS ReportsAreTrue WarningsAreTrue
PROPERTY EveryProbeEnds
