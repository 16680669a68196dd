SPECIFICATION Spec
CONSTANTS
  Threads = {1, 2}
  Updates <- TheUpdates
  MaxUpdates = 2
  MaxClears = 1
  Rows = {1, 2, 3, 4}
  Parent <- TheParent
  Module <- TheModule
  Name <- TheName
  Values = {0, 1}
  Columns <- TheColumns
  MaxTracked = 1
  MaxChanged = 1
  Requests = {r1, r2}
  None = None
  MaxPolls = 2
  Modules = {1, 2}
  Base <- TheBase
  Symbols <- TheSymbols
  Filters <- TheFilters
  Addresses = {0, 1, 2, 3, 4, 6, 7, 8, 9, 15}
  Width = 3
  States = {1, 2}
  Scales <- TheScales
  Samples = {0, 7, 13, 30, 99}
  Precision = 5
  Convertible = 8
  MaxTotal = 4
  Bodies <- TheBodies
  Destinations <- TheDestinations
  MinLength = 3
  Reach = 64
  ProgramThreads = {t0, t1, t2}
  Loader = t0
  Exiting = {t1}
  Rounds = 2
  TraceLimit = 20
INVARIANTS StatisticsExact ShownAsTree TrackedRowsFollow OperationOnLiving PollingGoesOn SymbolsResolved FunctionsListed HistogramExact JumpsKept CollectorLivesOn
PROPERTIES ReadyWhileWanted DestructionEnds RefusedUntouched CalibrationEnds
CHECK_DEADLOCK FALSE
