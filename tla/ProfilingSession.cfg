SPECIFICATION FairSpec
CONSTANTS
  Modules = {m1, m2}
  MaxCalls = 2
  MaxActive = 1
  MaxPolls = 1
  MaxInterest = 1
INVARIANTS CallsConserved FinalizationSound
PROPERTIES DestructorReturns SymbolsArrive
