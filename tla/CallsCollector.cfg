SPECIFICATION FairSpec
CONSTANTS
  Natives = {n1, n2}
  Policies = {p0}
  Initial = p0
  BatchSize = 2
  Capacity = 1
  MaxLives = 2
  MaxCalls = 2
  MaxChanges = 1
INVARIANT CallsAttributed
PROPERTIES EndedThreadsCollected ThreadsEnd
