SPECIFICATION Spec
CONSTANTS
  deep = deep
  shallow = shallow
  Threads <- TwoThreads
  Callees = {f, g}
  Exit = exit
  Before = 1
  EnterAfter = 2
  ExitBefore = 3
  After = 5
  MaxRecords <- Records
  MaxWork <- Working
  MaxClears = 1
INVARIANT StatisticsTrue
