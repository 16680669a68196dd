SPECIFICATION Spec
CONSTANTS
  Callees = {f, g}
  Exit = exit
  StackSize = 5
  MaxCalls = 5
  Skips = TRUE
  CallsAfterSkip = FALSE
INVARIANTS ReturnStackSound TraceShowsStack
CHECK_DEADLOCK TRUE
