CONSTANTS
  DataSize = 7
  Offset = 2
  Chunk = 3
  Portion = 1
  UpdateInterval = 4
  WipePasses = 0
  Passwords = {w1}
  MaxJobs = 2
  MaxFaults = 1
SPECIFICATION ToolsSpec
INVARIANT SafeToResume
CHECK_DEADLOCK FALSE
