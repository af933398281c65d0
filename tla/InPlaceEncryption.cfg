CONSTANTS
  DataSize = 7
  Offset = 2
  Chunk = 3
  Portion = 1
  UpdateInterval = 4
  WipePasses = 1
  Passwords = {w1, w2}
  MaxJobs = 4
  MaxFaults = 2
SPECIFICATION ToolsSpec
INVARIANTS ToolsTypeOK PrimaryAgrees RevealedWhenDone HiddenWhilePartial PendingRecorded
PROPERTIES EncryptionErrorUndone ToolsKeepContent EverythingEnds
CHECK_DEADLOCK FALSE
