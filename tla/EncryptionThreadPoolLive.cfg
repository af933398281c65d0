\* The same, fair, with the smallest ring that can hold one call.
CONSTANTS
  Clients = {c1, c2}
  Workers = {w1, w2}
  QueueSize = 2
  MaxUnits = 2
  MaxDerivations = 0
  NoThread = NoThread
SPECIFICATION FairSpec
PROPERTIES CallReturns StopReturns
