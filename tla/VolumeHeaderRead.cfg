\* A header read with three PRFs on two pool threads, and DoWork calls after it.
\* The pool can really come to a stop: Stop may drop a derivation the
\* finalization waits for.
CONSTANTS
  Clients = {c1}
  Workers = {w1, w2}
  QueueSize = 3
  MaxUnits = 2
  MaxDerivations = 3
  NoThread = NoThread
SPECIFICATION ReadSpec
INVARIANTS ReadTypeOK RightAnswer NothingFreedEarly
PROPERTIES ReadsEnd
CHECK_DEADLOCK FALSE
