\* Two clients call DoWork on two pool threads, the ring twice the number of threads.
CONSTANTS
  Clients = {c1, c2}
  Workers = {w1, w2}
  QueueSize = 4
  MaxUnits = 3
  MaxDerivations = 0
  NoThread = NoThread
SPECIFICATION CallSpec
SYMMETRY Symmetry
INVARIANTS TypeOK FragmentIntact OneWaiterPerEvent
PROPERTIES ImplementsService
