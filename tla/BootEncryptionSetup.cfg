CONSTANTS
  Irps = {i1}
  NoIrp = NoIrp
  Sectors <- ThreeSectors
  MaxLength = 1
  MaxIrps = 1
  FragmentSize = 2
  ItemCount = 1
  RequestCount = 1
  HeaderSectors = {}
  RemapOffset = 4
  Areas <- SomeBoundaries
  RemapAreas = {}
  HiddenVolumes = {}
  MaxFailures = 1
  RemapFailures = FALSE
  Operations = {"write"}
  RemapOperations = {}
  Controls = {}
  ConfiguredStart = 1
  ConfiguredEnd = 3
  BlockSize = 1
  HeaderThreshold = 2
  WipePasses = 1
  Modes = {"encrypt", "decrypt"}
  MaxControls = 2
SPECIFICATION SetupSpec
INVARIANTS SetupTypeOK LossBounded CanBeResumed KeysNotNeeded MutexReturned
PROPERTIES SetupImplementsPlainDisk
