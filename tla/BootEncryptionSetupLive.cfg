CONSTANTS
  Irps = {i1}
  NoIrp = NoIrp
  Sectors <- OneSector
  MaxLength = 1
  MaxIrps = 1
  FragmentSize = 2
  ItemCount = 1
  RequestCount = 1
  HeaderSectors = {}
  RemapOffset = 4
  Areas <- AnyBoundary
  RemapAreas = {}
  HiddenVolumes = {}
  MaxFailures = 0
  RemapFailures = FALSE
  Operations = {"write"}
  RemapOperations = {}
  Controls = {}
  ConfiguredStart = 1
  ConfiguredEnd = 1
  BlockSize = 1
  HeaderThreshold = 1
  WipePasses = 0
  Modes = {"encrypt", "decrypt"}
  MaxControls = 2
SPECIFICATION SetupSpec
PROPERTIES ControlsReturn SetupEnds
