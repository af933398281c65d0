CONSTANTS
  Irps = {i1}
  NoIrp = NoIrp
  Sectors <- ThreeSectors
  MaxLength = 3
  MaxIrps = 3
  FragmentSize = 3
  ItemCount = 1
  RequestCount = 1
  HeaderSectors = {0}
  RemapOffset = 3
  Areas <- SecondSector
  RemapAreas <- FirstTwoSectors
  HiddenVolumes = {}
  MaxFailures = 1
  RemapFailures = FALSE
  Operations = {"write","skewed"}
  RemapOperations = {"read", "write"}
  Controls = {}
SPECIFICATION Spec
INVARIANTS ReadsReturnContent
PROPERTIES ImplementsPlainDisk
