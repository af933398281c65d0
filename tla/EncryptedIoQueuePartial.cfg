CONSTANTS
  Irps = {i1}
  NoIrp = NoIrp
  Sectors <- ThreeSectors
  MaxLength = 3
  MaxIrps = 1
  FragmentSize = 3
  ItemCount = 1
  RequestCount = 1
  HeaderSectors = {}
  RemapOffset = 3
  Areas = {}
  RemapAreas <- SecondSector
  HiddenVolumes = {}
  MaxFailures = 1
  RemapFailures = TRUE
  Operations = {}
  RemapOperations = {"read", "write"}
  Controls = {}
SPECIFICATION Spec
INVARIANTS NoIoAfterFailure
