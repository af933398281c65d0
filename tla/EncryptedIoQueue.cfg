CONSTANTS
  Irps = {i1, i2}
  NoIrp = NoIrp
  Sectors <- TwoSectors
  MaxLength = 2
  MaxIrps = 2
  FragmentSize = 1
  ItemCount = 2
  RequestCount = 3
  HeaderSectors = {0}
  RemapOffset = 2
  Areas <- SecondSector
  RemapAreas = {}
  HiddenVolumes <- SecondProtected
  MaxFailures = 0
  RemapFailures = FALSE
  Operations = {"read", "write"}
  RemapOperations = {}
  Controls = {"erase"}
SPECIFICATION Spec
SYMMETRY Symmetry
INVARIANTS TypeOK OneUserPerBuffer DiskStaysReadable HiddenVolumeKept
PROPERTIES ImplementsPlainDisk
