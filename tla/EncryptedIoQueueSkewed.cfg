CONSTANTS
  Irps = {i1}
  NoIrp = NoIrp
  Sectors <- TwoSectors
  MaxLength = 1
  MaxIrps = 1
  FragmentSize = 1
  ItemCount = 1
  RequestCount = 1
  HeaderSectors = {}
  RemapOffset = 2
  Areas = {}
  RemapAreas <- SecondSector
  HiddenVolumes = {}
  MaxFailures = 0
  RemapFailures = FALSE
  Operations = {}
  RemapOperations = {"read", "skewed"}
  Controls = {}
SPECIFICATION Spec
INVARIANTS HiddenReadsRedirected
