CONSTANTS
  Irps = {i1, i2}
  NoIrp = NoIrp
  Sectors <- OneSector
  MaxLength = 1
  MaxIrps = 2
  FragmentSize = 1
  ItemCount = 1
  RequestCount = 1
  HeaderSectors = {}
  RemapOffset = 2
  Areas <- FirstSector
  RemapAreas = {}
  HiddenVolumes = {}
  MaxFailures = 0
  RemapFailures = FALSE
  Operations = {"read"}
  RemapOperations = {}
  Controls = {"hold", "stop"}
SPECIFICATION FairSpec
INVARIANTS HeldMeansIdle StopLeavesNothing
PROPERTIES IrpsAnswered StopReturns
