SPECIFICATION Spec
CONSTANTS
  Threads = {t1, t2}
  Nobody = Nobody
  Forms <- VinForms
  Vins <- NormalVins
  Normal <- Normalised
  OldFleets <- Fleets
  MaxVehicles = 2
  MaxSessions = 1
  MaxConnections = 2
  MaxSnapshots = 1
  MaxClears = 1
SYMMETRY Symmetry
INVARIANTS
  TypeOK
  DiskIsWhole
PROPERTIES
  RecordsStay
CHECK_DEADLOCK FALSE
