SPECIFICATION FairSpec
CONSTANTS
  Procs = {service, other}
  Nobody = Nobody
  Backlog = 4
INVARIANTS
  TypeOK
  OwnedWhileConnected
  ValuesAreOurs
PROPERTIES
  OperationsEnd
