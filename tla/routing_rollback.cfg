SPECIFICATION Spec
CONSTANTS
  d1 = d1
  d2 = d2
  a = a
  Threads = {t1}
  NoThread = NoThread
  Devices <- Bench
  Ids = {a}
  IdOf <- TwinIds
  Backlog = 1
INVARIANT ErrorRestoresConfig
