SPECIFICATION FairSpec
CONSTANTS
  d1 = d1
  d2 = d2
  a = a
  Threads = {t1, t2}
  NoThread = NoThread
  Devices <- OneDevice
  Ids = {a}
  IdOf <- OneId
  Backlog = 1
PROPERTY RoutingLockComesFree
