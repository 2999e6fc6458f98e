SPECIFICATION FairSpec
CONSTANTS
  Threads = {t1, t2}
  NoThread = NoThread
  Hosts = {h1, h2}
  Foreign = Foreign
  Macs = {m1}
  Interfaces = {eth0}
  Workers = 1
INVARIANTS
  TypeOK
  ScansDoNotOverlap
  ReportIsTrue
  GatewaysLeftAlone
PROPERTIES
  ScanLockComesFree
