SPECIFICATION Spec
CONSTANTS
  Threads = {t1}
  NoThread = NoThread
  Hosts = {h1, h2}
  Foreign = Foreign
  Macs = {m1}
  Interfaces = {eth0}
  Workers = 1
INVARIANT UntruncatedReportIsFull
