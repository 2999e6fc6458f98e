SPECIFICATION FairSpec
CONSTANTS
  o1 = o1
  liveData = liveData
  faultCodes = faultCodes
  Savers = {s1, s2}
  Ops <- OneOp
  Kinds <- Asked
  Conns = {c1, c2}
  Sessions = {session}
  Files = {snapshot, manifest}
  NoSaver = NoSaver
  NoOp = NoOp
  NoKind = NoKind
  NoConn = NoConn
  NoSession = NoSession
INVARIANTS
  TypeOK
  FiledUnderItsConnection
  CommittedIsDurable
  RetryStartsClean
  OpenRowsAreLive
PROPERTIES
  ImplementsStore
  SaveLockComesFree
