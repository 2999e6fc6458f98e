SPECIFICATION FairSpec
CONSTANTS
  Workers = {w1, w2}
  Runs = {r1, r2}
  Files = {waveform, manifest}
  Manifest = manifest
  Lanes = {"scope", "survey", "decode"}
  NoRun = NoRun
  NoWorker = NoWorker
  PowerCuts = FALSE
INVARIANTS
  TypeOK
  VisibleIsWhole
  NoStrayTrace
  LineageResolves
  ExclusiveAcquisition
PROPERTIES
  ImplementsStore
  RequestsSettle
