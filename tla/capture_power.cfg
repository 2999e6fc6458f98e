SPECIFICATION Spec
CONSTANTS
  Workers = {w1, w2}
  Runs = {r1, r2}
  Files = {waveform, manifest}
  Manifest = manifest
  Lanes = {"scope", "decode"}
  NoRun = NoRun
  NoWorker = NoWorker
  PowerCuts = TRUE
SYMMETRY Symmetric
PROPERTIES
  PublishedForever
