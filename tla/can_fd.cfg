SPECIFICATION Spec
CONSTANTS
  Subjects = {"can"}
  FdFormats = {TRUE}
  Failed = Failed
  MaxLines = 5
  MaxFaults = 2
  LongMessage = 125
  AddressWidth = 5
  MarkedBytes = {0, 65, 255}
  MaxChars = 3
  StreamTotal = 6
  StreamBuffer = 3
  MaxPolls = 5
INVARIANTS
  FdIsUnsupported
CHECK_DEADLOCK FALSE
