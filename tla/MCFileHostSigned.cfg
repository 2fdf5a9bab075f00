SPECIFICATION Spec
CONSTANTS
  MaxU8 = 1
  MaxU16 = 3
  MaxInt = 7
  MaxU32 = 15
  NULL = NULL
  Faults = FALSE
  FileNames = {f1, f2}
  Threads = {t1}
  NDArrays <- MCArrays
  OpenModes <- MCWriteOnly
  FormatValues = {0}
INVARIANT DispatchedTypeIsWritten
