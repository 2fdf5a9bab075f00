SPECIFICATION SerialSpec
CONSTANTS
  MaxU8 = 1
  MaxU16 = 3
  MaxInt = 7
  MaxU32 = 15
  NULL = NULL
  Faults = TRUE
  FileNames = {f1, f2}
  Threads = {t1, t2}
  NDArrays <- MCStale
  OpenModes <- MCWriteOnly
  FormatValues = {0, 2}
INVARIANT OneArrayPerFile
PROPERTY ImplementsSaver
