SPECIFICATION Spec
CONSTANTS
  MaxU8 = 1
  MaxU16 = 3
  MaxInt = 7
  MaxU32 = 15
  NULL = NULL
  Faults = TRUE
  FileNames = {f1, f2}
  Threads = {t1}
  NDArrays <- MCArrays
  OpenModes <- MCOpenModes
  FormatValues = {2, 3}
INVARIANTS TypeOK OneArrayPerFile
PROPERTY ImplementsSaver
