SPECIFICATION Spec
CONSTANTS
  MaxU8 = 1
  MaxU16 = 2
  MaxInt = 3
  MaxU32 = 7
  Samples = {0, 1}
  PixelTypes = {"uint8", "int16", "uint16"}
  Frames <- MCStaleFrames
INVARIANT ReadsInBounds
\* The conversion returns.
CHECK_DEADLOCK FALSE
