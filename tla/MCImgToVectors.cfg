SPECIFICATION Spec
CONSTANTS
  MaxU8 = 1
  MaxU16 = 3
  MaxInt = 7
  MaxU32 = 15
  Samples = {0, 1, 2}
  PixelTypes = {"uint16"}
  Frames <- MCFrames
INVARIANTS TypeOK ReadsInBounds PrefixExact ImageRecovered OwnImageRecovered OneRowPerHotPixel
PROPERTIES OnePassOnly Terminates
\* The conversion returns.
CHECK_DEADLOCK FALSE
