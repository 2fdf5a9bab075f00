---------------------------- MODULE ArrowSchema ----------------------------
(***************************************************************************)
(* The pure part of NDFileArrow.cpp/.h: the Arrow type of an NDArray's     *)
(* pixels, the schema createSchema builds for it, and the C++ integer      *)
(* widths through which image sizes and pixel offsets pass.                *)
(*                                                                         *)
(* The widths are constants.  Only their order matters to the code, so TLC *)
(* runs with 1-, 2- and 4-bit stand-ins for the 8-, 16- and 32-bit types;  *)
(* the theorems hold for the real ones.                                    *)
(***************************************************************************)
EXTENDS Integers, Sequences

CONSTANTS
  MaxU8,    \* numeric_limits<uint8_t>::max()
  MaxU16,   \* numeric_limits<uint16_t>::max()
  MaxU32,   \* numeric_limits<uint32_t>::max()
  MaxInt    \* numeric_limits<int>::max()

ASSUME WidthAssumption ==
  /\ MaxU8 \in Nat \ {0} /\ MaxU16 \in Nat /\ MaxU32 \in Nat /\ MaxInt \in Nat
  /\ MaxU8 < MaxU16
  /\ MaxU16 < MaxInt
  /\ MaxU32 = 2 * MaxInt + 1

CoordTypes == {"uint8", "uint16", "uint32"}

CoordMax == [uint8 |-> MaxU8, uint16 |-> MaxU16, uint32 |-> MaxU32]

(* Conversion of an unsigned value to a 32-bit int (two's complement). *)
ToInt(n) ==
  LET low == n % (MaxU32 + 1)
  IN  IF low > MaxInt THEN low - (MaxU32 + 1) ELSE low

(* getArrowDataType: every NDDataType_t has an Arrow type. *)
ArrowDataType ==
  [NDInt8  |-> "int8",  NDUInt8  |-> "uint8",  NDInt16   |-> "int16",
   NDUInt16 |-> "uint16", NDInt32 |-> "int32", NDUInt32  |-> "uint32",
   NDInt64 |-> "int64", NDUInt64 |-> "uint64", NDFloat32 |-> "float",
   NDFloat64 |-> "double"]

(* sizeof the pixel type of each column type. *)
SizeOf ==
  [int8  |-> 1, uint8  |-> 1, int16 |-> 2, uint16 |-> 2, int32  |-> 4, uint32 |-> 4,
   int64 |-> 8, uint64 |-> 8, float |-> 4, double |-> 8]

(* The X/Y column type: the narrowest of three that holds both sizes. *)
Wider_GreaterByOne(size, coord) == size > CoordMax[coord] + 1

Wider(size, coord) == size > CoordMax[coord]

CoordType_WideIs64(xSize, ySize) ==
  IF Wider(xSize, "uint16") \/ Wider(ySize, "uint16") THEN "uint64" ELSE "uint16"

CoordType(xSize, ySize) ==
  IF Wider(xSize, "uint16") \/ Wider(ySize, "uint16") THEN "uint32"
  ELSE IF Wider(xSize, "uint8") \/ Wider(ySize, "uint8") THEN "uint16"
  ELSE "uint8"

(* The pixel columns of the colour modes createSchema accepts. *)
Channels == [Mono |-> <<"Intensity">>, RGB1 |-> <<"R", "G", "B">>]

(* createSchema for an array of a supported colour mode.  The sizes, a     *)
(* size_t in NDArrayInfo, pass through int parameters.                     *)
createSchema(a) ==
  [coord    |-> CoordType(ToInt(a.xSize), ToInt(a.ySize)),
   pixel    |-> ArrowDataType[a.dataType],
   channels |-> Channels[a.colorMode]]

(* Offsets into pData are computed in int for the two narrow coordinate    *)
(* types (integer promotion) and in uint32_t for the wide one: n samples   *)
(* can be addressed without overflow.                                      *)
Addressable(coord, n) == n <= 1 + (IF coord = "uint32" THEN MaxU32 ELSE MaxInt)

(* An image of these sizes and n samples can be converted with columns of  *)
(* type coord: its sizes survive as loop bounds and its samples can be     *)
(* addressed (module ImgToVectors).                                        *)
Convertible(coord, xSize, ySize, n) ==
  xSize <= CoordMax[coord] /\ ySize <= CoordMax[coord] /\ Addressable(coord, n)

(* A size as the conversion gets it: an argument of the coordinate type. *)
Narrowed(size, coord) == size % (CoordMax[coord] + 1)

(* How many samples of type pixel, from the beginning of pData, cover all  *)
(* that the conversion reads: as many as it visits, but no more than the   *)
(* offsets in uint32_t reach.                                              *)
Reach(coord, xSize, ySize, nChannels) ==
  LET visited == Narrowed(ySize, coord) * Narrowed(xSize, coord) * nChannels
  IN  IF coord = "uint32" /\ visited > MaxU32 + 1 THEN MaxU32 + 1 ELSE visited

(* pData holds the image in samples of its own type.  Taken for samples of *)
(* type pixel and converted with columns of type coord, it is not read     *)
(* beyond its end.                                                         *)
ReadsWithin(coord, pixel, own, xSize, ySize, nChannels) ==
  LET reach == Reach(coord, xSize, ySize, nChannels)
  IN  /\ Addressable(coord, reach)
      /\ reach * SizeOf[pixel] <= xSize * ySize * nChannels * SizeOf[own]
=============================================================================
