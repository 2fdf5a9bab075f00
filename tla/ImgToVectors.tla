---------------------------- MODULE ImgToVectors ----------------------------
(***************************************************************************)
(* convertImgToVectors (NDFileArrow.h): the double loop that turns an      *)
(* image into the columns of a sparse table - the X, the Y and the channel *)
(* values of every pixel with a non-zero channel - run the way writeFile   *)
(* runs it: with the coordinate type and the pixel type of the stored      *)
(* schema, which need not be those the image itself would have got (module *)
(* NDFileArrow).  pData is cast to the pixel type, whatever it holds.      *)
(*                                                                         *)
(* One action per iteration of the inner loop, so the loop counters wrap   *)
(* and the offset computation overflows where the C++ does.                *)
(***************************************************************************)
EXTENDS ArrowSchema, FiniteSets

CONSTANTS
  Samples,    \* the values a channel of a pixel may have
  PixelTypes, \* the pixel types a stored schema may have
  Frames      \* the images, as records of sizes, channel count, pixel type
              \* and pData

(* pData holds nChannels samples, of type pixel, for each of the pixels. *)
IsFrame(f) ==
  /\ f.xSize \in Nat /\ f.ySize \in Nat /\ f.nChannels \in Nat \ {0}
  /\ f.pixel \in DOMAIN SizeOf
  /\ f.pData \in [0 .. f.xSize * f.ySize * f.nChannels - 1 -> Samples]

ASSUME FrameAssumption ==
  /\ 0 \in Samples /\ PixelTypes \subseteq DOMAIN SizeOf
  /\ \A f \in Frames : IsFrame(f)

VARIABLES
  frame,     \* the image being converted (never changes)
  coord,     \* CT, the coordinate type of the schema (never changes)
  pixel,     \* PT, the pixel type of the schema (never changes)
  i, j,      \* the loop counters, of type CT
  count,     \* get<0>: number of hot pixels, and of rows of every column
  xs, ys,    \* get<1>, get<2>: their coordinates
  chans      \* get<3>: their values, one vector per channel

input == <<frame, coord, pixel>>
columns == <<count, xs, ys, chans>>
vars == <<input, i, j, columns>>

nChannels == 1 .. frame.nChannels

(* The sizes narrowed to the coordinate type by the call. *)
Narrow(n) == Narrowed(n, coord)

rows == Narrow(frame.ySize)
cols == Narrow(frame.xSize)

MoreRows_OnePastEnd == i <= rows

MoreRows == i < rows

(* The offset (i * cols + j) * nChannels + c.  uint32_t arithmetic wraps;  *)
(* int overflow is undefined: the build either computes the offset in a    *)
(* wider register or wraps to a negative one.                              *)
Index_OneBased(c) == (i * cols + j) * frame.nChannels + c + 1

Index_RowStride(c) == (i * rows + j) * frame.nChannels + c

Index(c) == (i * cols + j) * frame.nChannels + c

Offsets(c) ==
  IF coord = "uint32" THEN {Index(c) % (MaxU32 + 1)}
                      ELSE {Index(c), ToInt(Index(c))}

(* The bytes of the PT at an offset, which counts in samples of type PT,   *)
(* lie in pData, whose samples are of the image's own type.                *)
Within(o) ==
  /\ o >= 0
  /\ (o + 1) * SizeOf[pixel]
       <= frame.xSize * frame.ySize * frame.nChannels * SizeOf[frame.pixel]

(* What reading the sample of channel c may return: beyond pData, or as a  *)
(* type that is not the image's, anything.                                 *)
Reads(c) ==
  UNION {IF Within(o) /\ pixel = frame.pixel THEN {frame.pData[o]} ELSE Samples :
         o \in Offsets(c)}

PixelReads == {v \in [nChannels -> Samples] : \A c \in nChannels : v[c] \in Reads(c - 1)}

AllZeros_FirstChannel(v) == v[1] = 0

AllZeros(v) == \A c \in nChannels : v[c] = 0

Init ==
  /\ frame \in Frames
  /\ coord \in CoordTypes /\ pixel \in PixelTypes
  /\ i = 0 /\ j = 0
  /\ count = 0
  /\ xs = <<>> /\ ys = <<>>
  /\ chans = [c \in nChannels |-> <<>>]

(* An iteration of the inner loop. *)
ScanPixel ==
  /\ MoreRows /\ j < cols
  /\ \E v \in PixelReads :
       \/ /\ AllZeros(v)                          \* continue
          /\ UNCHANGED columns
       \/ /\ ~AllZeros(v)
          /\ count' = count + 1
          /\ xs' = Append(xs, j)
          /\ ys' = Append(ys, i)
          /\ chans' = [c \in nChannels |-> Append(chans[c], v[c])]
  /\ j' = Narrow(j + 1)
  /\ UNCHANGED <<input, i>>

(* The inner loop ends: next row. *)
NextRow_SkipsOne ==
  /\ MoreRows /\ j >= cols
  /\ i' = IF i + 2 <= rows THEN i + 2 ELSE rows
  /\ j' = 0
  /\ UNCHANGED <<input, columns>>

NextRow ==
  /\ MoreRows /\ j >= cols
  /\ i' = Narrow(i + 1)
  /\ j' = 0
  /\ UNCHANGED <<input, columns>>

Next == ScanPixel \/ NextRow

(* A function call runs until it returns. *)
Spec == Init /\ [][Next]_vars /\ WF_vars(Next)

Done == ~MoreRows
-----------------------------------------------------------------------------
(* The image the conversion should deliver, from the layout of pData.      *)

Sample(x, y, c) == frame.pData[(y * frame.xSize + x) * frame.nChannels + (c - 1)]

Hot(x, y) == \E c \in nChannels : Sample(x, y, c) # 0

xRange == 0 .. frame.xSize - 1
yRange == 0 .. frame.ySize - 1

(* The columns hold exactly the hot pixels that precede (xEnd, yEnd) in    *)
(* row-major order, each once, in that order, with its channel values.     *)
Encodes(xEnd, yEnd) ==
  LET Before(x, y) == y < yEnd \/ (y = yEnd /\ x < xEnd)
  IN  /\ count = Len(xs) /\ count = Len(ys)
      /\ \A c \in nChannels : count = Len(chans[c])
      /\ \A k \in 1 .. count :
           /\ xs[k] \in xRange /\ ys[k] \in yRange
           /\ Before(xs[k], ys[k])
           /\ Hot(xs[k], ys[k])
           /\ \A c \in nChannels : chans[c][k] = Sample(xs[k], ys[k], c)
      /\ \A x \in xRange, y \in yRange :
           Before(x, y) /\ Hot(x, y) => \E k \in 1 .. count : xs[k] = x /\ ys[k] = y
      /\ \A k, l \in 1 .. count :
           k < l => ys[k] < ys[l] \/ (ys[k] = ys[l] /\ xs[k] < xs[l])

(* What a reader of the table makes of it, knowing only the sizes: the     *)
(* value of each row of a pixel, and zero where no row speaks of it.       *)
RowsOf(x, y) == {k \in 1 .. count : xs[k] = x /\ ys[k] = y}

ReadBack(x, y, c) ==
  IF RowsOf(x, y) = {} THEN {0} ELSE {chans[c][k] : k \in RowsOf(x, y)}

(* Every reader gets the image back, no row lies outside it, and the       *)
(* attribute columns, which have count rows, are empty - the image loses   *)
(* its identity and its time stamps - only if every sample is zero.        *)
Recoverable ==
  /\ \A x \in xRange, y \in yRange, c \in nChannels : ReadBack(x, y, c) = {Sample(x, y, c)}
  /\ \A k \in 1 .. count : xs[k] \in xRange /\ ys[k] \in yRange
  /\ count = 0 <=> \A x \in xRange, y \in yRange : ~Hot(x, y)

(* The stored schema suits the image. *)
Fits ==
  /\ pixel = frame.pixel
  /\ Convertible(coord, frame.xSize, frame.ySize,
                 frame.xSize * frame.ySize * frame.nChannels)

(* It is the schema openFile makes for the image. *)
OwnType ==
  pixel = frame.pixel /\ coord = CoordType(ToInt(frame.xSize), ToInt(frame.ySize))

(* Types of the variables; a counter never passes the bound of its loop.   *)
TypeOK ==
  /\ IsFrame(frame) /\ coord \in CoordTypes /\ pixel \in PixelTypes
  /\ i \in 0 .. rows /\ j \in 0 .. cols
  /\ count \in Nat
  /\ xs \in Seq(0 .. cols) /\ ys \in Seq(0 .. rows)
  /\ chans \in [nChannels -> Seq(Samples)]

(* The loop reads the image's own samples only, also under the schema of   *)
(* another array, which may narrow its sizes, and however large the image: *)
(* an offset in uint32_t that wraps lands in pData again.  But the samples *)
(* visited have to be addressable, if the offsets are of type int, and as  *)
(* samples of the schema's type they have to end where pData does: a wider *)
(* type than the image's own leaves room for fewer (ReadsWithin).          *)
ReadsInBounds ==
  /\ MoreRows /\ j < cols
  /\ ReadsWithin(coord, pixel, frame.pixel, frame.xSize, frame.ySize, frame.nChannels)
  => \A c \in nChannels : \A o \in Offsets(c - 1) : Within(o)

(* At every iteration the columns encode exactly the pixels visited: no    *)
(* hot pixel is missing, duplicated, moved or given another's values.      *)
PrefixExact == Fits => Encodes(j, i)

(* When convertImgToVectors returns, the image can be read back from its   *)
(* columns, whichever save the schema was made for, if only its coordinate *)
(* type fits and its pixel type is the image's own.                        *)
ImageRecovered == Done /\ Fits => Recoverable

(* And the schema openFile makes for an image always fits, unless the      *)
(* image is too large for an int or for the offset arithmetic.             *)
OwnImageRecovered ==
  /\ Done /\ OwnType
  /\ frame.xSize <= MaxInt /\ frame.ySize <= MaxInt
  /\ Addressable(coord, frame.xSize * frame.ySize * frame.nChannels)
  => Recoverable

(* The table has one row for each hot pixel - the count passed on as the   *)
(* length of the attribute columns - and no other.                         *)
HotPixels == {p \in xRange \X yRange : Hot(p[1], p[2])}

OneRowPerHotPixel == Done /\ Fits => count = Cardinality(HotPixels)

(* The iterations left, those that only leave the inner loop included. *)
Left == (rows - i) * (cols + 1) - j

(* Every pixel is visited once: each iteration leaves one less, and none   *)
(* is left at the end, although the counters have the type of their bounds *)
(* and would wrap one step later.                                          *)
OnePassOnly == [][Left' = Left - 1 /\ (Left' = 0 <=> Done')]_vars

(* The loops end for good: with 255 rows the counter never needs the value *)
(* 256, so it does not wrap to 0 and start over.                           *)
Terminates == <>[]Done

(* The same as OwnImageRecovered for every image, however large: what the  *)
(* test of createSchema for "super large image sizes" expects to be        *)
(* possible.                                                               *)
LargeImageRecovered == Done /\ OwnType => Recoverable
=============================================================================
